----------------------------- MODULE HttpParse -----------------------------
(***************************************************************************)
(* Receiving a request in version_03/http/http_conn.cpp: read_once appends *)
(* what recv returns to m_read_buf, and process_read runs the line scanner *)
(* parse_line and the state machine over it, keeping its place in members  *)
(* between calls.  A cell of the buffer is CR, LF, NUL, a byte of a body,   *)
(* or the text of a line, which arrives in one piece.  "get/" and "post/"   *)
(* are the request lines whose URL is a lone slash.                        *)
(***************************************************************************)
EXTENDS Integers, Sequences, SequencesExt, FiniteSetsExt

CONSTANTS
  Requests,     \* what clients send, sequences of cells
  Lengths,      \* the Content-length lines and the int that atol makes of each
  BufferSize,   \* READ_BUFFER_SIZE
  MaxInt        \* INT_MAX

CR  == "CR"
LF  == "LF"
NUL == "NUL"

Slash == {"get/", "post/"}
Plain == {CR, LF, NUL, "get", "post", "keep", "other", "byte"} \cup Slash
Cells == Plain \cup DOMAIN Lengths

ASSUME HttpParseAssumption ==
  /\ Lengths \in [DOMAIN Lengths -> (- MaxInt - 1) .. MaxInt] /\ DOMAIN Lengths \cap Plain = {}
  /\ \A r \in Requests : r \in Seq(Cells \ {NUL}) /\ r # <<>>
  /\ MaxInt \in Nat /\ BufferSize \in 1 .. MaxInt

VARIABLES
  pc,                 \* control point in process_read, or what the connection waits for
  sent,               \* the request the client is sending
  wire,               \* the part of it that recv has not returned
  m_read_buf,         \* the bytes below m_read_idx, which is its length
  m_checked_idx, m_start_line,
  m_check_state, m_content_length, m_method, m_linger,
  line_status,
  text,               \* index of the line being parsed, or of the body
  result,             \* HTTP_CODE of the last process_read
  split               \* history: the body has arrived in several pieces

parsed == <<m_check_state, m_content_length, m_method, m_linger>>
place  == <<m_read_buf, m_checked_idx, m_start_line>>
vars   == <<pc, sent, wire, place, parsed, line_status, text, result, split>>

\* Type invariant of the parser's members.
TypeOK ==
  /\ pc \in {"recv", "loop", "parse", "answer", "closed", "faulted"}
  /\ sent \in Seq(Cells) /\ wire \in Seq(Cells) /\ m_read_buf \in Seq(Cells)
  /\ m_checked_idx \in 0 .. Len(m_read_buf)
  /\ m_start_line \in 0 .. m_checked_idx
  /\ m_check_state \in {"REQUESTLINE", "HEADER", "CONTENT"}
  /\ m_content_length \in Int
  /\ m_method \in {"get", "post"}
  /\ m_linger \in BOOLEAN
  /\ line_status \in {"LINE_OK", "LINE_BAD", "LINE_OPEN"}
  /\ text \in 0 .. Len(m_read_buf)
  /\ result \in {"NO_REQUEST", "GET_REQUEST", "BAD_REQUEST"}
  /\ split \in BOOLEAN

\* http_conn::init()
Fresh ==
  /\ m_read_buf = <<>> /\ m_checked_idx = 0 /\ m_start_line = 0
  /\ m_check_state = "REQUESTLINE" /\ m_content_length = 0
  /\ m_method = "get" /\ m_linger = FALSE
  /\ line_status = "LINE_OK" /\ text = 0 /\ result = "NO_REQUEST"
  /\ split = FALSE

Renewed ==
  /\ m_read_buf' = <<>> /\ m_checked_idx' = 0 /\ m_start_line' = 0
  /\ m_check_state' = "REQUESTLINE" /\ m_content_length' = 0
  /\ m_method' = "get" /\ m_linger' = FALSE
  /\ line_status' = "LINE_OK" /\ text' = 0 /\ result' = "NO_REQUEST"
  /\ split' = FALSE

Init ==
  /\ pc = "recv"
  /\ sent \in Requests
  /\ wire = sent
  /\ Fresh

m_read_idx == Len(m_read_buf)
Cell(i)    == m_read_buf[i + 1]

\* Where the body of a request starts: after its first empty line.
BodyStart(r) == Min({i \in 5 .. Len(r) + 1 : SubSeq(r, i - 4, i - 1) = <<CR, LF, CR, LF>>} \cup {Len(r) + 1})
-----------------------------------------------------------------------------
(* read_once, then a worker enters process_read *)

\* recv returns n cells and stops inside the body.
Splits(n) == LET end == Len(sent) - Len(wire) + n IN end >= BodyStart(sent) /\ end < Len(sent)

ReadOnce(n) ==
  /\ pc = "recv"
  /\ m_read_idx < BufferSize
  /\ n \in 1 .. Min({Len(wire), BufferSize - m_read_idx})
  /\ m_read_buf' = m_read_buf \o SubSeq(wire, 1, n)
  /\ wire' = SubSeq(wire, n + 1, Len(wire))
  /\ pc' = "loop"
  /\ line_status' = "LINE_OK"
  /\ split' = (split \/ Splits(n))
  /\ UNCHANGED <<sent, m_checked_idx, m_start_line, parsed, text, result>>

\* The buffer is full of an unfinished request: the event loop closes the connection.
ReadOnceFull ==
  /\ pc = "recv"
  /\ m_read_idx >= BufferSize
  /\ wire # <<>>
  /\ pc' = "closed"
  /\ UNCHANGED <<sent, wire, place, parsed, line_status, text, result, split>>
-----------------------------------------------------------------------------
(* parse_line and the loop of process_read *)

LineEnds == {i \in m_checked_idx .. m_read_idx - 1 : Cell(i) \in {CR, LF}}

Scanned(i, status) ==
  /\ m_checked_idx' = i
  /\ line_status' = status
  /\ UNCHANGED m_read_buf

\* The two cells from i on are overwritten and the scan continues behind them.
LineFound_Short(i) ==     \* Mutation: one increment is missing
  /\ m_read_buf' = [m_read_buf EXCEPT ![i + 1] = NUL, ![i + 2] = NUL]
  /\ m_checked_idx' = i + 1
  /\ line_status' = "LINE_OK"

LineFound_Long(i) ==     \* Mutation: the loop's own increment comes on top
  /\ m_read_buf' = [m_read_buf EXCEPT ![i + 1] = NUL, ![i + 2] = NUL]
  /\ m_checked_idx' = i + 3
  /\ line_status' = "LINE_OK"

LineFound(i) ==
  /\ m_read_buf' = [m_read_buf EXCEPT ![i + 1] = NUL, ![i + 2] = NUL]
  /\ m_checked_idx' = i + 2
  /\ line_status' = "LINE_OK"

ParseLine ==
  IF LineEnds = {} THEN Scanned(m_read_idx, "LINE_OPEN")
  ELSE LET i == Min(LineEnds)
       IN  IF Cell(i) = CR
             THEN IF i + 1 = m_read_idx THEN Scanned(i, "LINE_OPEN")
                  ELSE IF Cell(i + 1) = LF THEN LineFound(i)
                  ELSE Scanned(i, "LINE_BAD")
             ELSE IF i > 1 /\ Cell(i - 1) = CR THEN LineFound(i - 1)
                  ELSE Scanned(i, "LINE_BAD")

\* text = get_line(); m_start_line = m_checked_idx
EnterBody ==
  /\ pc' = "parse"
  /\ text' = m_start_line
  /\ m_start_line' = m_checked_idx'
  /\ UNCHANGED result

Leave(code) ==
  /\ pc' = IF code = "NO_REQUEST" THEN "recv" ELSE "answer"
  /\ result' = code

\* A body is taken up without looking for a line; otherwise a line is needed.
TakeContent ==
  /\ pc = "loop"
  /\ m_check_state = "CONTENT" /\ line_status = "LINE_OK"
  /\ UNCHANGED <<sent, wire, m_read_buf, m_checked_idx, parsed, line_status, split>>
  /\ EnterBody

TakeLine ==
  /\ pc = "loop"
  /\ ~ (m_check_state = "CONTENT" /\ line_status = "LINE_OK")
  /\ ParseLine
  /\ IF line_status' = "LINE_OK" THEN EnterBody
     ELSE Leave("NO_REQUEST") /\ UNCHANGED <<m_start_line, text>>
  /\ UNCHANGED <<sent, wire, parsed, split>>
-----------------------------------------------------------------------------
(* The cases of the switch *)

Continue == pc' = "loop" /\ UNCHANGED result

MethodOf(line) == IF line \in {"get", "get/"} THEN "get" ELSE "post"

\* strcat(m_url, "judge.html") behind a lone slash: the ten letters replace the
\* blank, HTTP/1.1 and the first of the two NULs that end the line.
JudgePage == IF Cell(text) \in Slash THEN [m_read_buf EXCEPT ![text + 2] = "other"] ELSE m_read_buf

ParseRequestLine ==
  /\ pc = "parse" /\ m_check_state = "REQUESTLINE"
  /\ IF Cell(text) \in {"get", "post"} \cup Slash /\ Cell(text + 1) = NUL
       THEN /\ m_method' = MethodOf(Cell(text))
            /\ m_read_buf' = JudgePage
            /\ m_check_state' = "HEADER"
            /\ Continue
       ELSE Leave("BAD_REQUEST") /\ UNCHANGED <<m_method, m_read_buf, m_check_state>>
  /\ UNCHANGED <<sent, wire, m_checked_idx, m_start_line, m_content_length, m_linger, line_status, text, split>>

ParseHeaders ==
  /\ pc = "parse" /\ m_check_state = "HEADER"
  /\ m_linger' = (m_linger \/ Cell(text) = "keep")
  /\ m_content_length' = IF Cell(text) \in DOMAIN Lengths THEN Lengths[Cell(text)] ELSE m_content_length
  /\ IF Cell(text) = NUL /\ m_content_length = 0
       THEN Leave("GET_REQUEST") /\ UNCHANGED m_check_state
       ELSE Continue /\ m_check_state' = IF Cell(text) = NUL THEN "CONTENT" ELSE "HEADER"
  /\ UNCHANGED <<sent, wire, place, m_method, line_status, text, split>>

\* text[m_content_length] = '\0' may fall on a byte that was read, also one in
\* front of text, or on one that was not; far from m_read_buf it may fault.
Terminate ==
  LET k == text + m_content_length
  IN  /\ m_read_buf' = IF k \in 0 .. m_read_idx - 1 THEN [m_read_buf EXCEPT ![k + 1] = NUL] ELSE m_read_buf
      /\ \/ pc' = "answer"
         \/ k \notin 0 .. BufferSize /\ pc' = "faulted"
      /\ result' = "GET_REQUEST"

\* The sum of two ints wraps to a negative number.
Overflows == m_content_length + m_checked_idx > MaxInt

ParseContent_Beyond ==     \* Mutation: > for >=
  /\ pc = "parse" /\ m_check_state = "CONTENT"
  /\ IF m_read_idx > m_content_length + m_checked_idx \/ Overflows
       THEN Terminate /\ UNCHANGED line_status
       ELSE Continue /\ line_status' = "LINE_OPEN" /\ UNCHANGED m_read_buf
  /\ UNCHANGED <<sent, wire, m_checked_idx, m_start_line, parsed, text, split>>

ParseContent ==
  /\ pc = "parse" /\ m_check_state = "CONTENT"
  /\ IF m_read_idx >= m_content_length + m_checked_idx \/ Overflows
       THEN Terminate /\ UNCHANGED line_status
       ELSE Continue /\ line_status' = "LINE_OPEN" /\ UNCHANGED m_read_buf
  /\ UNCHANGED <<sent, wire, m_checked_idx, m_start_line, parsed, text, split>>
-----------------------------------------------------------------------------
\* The response has been sent: the connection is closed, or init() prepares it
\* for the next request, forgetting whatever else is in the buffer.
Answered ==
  /\ pc = "answer"
  /\ IF m_linger
       THEN /\ pc' = "recv"
            /\ sent' \in Requests
            /\ wire' = sent'
            /\ Renewed
       ELSE /\ pc' = "closed"
            /\ UNCHANGED <<sent, wire, place, parsed, line_status, text, result, split>>

Next ==
  \/ \E n \in 1 .. Len(wire) : ReadOnce(n)
  \/ ReadOnceFull \/ TakeContent \/ TakeLine
  \/ ParseRequestLine \/ ParseHeaders \/ ParseContent \/ Answered

Spec == Init /\ [][Next]_vars
-----------------------------------------------------------------------------
(* Properties *)

HasEmptyLine(r) == BodyStart(r) <= Len(r) \/ SubSeq(r, Len(r) - 3, Len(r)) = <<CR, LF, CR, LF>>

HeadLen(r) == BodyStart(r) - 1

LinesOf(r) == {r[i] : i \in 1 .. BodyStart(r) - 1}
BodyOf(r)  == SubSeq(r, BodyStart(r), Len(r))

LengthsOf(r) == {Lengths[c] : c \in LinesOf(r) \cap DOMAIN Lengths}

\* What the head says of the body's length is true.
Honest(r) == LengthsOf(r) = {Len(BodyOf(r))} \/ (LengthsOf(r) = {} /\ BodyOf(r) = <<>>)

\* A request as browsers send it: a method first, lines of one text or none, CR
\* and LF only at their ends, an empty line at the end of the head, and after it as
\* much as the head says, nothing when it says nothing.
WellFormed(r) ==
  LET h == HeadLen(r) IN
  /\ h \in 5 .. Len(r)
  /\ r[1] \in {"get", "post"} \cup Slash
  /\ r[h - 3] = CR /\ r[h - 2] = LF /\ r[h - 1] = CR /\ r[h] = LF
  /\ \A k \in 1 .. h - 1 : r[k] = CR <=> r[k + 1] = LF
  /\ \A k \in 1 .. h - 1 : r[k] \notin {CR, LF} => r[k + 1] = CR
  /\ \A k \in 1 .. h : r[k] \in DOMAIN Lengths => Lengths[r[k]] = Len(r) - h
  /\ h < Len(r) => \E k \in 1 .. h : r[k] \in DOMAIN Lengths

\* A request accepted by the state machine is the one the client sent, however
\* recv cut it: the method, the connection header and the length are its own, all
\* of it is there when its length is true, and text points to as much of the body
\* as was announced.  Not covered is where text points when more was announced
\* than an int can hold, or when a body longer than announced came in pieces.
ParsedAsSent ==
  pc = "answer" /\ result = "GET_REQUEST" =>
    /\ HasEmptyLine(sent)
    /\ m_method = MethodOf(sent[1])
    /\ m_linger = ("keep" \in LinesOf(sent))
    /\ m_content_length \in {0} \cup LengthsOf(sent)
    /\ Honest(sent) => m_content_length = Len(BodyOf(sent)) /\ (wire = <<>> \/ Overflows)
    /\ m_content_length > 0 /\ ~ Overflows /\ (Honest(sent) \/ ~ split) =>
         SubSeq(m_read_buf, text + 1, text + m_content_length) = SubSeq(BodyOf(sent), 1, m_content_length)

\* "Decides whether the request has been read completely" (http_conn.cpp:372):
\* a request that is all in the buffer is not left waiting, except for one with a
\* malformed line, which process_read treats as not yet complete, one that
\* announced more than it brought, and one whose body came in pieces: parse_line
\* has then run over the first of them.
NeverStuck ==
  pc = "recv" /\ wire = <<>> /\ line_status # "LINE_BAD" /\ ~ split
    => m_read_buf = <<>> \/ \E n \in LengthsOf(sent) : n > Len(BodyOf(sent))
=============================================================================
