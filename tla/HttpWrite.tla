----------------------------- MODULE HttpWrite -----------------------------
(***************************************************************************)
(* Sending a response in version_03/http/http_conn.cpp: process_write puts *)
(* the header (and a short error page) into m_write_buf and a file behind  *)
(* it as a second iovec; write hands both to writev, which may take any    *)
(* number of the bytes, and moves the iovecs forward by hand.              *)
(***************************************************************************)
EXTENDS Integers

CONSTANTS
  HeaderLengths,  \* possible values of m_write_idx
  FileLengths     \* possible sizes of a mapped file

ASSUME HttpWriteAssumption ==
  /\ HeaderLengths \subseteq Nat \ {0}
  /\ FileLengths \subseteq Nat \ {0}

VARIABLES
  status,           \* idle, sending (in write's loop), blocked (EPOLLOUT), failed, closed
  m_linger,
  m_write_idx,      \* length of the header
  file,             \* length of the file, 0 if the response has none
  iov0_base, iov0_len,  \* m_iv[0], the base as an offset into m_write_buf
  iov1_base, iov1_len,  \* m_iv[1], the base as an offset into the file
  m_iv_count,
  bytes_to_send, bytes_have_send,
  short,            \* writes of this response that stopped inside m_write_buf
  wire              \* wire[k]: the k-th byte the client got for this response

iovecs == <<iov0_base, iov0_len, iov1_base, iov1_len, m_iv_count>>
counts == <<bytes_to_send, bytes_have_send>>
reply  == <<m_linger, m_write_idx, file>>
vars   == <<status, reply, iovecs, counts, short, wire>>

\* A byte is named by where it is read from.
HeadByte(i) == <<"head", i>>
FileByte(j) == <<"file", j>>

\* The k-th byte of the response.
ResponseByte(k) == IF k <= m_write_idx THEN HeadByte(k - 1) ELSE FileByte(k - 1 - m_write_idx)

\* Type invariant of the members that write keeps.
TypeOK ==
  /\ status \in {"idle", "sending", "blocked", "failed", "closed"}
  /\ m_linger \in BOOLEAN
  /\ m_write_idx \in Nat /\ file \in Nat
  /\ iov0_base \in Int /\ iov0_len \in Nat
  /\ iov1_base \in Int /\ iov1_len \in Nat
  /\ m_iv_count \in {1, 2}
  /\ bytes_to_send \in Int /\ bytes_have_send \in Nat
  /\ short \in Nat
  /\ wire \in [1 .. bytes_have_send -> {"head", "file"} \X Int]

\* http_conn::init()
Init ==
  /\ status = "idle"
  /\ m_linger = FALSE
  /\ m_write_idx = 0 /\ file = 0
  /\ iov0_base = 0 /\ iov0_len = 0
  /\ iov1_base = 0 /\ iov1_len = 0
  /\ m_iv_count = 1
  /\ bytes_to_send = 0 /\ bytes_have_send = 0
  /\ short = 0
  /\ wire = [k \in 1 .. 0 |-> HeadByte(0)]
-----------------------------------------------------------------------------
(* process_write *)

Prepare(linger, header, size) ==
  /\ status = "idle"
  /\ status' = "sending"
  /\ m_linger' = linger
  /\ m_write_idx' = header
  /\ file' = size
  /\ iov0_base' = 0 /\ iov0_len' = header
  /\ bytes_to_send' = header + size
  /\ UNCHANGED <<bytes_have_send, short, wire>>

FileRequest(linger, header, size) ==
  /\ Prepare(linger, header, size)
  /\ iov1_base' = 0 /\ iov1_len' = size
  /\ m_iv_count' = 2

\* Error pages are in m_write_buf and leave m_iv[1] as it was.
ErrorPage(linger, header) ==
  /\ Prepare(linger, header, 0)
  /\ m_iv_count' = 1
  /\ UNCHANGED <<iov1_base, iov1_len>>
-----------------------------------------------------------------------------
(* write *)

\* The bytes offered to writev, and the i-th of them.
Offered == iov0_len + IF m_iv_count = 2 THEN iov1_len ELSE 0

OfferedByte(i) ==
  IF i <= iov0_len THEN HeadByte(iov0_base + i - 1) ELSE FileByte(iov1_base + i - 1 - iov0_len)

\* bytes_have_send >= m_iv[0].iov_len: the iovecs skip to the file.
SkipToFile_FromStart(have, left) ==     \* Mutation: the header is not subtracted
  /\ iov0_len' = 0
  /\ iov1_base' = have
  /\ iov1_len' = left
  /\ UNCHANGED iov0_base

SkipToFile_OldLength(have, left) ==     \* Mutation: the length is not reduced
  /\ iov0_len' = 0
  /\ iov1_base' = have - m_write_idx
  /\ UNCHANGED <<iov0_base, iov1_len>>

SkipToFile(have, left) ==
  /\ iov0_len' = 0
  /\ iov1_base' = have - m_write_idx
  /\ iov1_len' = left
  /\ UNCHANGED iov0_base

StayInHeader(have) ==
  /\ iov0_base' = have
  /\ iov0_len' = iov0_len - have
  /\ UNCHANGED <<iov1_base, iov1_len>>

Advance(have, left) == IF have >= iov0_len THEN SkipToFile(have, left) ELSE StayInHeader(have)

\* unmap, modfd(EPOLLIN), and init() if the connection is kept.
Finish ==
  IF m_linger
    THEN /\ status' = "idle"
         /\ m_linger' = FALSE /\ m_write_idx' = 0 /\ file' = 0
         /\ bytes_to_send' = 0 /\ bytes_have_send' = 0
         /\ short' = 0 /\ wire' = [k \in 1 .. 0 |-> HeadByte(0)]
    ELSE status' = "closed" /\ UNCHANGED <<reply, counts, short, wire>>

\* writev takes n bytes; the rest of the loop's body follows.
Writev(n) ==
  /\ status = "sending" /\ ~ (bytes_to_send <= 0)
  /\ n \in 1 .. Offered \/ (n = 0 /\ Offered = 0)
  /\ LET have == bytes_have_send + n
         left == bytes_to_send - n
     IN  /\ short' = IF n > 0 /\ have < m_write_idx THEN short + 1 ELSE short
         /\ bytes_have_send' = have
         /\ bytes_to_send' = left
         /\ wire' = [k \in 1 .. have |->
                       IF k <= bytes_have_send THEN wire[k] ELSE OfferedByte(k - bytes_have_send)]
         /\ Advance(have, left)
  /\ UNCHANGED <<status, reply, m_iv_count>>

\* The end of the loop's body when nothing is left.
AllSent_Below ==     \* Mutation: < for <=
  /\ status = "sending" /\ bytes_to_send < 0
  /\ Finish
  /\ UNCHANGED iovecs

AllSent ==
  /\ status = "sending" /\ bytes_to_send <= 0
  /\ Finish
  /\ UNCHANGED iovecs

\* EAGAIN: write returns and is called again when epoll reports EPOLLOUT.
WouldBlock ==
  /\ status = "sending" /\ bytes_to_send > 0 /\ Offered > 0
  /\ status' = "blocked"
  /\ UNCHANGED <<reply, iovecs, counts, short, wire>>

Writable ==
  /\ status = "blocked"
  /\ status' = "sending"
  /\ UNCHANGED <<reply, iovecs, counts, short, wire>>

WriteFails ==
  /\ status = "sending" /\ bytes_to_send > 0 /\ Offered > 0
  /\ status' = "failed"
  /\ UNCHANGED <<reply, iovecs, counts, short, wire>>

Next ==
  \/ \E linger \in BOOLEAN, header \in HeaderLengths :
       ErrorPage(linger, header) \/ \E size \in FileLengths : FileRequest(linger, header, size)
  \/ \E n \in 0 .. Offered : Writev(n)
  \/ AllSent \/ WouldBlock \/ Writable \/ WriteFails

Spec == Init /\ [][Next]_vars

\* The client keeps reading: writev is not refused for ever.
FairSpec == Spec /\ WF_vars(AllSent) /\ WF_vars(Writable) /\ SF_vars(\E n \in 0 .. Offered : Writev(n))
-----------------------------------------------------------------------------
(* Properties.  bytes_have_send is compared with an iov_len that an earlier   *)
(* short write has already reduced, so after a second write that stops inside *)
(* m_write_buf the iovecs are wrong: "iov[0] has been sent" (615) is then     *)
(* taken for true too early.  Up to there sending is correct.                 *)

\* However writev cuts the response, at most once inside m_write_buf, the client
\* gets a prefix of it: no byte is skipped, repeated or read from outside the
\* header and the file.
WirePrefix == short <= 1 => \A k \in 1 .. bytes_have_send : wire[k] = ResponseByte(k)

\* What the iovecs still offer is exactly the rest of the response, so that the
\* response is declared sent when the client has all of it, and not before.
OffersRest ==
  short <= 1 /\ status \in {"sending", "blocked"} =>
    /\ Offered = m_write_idx + file - bytes_have_send
    /\ bytes_to_send = Offered

\* A client that keeps reading gets the whole response or an error; write does
\* not spin on an empty iovec.
Completes == status = "sending" ~> status \in {"idle", "closed", "failed"} \/ short > 1
=============================================================================
