--------------------------- MODULE HttpConnProofs ---------------------------
(***************************************************************************)
(* Theorems about two parts of http_conn.cpp that share no state: sending  *)
(* a response (HttpWrite), for headers and files of every length, and      *)
(* registration and login (Accounts), for any number of workers, names and *)
(* passwords.                                                              *)
(***************************************************************************)
EXTENDS HttpWrite, Accounts, TLAPS

(* Part 1: HttpWrite *)

\* The header is not yet sent: m_iv[0] offers its rest, and only a short write
\* can have brought the response here.
InHeader ==
  /\ bytes_have_send < m_write_idx
  /\ iov0_base = bytes_have_send /\ iov0_len = m_write_idx - bytes_have_send
  /\ m_iv_count = 2 => iov1_base = 0 /\ iov1_len = file
  /\ bytes_have_send > 0 => short > 0

\* The header is sent: m_iv[1] offers the rest of the file.
InFile ==
  /\ bytes_have_send >= m_write_idx
  /\ iov0_len = 0
  /\ iov1_base = bytes_have_send - m_write_idx /\ iov1_len = bytes_to_send

\* A response that write is sending.
Sending ==
  /\ m_write_idx > 0
  /\ m_iv_count = 1 => file = 0
  /\ bytes_to_send = m_write_idx + file - bytes_have_send /\ bytes_to_send >= 0
  /\ InHeader \/ InFile

\* The inductive invariant.  Even after several short writes the iovecs never
\* offer more than bytes_to_send, which keeps lengths from underflowing.
IInv ==
  /\ TypeOK
  /\ WirePrefix
  /\ status = "idle" => bytes_have_send = 0 /\ bytes_to_send = 0 /\ short = 0
  /\ status \in {"sending", "blocked"} => Offered <= bytes_to_send /\ (short <= 1 => Sending)

\* "iov[0] has been sent" (http_conn.cpp:615): m_iv[0] is empty only when the
\* whole header has been sent, unless two writes have stopped inside it.
HeaderSentBeforeFile ==
  short <= 1 /\ status \in {"sending", "blocked"} /\ iov0_len = 0 => bytes_have_send >= m_write_idx

\* The iovecs of a response that is being sent offer exactly its rest.
LEMMA SendingOffers ==
  ASSUME TypeOK, Sending
  PROVE  Offered = m_write_idx + file - bytes_have_send /\ bytes_to_send = Offered
BY DEF TypeOK, Sending, InHeader, InFile, Offered

\* The i-th byte offered is the i-th of those not yet sent.
LEMMA SendingByte ==
  ASSUME TypeOK, Sending, NEW i \in 1 .. Offered
  PROVE  /\ OfferedByte(i) = ResponseByte(bytes_have_send + i)
         /\ OfferedByte(i) \in {"head", "file"} \X Int
<1>1. m_write_idx \in Nat /\ file \in Nat /\ bytes_have_send \in Nat /\ i \in Nat \ {0}
  BY SendingOffers DEF TypeOK
<1>2. CASE InHeader
  <2>1. CASE i <= iov0_len
    <3>1. OfferedByte(i) = HeadByte(bytes_have_send + i - 1) /\ bytes_have_send + i <= m_write_idx
      BY <1>1, <1>2, <2>1 DEF InHeader, OfferedByte
    <3> QED
      BY <1>1, <3>1 DEF ResponseByte, HeadByte
  <2>2. CASE ~ (i <= iov0_len)
    <3>1. m_iv_count = 2
      BY <1>1, <1>2, <2>2 DEF TypeOK, InHeader, Offered
    <3>2. OfferedByte(i) = FileByte(bytes_have_send + i - 1 - m_write_idx) /\ ~ (bytes_have_send + i <= m_write_idx)
      BY <1>1, <1>2, <2>2, <3>1 DEF InHeader, OfferedByte
    <3> QED
      BY <1>1, <3>2 DEF ResponseByte, FileByte
  <2> QED
    BY <2>1, <2>2
<1>3. CASE InFile
  <2>1. OfferedByte(i) = FileByte(bytes_have_send + i - 1 - m_write_idx) /\ ~ (bytes_have_send + i <= m_write_idx)
    BY <1>1, <1>3 DEF InFile, OfferedByte
  <2> QED
    BY <1>1, <2>1 DEF ResponseByte, FileByte
<1> QED
  BY <1>2, <1>3 DEF Sending
-----------------------------------------------------------------------------
\* process_write sets up a response.
LEMMA PrepareStep ==
  ASSUME IInv, NEW linger \in BOOLEAN, NEW header \in HeaderLengths,
         ErrorPage(linger, header) \/ \E size \in FileLengths : FileRequest(linger, header, size)
  PROVE  IInv'
<1>1. PICK size \in Nat : /\ Prepare(linger, header, size)
                          /\ \/ m_iv_count' = 2 /\ iov1_base' = 0 /\ iov1_len' = size
                             \/ m_iv_count' = 1 /\ size = 0 /\ UNCHANGED <<iov1_base, iov1_len>>
  BY HttpWriteAssumption DEF ErrorPage, FileRequest
<1>2. header \in Nat /\ header > 0
  BY HttpWriteAssumption
<1>3. bytes_have_send = 0 /\ short = 0
  BY <1>1 DEF IInv, Prepare
<1>4. TypeOK'
  BY <1>1, <1>2 DEF IInv, TypeOK, Prepare
<1>5. WirePrefix'
  BY <1>1, <1>3 DEF Prepare, WirePrefix
<1>6. Sending' /\ status' = "sending"
  BY <1>1, <1>2, <1>3 DEF IInv, TypeOK, Prepare, Sending, InHeader
<1>7. Offered' <= bytes_to_send'
  BY <1>1, <1>2 DEF Prepare, Offered
<1> QED
  BY <1>4, <1>5, <1>6, <1>7 DEF IInv

\* However the iovecs stand, moving them keeps their types.
LEMMA WritevTypes ==
  ASSUME IInv, NEW n \in 0 .. Offered, Writev(n)
  PROVE  TypeOK' /\ Offered' <= bytes_to_send'
<1> DEFINE have == bytes_have_send + n
           left == bytes_to_send - n
<1>1. TypeOK /\ status = "sending" /\ bytes_to_send > 0 /\ Offered <= bytes_to_send
  BY DEF IInv, TypeOK, Writev
<1>2. /\ short' = (IF n > 0 /\ have < m_write_idx THEN short + 1 ELSE short)
      /\ bytes_have_send' = have /\ bytes_to_send' = left
      /\ wire' = [k \in 1 .. have |-> IF k <= bytes_have_send THEN wire[k] ELSE OfferedByte(k - bytes_have_send)]
      /\ Advance(have, left)
      /\ UNCHANGED <<status, m_linger, m_write_idx, file, m_iv_count>>
  BY DEF Writev, reply
<1>3. /\ iov0_len \in Nat /\ iov1_len \in Nat /\ iov0_base \in Int /\ iov1_base \in Int
      /\ Offered \in Nat /\ n \in Nat /\ n <= Offered
      /\ bytes_have_send \in Nat /\ bytes_to_send \in Int /\ m_write_idx \in Nat /\ short \in Nat
      /\ m_iv_count \in {1, 2}
  BY <1>1 DEF TypeOK, Offered
<1>4. have \in Nat /\ have >= n /\ left \in Nat
  BY <1>1, <1>3
<1>5. /\ iov0_base' \in Int /\ iov0_len' \in Nat /\ iov1_base' \in Int /\ iov1_len' \in Nat
      /\ Offered' <= bytes_to_send'
  <2>1. CASE have >= iov0_len
    <3>1. iov0_len' = 0 /\ iov1_base' = have - m_write_idx /\ iov1_len' = left /\ iov0_base' = iov0_base
      BY <1>2, <2>1 DEF Advance, SkipToFile
    <3> QED
      BY <1>2, <1>3, <1>4, <3>1 DEF Offered
  <2>2. CASE ~ (have >= iov0_len)
    <3>1. iov0_base' = have /\ iov0_len' = iov0_len - have /\ iov1_base' = iov1_base /\ iov1_len' = iov1_len
      BY <1>2, <2>2 DEF Advance, StayInHeader
    <3>2. Offered' = Offered - have
      BY <1>2, <1>3, <1>4, <3>1 DEF Offered
    <3> QED
      BY <1>1, <1>2, <1>3, <1>4, <2>2, <3>1, <3>2
  <2> QED
    BY <2>1, <2>2
<1>6. \A i \in Int : OfferedByte(i) \in {"head", "file"} \X Int
  BY <1>3 DEF OfferedByte, HeadByte, FileByte
<1>7. wire' \in [1 .. have -> {"head", "file"} \X Int]
  <2>1. \A k \in 1 .. have : k <= bytes_have_send => k \in 1 .. bytes_have_send
    BY <1>3, <1>4
  <2>2. wire \in [1 .. bytes_have_send -> {"head", "file"} \X Int]
    BY <1>1 DEF TypeOK
  <2>3. \A k \in 1 .. have : k - bytes_have_send \in Int
    BY <1>3, <1>4
  <2> QED
    BY <1>2, <1>6, <2>1, <2>2, <2>3
<1>8. short' \in Nat
  BY <1>2, <1>3
<1> QED
  BY <1>1, <1>2, <1>3, <1>4, <1>5, <1>7, <1>8 DEF TypeOK

\* Until a second write stops inside the header, moving the iovecs keeps them in
\* step with what has been sent.
LEMMA WritevSends ==
  ASSUME IInv, NEW n \in 0 .. Offered, Writev(n), short' <= 1
  PROVE  WirePrefix' /\ Sending'
<1> DEFINE have == bytes_have_send + n
           left == bytes_to_send - n
<1>0. short \in Nat /\ short <= 1
  <2>1. short \in Nat
    BY DEF IInv, TypeOK
  <2>2. short' = short + 1 \/ short' = short
    BY DEF Writev
  <2> QED
    BY <2>1, <2>2
<1>1. TypeOK /\ Sending /\ status = "sending" /\ bytes_to_send > 0
  BY <1>0 DEF IInv, Writev, TypeOK
<1>2. Offered = m_write_idx + file - bytes_have_send /\ bytes_to_send = Offered
  BY <1>1, SendingOffers
<1>3. n \in 1 .. Offered
  BY <1>1, <1>2 DEF Writev
<1>4. /\ short' = (IF n > 0 /\ have < m_write_idx THEN short + 1 ELSE short)
      /\ bytes_have_send' = have /\ bytes_to_send' = left
      /\ wire' = [k \in 1 .. have |-> IF k <= bytes_have_send THEN wire[k] ELSE OfferedByte(k - bytes_have_send)]
      /\ Advance(have, left)
      /\ UNCHANGED <<status, m_linger, m_write_idx, file, m_iv_count>>
  BY DEF Writev, reply
<1>5. /\ m_write_idx \in Nat /\ file \in Nat /\ bytes_have_send \in Nat /\ n \in Nat \ {0}
      /\ iov0_len \in Nat /\ short \in Nat
      /\ have \in Nat /\ left \in Int /\ left >= 0 /\ have <= m_write_idx + file
      /\ left = m_write_idx + file - have
  BY <1>1, <1>2, <1>3 DEF TypeOK
<1>6. \A k \in 1 .. have : ~ (k <= bytes_have_send) => k - bytes_have_send \in 1 .. Offered
  BY <1>2, <1>3, <1>5
<1>7. \A k \in 1 .. have : ~ (k <= bytes_have_send) =>
        OfferedByte(k - bytes_have_send) = ResponseByte(k)
  <2> SUFFICES ASSUME NEW k \in 1 .. have, ~ (k <= bytes_have_send)
               PROVE  OfferedByte(k - bytes_have_send) = ResponseByte(k)
    OBVIOUS
  <2>1. k - bytes_have_send \in 1 .. Offered /\ bytes_have_send + (k - bytes_have_send) = k
    BY <1>5, <1>6
  <2> QED
    BY <1>1, <2>1, SendingByte
<1>9. WirePrefix'
  <2> SUFFICES ASSUME NEW k \in 1 .. have PROVE wire'[k] = ResponseByte(k)
    BY <1>4 DEF WirePrefix, ResponseByte, HeadByte, FileByte
  <2>1. CASE k <= bytes_have_send
    <3>1. k \in 1 .. bytes_have_send
      BY <1>5, <2>1
    <3> QED
      BY <1>0, <1>4, <2>1, <3>1 DEF IInv, WirePrefix
  <2>2. CASE ~ (k <= bytes_have_send)
    BY <1>4, <1>7, <2>2
  <2> QED
    BY <2>1, <2>2
<1>10. Sending'
  <2>1. iov0_base \in Int /\ iov1_base \in Int /\ iov1_len \in Nat /\ m_iv_count \in {1, 2}
    BY <1>1 DEF TypeOK
  <2>2. CASE have >= m_write_idx
    <3>1. iov0_len <= have
      BY <1>1, <1>5, <2>2 DEF Sending, InHeader, InFile
    <3>2. iov0_len' = 0 /\ iov1_base' = have - m_write_idx /\ iov1_len' = left /\ iov0_base' = iov0_base
      BY <1>4, <1>5, <3>1 DEF Advance, SkipToFile
    <3>3. InFile'
      BY <1>4, <2>2, <3>2 DEF InFile
    <3> QED
      BY <1>1, <1>4, <1>5, <2>1, <3>2, <3>3 DEF Sending
  <2>3. CASE ~ (have >= m_write_idx)
    <3>1. InHeader /\ short' = short + 1
      BY <1>1, <1>4, <1>5, <2>3 DEF Sending, InFile
    <3>2. bytes_have_send = 0
      BY <1>4, <1>5, <3>1 DEF InHeader
    <3>3. iov0_len = m_write_idx /\ have = n
      BY <1>5, <3>1, <3>2 DEF InHeader
    <3>4. iov0_base' = have /\ iov0_len' = m_write_idx - have /\ UNCHANGED <<iov1_base, iov1_len>>
      BY <1>4, <1>5, <2>3, <3>3 DEF Advance, StayInHeader
    <3>5. InHeader'
      BY <1>4, <1>5, <2>3, <3>1, <3>4 DEF InHeader
    <3> QED
      BY <1>1, <1>4, <1>5, <2>1, <2>3, <3>4, <3>5 DEF Sending
  <2> QED
    BY <2>2, <2>3
<1> QED
  BY <1>9, <1>10

\* writev takes n bytes and write moves the iovecs.
LEMMA WritevStep ==
  ASSUME IInv, NEW n \in 0 .. Offered, Writev(n)
  PROVE  IInv'
<1>1. status' = "sending"
  BY DEF Writev
<1>2. short' <= 1 => WirePrefix' /\ Sending'
  BY WritevSends
<1>3. WirePrefix'
  BY <1>2 DEF WirePrefix
<1> QED
  BY <1>1, <1>2, <1>3, WritevTypes DEF IInv

\* The other steps: a finished response, EAGAIN, EPOLLOUT, an error.
LEMMA OtherStep ==
  ASSUME IInv, AllSent \/ WouldBlock \/ Writable \/ WriteFails
  PROVE  IInv'
<1>1. CASE AllSent /\ m_linger
  <2>1. /\ status' = "idle" /\ m_linger' = FALSE /\ m_write_idx' = 0 /\ file' = 0
        /\ bytes_to_send' = 0 /\ bytes_have_send' = 0 /\ short' = 0
        /\ wire' = [k \in 1 .. 0 |-> HeadByte(0)]
        /\ UNCHANGED <<iov0_base, iov0_len, iov1_base, iov1_len, m_iv_count>>
    BY <1>1 DEF AllSent, Finish, iovecs
  <2>2. wire' \in [1 .. bytes_have_send' -> {"head", "file"} \X Int]
    BY <2>1
  <2>3. TypeOK'
    <3>1. short' \in Nat
      BY <2>1
    <3>2. /\ iov0_base' \in Int /\ iov0_len' \in Nat /\ iov1_base' \in Int /\ iov1_len' \in Nat
          /\ m_iv_count' \in {1, 2}
      BY <2>1 DEF IInv, TypeOK
    <3>3. m_linger' \in BOOLEAN
      BY <2>1, Zenon
    <3>4. status' = "idle"
      BY <2>1, Zenon
    <3>5. m_write_idx' = 0 /\ file' = 0 /\ bytes_to_send' = 0 /\ bytes_have_send' = 0
      BY <2>1, Zenon
    <3> QED
      BY <2>2, <3>1, <3>2, <3>3, <3>4, <3>5 DEF TypeOK
  <2> QED
    BY <2>1, <2>3 DEF IInv, WirePrefix
<1>2. CASE AllSent /\ ~ m_linger
  <2>1. /\ status' = "closed"
        /\ UNCHANGED <<m_linger, m_write_idx, file, bytes_to_send, bytes_have_send, short, wire,
                       iov0_base, iov0_len, iov1_base, iov1_len, m_iv_count>>
    BY <1>2 DEF AllSent, Finish, iovecs, reply, counts
  <2> QED
    BY <2>1 DEF IInv, TypeOK, WirePrefix, ResponseByte, HeadByte, FileByte
<1>3. CASE WouldBlock \/ Writable \/ WriteFails
  <2>1. /\ status \in {"sending", "blocked"} /\ status' \in {"sending", "blocked", "failed"}
        /\ UNCHANGED <<m_linger, m_write_idx, file, bytes_to_send, bytes_have_send, short, wire,
                       iov0_base, iov0_len, iov1_base, iov1_len, m_iv_count>>
    BY <1>3 DEF WouldBlock, Writable, WriteFails, iovecs, reply, counts
  <2> QED
    BY <2>1 DEF IInv, TypeOK, WirePrefix, ResponseByte, HeadByte, FileByte, Sending, InHeader, InFile, Offered
<1> QED
  BY <1>1, <1>2, <1>3

\* The state http_conn::init() leaves satisfies the inductive invariant.
LEMMA InitIInv == Init => IInv
<1> SUFFICES ASSUME Init PROVE IInv
  OBVIOUS
<1>1. wire \in [1 .. bytes_have_send -> {"head", "file"} \X Int]
  BY DEF Init
<1>2. TypeOK
  <2>1. short \in Nat
    BY DEF Init
  <2>2. m_linger \in BOOLEAN /\ status = "idle" /\ m_iv_count = 1
    BY Zenon DEF Init
  <2>3. /\ m_write_idx = 0 /\ file = 0 /\ bytes_to_send = 0 /\ bytes_have_send = 0
        /\ iov0_base = 0 /\ iov0_len = 0 /\ iov1_base = 0 /\ iov1_len = 0
    BY Zenon DEF Init
  <2> QED
    BY <1>1, <2>1, <2>2, <2>3 DEF TypeOK
<1> QED
  BY <1>2 DEF Init, IInv, WirePrefix

\* Every step of process_write and write preserves it.
LEMMA Invariance == Spec => []IInv
<1>1. IInv /\ [Next]_vars => IInv'
  <2> SUFFICES ASSUME IInv, [Next]_vars PROVE IInv'
    OBVIOUS
  <2>1. CASE Next
    BY <2>1, PrepareStep, WritevStep, OtherStep DEF Next
  <2>2. CASE UNCHANGED vars
    BY <2>2 DEF IInv, TypeOK, WirePrefix, ResponseByte, HeadByte, FileByte, Sending, InHeader, InFile, Offered,
                vars, reply, iovecs, counts
  <2> QED
    BY <2>1, <2>2
<1> QED
  BY <1>1, InitIInv, PTL DEF Spec

\* Lengths, counts and iovecs keep their types: no length underflows.
THEOREM TypeCorrect == Spec => []TypeOK
<1>1. IInv => TypeOK
  BY DEF IInv
<1> QED
  BY <1>1, Invariance, PTL

\* The client gets a prefix of header and file, for all lengths and all cuts,
\* until a second write of the response stops inside m_write_buf.
THEOREM WireIsPrefix == Spec => []WirePrefix
<1>1. IInv => WirePrefix
  BY DEF IInv
<1> QED
  BY <1>1, Invariance, PTL

\* Up to the same moment the iovecs always offer exactly what is left, so that
\* the response is declared sent when the client has all of it.
THEOREM OfferedIsRest == Spec => []OffersRest
<1>1. IInv => OffersRest
  BY SendingOffers DEF IInv, OffersRest
<1> QED
  BY <1>1, Invariance, PTL

\* The claim of http_conn.cpp:615 holds up to that moment: m_iv[0] is emptied only when the whole header has been sent.
THEOREM HeaderBeforeFile == Spec => []HeaderSentBeforeFile
<1>1. IInv => HeaderSentBeforeFile
  BY DEF IInv, HeaderSentBeforeFile, TypeOK, Sending, InHeader, InFile
<1> QED
  BY <1>1, Invariance, PTL
-----------------------------------------------------------------------------
(* Part 2: Accounts *)

AccountsType ==
  /\ users \in [Names -> Passwords \cup {None}]
  /\ table \subseteq Names \X Passwords
  /\ m_lock \in Threads \cup {None}
  /\ pc \in [Threads -> {"idle", "login", "match", "creating", "register", "lock", "query", "insert",
                         "inserting", "unlock", "answer"}]
  /\ name \in [Threads -> Names \cup {None}]
  /\ password \in [Threads -> Passwords \cup {None}]
  /\ res \in [Threads -> BOOLEAN]
  /\ page \in [Threads -> {None, "log", "registerError", "welcome", "logError"}]
  /\ spoilt \subseteq Names

\* m_lock is held from the INSERT to the end of users.insert.
LockHeld == \A t \in Threads : pc[t] \in {"query", "insert", "inserting", "unlock"} <=> m_lock = t

\* A form stays as submitted until it is answered, and has no answer before.
FormKept == \A t \in Threads : /\ pc[t] # "idle" => name[t] \in Names /\ password[t] \in Passwords
                               /\ page[t] # None => pc[t] = "answer"

Inserting(t) == pc[t] \in {"insert", "inserting"}

\* Map and table have the same account under a name, or none.
Same(n) == \A p \in Passwords : <<n, p>> \in table <=> users[n] = p

\* Between the two writes the table is one row ahead of the map, or, when the
\* key refused the row, the map has the name already and will keep its entry.
Between ==
  \A t \in Threads : Inserting(t) /\ name[t] \notin spoilt =>
    /\ res[t] => users[name[t]] = None /\ \A p \in Passwords : <<name[t], p>> \in table <=> p = password[t]
    /\ ~ res[t] => users[name[t]] # None /\ Same(name[t])

\* A name that nobody is inserting is the same in the map and in the table.
Agree == \A n \in Names \ spoilt : (\A t \in Threads : Inserting(t) => name[t] # n) => Same(n)

\* Whoever is told that the name is his has his entry in the map.
Grant(t) == (pc[t] = "unlock" /\ res[t]) \/ page[t] = "log"

Granted == \A t \in Threads : Grant(t) /\ name[t] \notin spoilt => users[name[t]] = password[t]

\* The row is written before the entry: every entry of the map has its row, and
\* so will the entry that is about to be made.
Written ==
  /\ \A n \in Names \ spoilt, p \in Passwords : users[n] = p => <<n, p>> \in table
  /\ \A t \in Threads : Inserting(t) /\ name[t] \notin spoilt =>
       users[name[t]] # None \/ <<name[t], password[t]>> \in table

\* The inductive invariant of Accounts.
AInv ==
  /\ AccountsType /\ LockHeld /\ FormKept
  /\ Written /\ NoFalseLogin
  /\ UniqueKey => Between /\ Agree /\ Granted

\* The types, the lock and the forms.
LEMMA AccountsTypeStep ==
  ASSUME AccountsType, LockHeld, FormKept, [AccountsNext]_accountVars
  PROVE  AccountsType' /\ LockHeld' /\ FormKept'
<1>0. None \notin Threads /\ None \notin {"log", "registerError", "welcome", "logError"} /\ Empty \in Passwords
  BY AccountsAssumption
<1>1. ASSUME NEW t \in Threads, NEW n \in Names, NEW p \in Passwords, NEW kind \in {"login", "register"},
             Submit(t, n, p, kind)
      PROVE  AccountsType' /\ LockHeld' /\ FormKept'
  <2>3. AccountsType'
    BY <1>1 DEF AccountsType, Submit, Goto
  <2>4. LockHeld'
    BY <1>1 DEF AccountsType, LockHeld, Submit, Goto
  <2>5. FormKept'
    BY <1>1 DEF AccountsType, FormKept, Submit, Goto
  <2> QED
    BY <2>3, <2>4, <2>5
<1>2. ASSUME NEW t \in Threads, LoginFind(t)
      PROVE  AccountsType' /\ LockHeld' /\ FormKept'
  <2>3. AccountsType'
    BY <1>2 DEF AccountsType, LoginFind, Answer, Goto, form
  <2>4. LockHeld'
    BY <1>2 DEF AccountsType, LockHeld, LoginFind, Answer, Goto
  <2>5. FormKept'
    BY <1>2 DEF AccountsType, FormKept, LoginFind, Answer, Goto, form
  <2> QED
    BY <2>3, <2>4, <2>5
<1>10. ASSUME NEW t \in Threads, LoginMatch(t)
      PROVE  AccountsType' /\ LockHeld' /\ FormKept'
  <2>3. AccountsType'
    BY <1>10 DEF AccountsType, LoginMatch, Answer, Goto, form
  <2>4. LockHeld'
    BY <1>10 DEF AccountsType, LockHeld, LoginMatch, Answer, Goto
  <2>5. FormKept'
    BY <1>10 DEF AccountsType, FormKept, LoginMatch, Answer, Goto, form
  <2> QED
    BY <2>3, <2>4, <2>5
<1>11. ASSUME NEW t \in Threads, BeginCreate(t)
      PROVE  AccountsType' /\ LockHeld' /\ FormKept'
  <2>3. AccountsType'
    BY <1>11 DEF AccountsType, BeginCreate, Goto, form
  <2>4. LockHeld'
    BY <1>11 DEF AccountsType, LockHeld, BeginCreate, Goto
  <2>5. FormKept'
    BY <1>11 DEF AccountsType, FormKept, BeginCreate, Goto, form
  <2> QED
    BY <2>3, <2>4, <2>5
<1>12. ASSUME NEW t \in Threads, EndCreate(t)
      PROVE  AccountsType' /\ LockHeld' /\ FormKept'
  <2>1. name[t] \in Names /\ password[t] \in Passwords
    BY <1>12 DEF FormKept, EndCreate
  <2>2. users' \in [Names -> Passwords \cup {None}] /\ spoilt' \subseteq Names
    BY <1>0, <1>12, <2>1 DEF AccountsType, EndCreate
  <2>3. AccountsType'
    BY <1>12, <2>2 DEF AccountsType, EndCreate, Answer, Goto, form
  <2>4. LockHeld'
    BY <1>12 DEF AccountsType, LockHeld, EndCreate, Answer, Goto
  <2>5. FormKept'
    BY <1>12 DEF AccountsType, FormKept, EndCreate, Answer, Goto, form
  <2> QED
    BY <2>3, <2>4, <2>5
<1>3. ASSUME NEW t \in Threads, CheckName(t)
      PROVE  AccountsType' /\ LockHeld' /\ FormKept'
  <2>3. AccountsType'
    BY <1>3 DEF AccountsType, CheckName, Answer, Goto, form
  <2>4. LockHeld'
    BY <1>3 DEF AccountsType, LockHeld, CheckName, Answer, Goto
  <2>5. FormKept'
    BY <1>3 DEF AccountsType, FormKept, CheckName, Answer, Goto, form
  <2> QED
    BY <2>3, <2>4, <2>5
<1>4. ASSUME NEW t \in Threads, Lock(t)
      PROVE  AccountsType' /\ LockHeld' /\ FormKept'
  <2>3. AccountsType'
    BY <1>4 DEF AccountsType, Lock, Goto, form
  <2>4. LockHeld'
    BY <1>0, <1>4 DEF AccountsType, LockHeld, Lock, Goto
  <2>5. FormKept'
    BY <1>4 DEF AccountsType, FormKept, Lock, Goto, form
  <2> QED
    BY <2>3, <2>4, <2>5
<1>5. ASSUME NEW t \in Threads, Query(t)
      PROVE  AccountsType' /\ LockHeld' /\ FormKept'
  <2>1. name[t] \in Names /\ password[t] \in Passwords
    BY <1>5 DEF FormKept, Query
  <2>2. table' \subseteq Names \X Passwords /\ spoilt' \subseteq Names
    BY <1>5, <2>1 DEF AccountsType, Query
  <2>3. AccountsType'
    BY <1>5, <2>2 DEF AccountsType, Query, Goto, form
  <2>4. LockHeld'
    BY <1>5 DEF AccountsType, LockHeld, Query, Goto
  <2>5. FormKept'
    BY <1>5 DEF AccountsType, FormKept, Query, Goto, form
  <2> QED
    BY <2>3, <2>4, <2>5
<1>6. ASSUME NEW t \in Threads, BeginInsert(t)
      PROVE  AccountsType' /\ LockHeld' /\ FormKept'
  <2>3. AccountsType'
    BY <1>6 DEF AccountsType, BeginInsert, Goto, form
  <2>4. LockHeld'
    BY <1>6 DEF AccountsType, LockHeld, BeginInsert, Goto
  <2>5. FormKept'
    BY <1>6 DEF AccountsType, FormKept, BeginInsert, Goto, form
  <2> QED
    BY <2>3, <2>4, <2>5
<1>13. ASSUME NEW t \in Threads, EndInsert(t)
      PROVE  AccountsType' /\ LockHeld' /\ FormKept'
  <2>1. name[t] \in Names /\ password[t] \in Passwords
    BY <1>13 DEF FormKept, EndInsert
  <2>2. users' \in [Names -> Passwords \cup {None}] /\ spoilt' \subseteq Names
    BY <1>0, <1>13, <2>1 DEF AccountsType, EndInsert
  <2>3. AccountsType'
    BY <1>13, <2>2 DEF AccountsType, EndInsert, Goto, form
  <2>4. LockHeld'
    BY <1>13 DEF AccountsType, LockHeld, EndInsert, Goto
  <2>5. FormKept'
    BY <1>13 DEF AccountsType, FormKept, EndInsert, Goto, form
  <2> QED
    BY <2>3, <2>4, <2>5
<1>7. ASSUME NEW t \in Threads, Unlock(t)
      PROVE  AccountsType' /\ LockHeld' /\ FormKept'
  <2>3. AccountsType'
    BY <1>7 DEF AccountsType, Unlock, Answer, Goto, Outcome, form
  <2>4. LockHeld'
    BY <1>0, <1>7 DEF AccountsType, LockHeld, Unlock, Answer, Goto, Outcome
  <2>5. FormKept'
    BY <1>7 DEF AccountsType, FormKept, Unlock, Answer, Goto, Outcome, form
  <2> QED
    BY <2>3, <2>4, <2>5
<1>8. ASSUME NEW t \in Threads, Done(t)
      PROVE  AccountsType' /\ LockHeld' /\ FormKept'
  <2>3. AccountsType'
    BY <1>8 DEF AccountsType, Done, Goto
  <2>4. LockHeld'
    BY <1>8 DEF AccountsType, LockHeld, Done, Goto
  <2>5. FormKept'
    BY <1>8 DEF AccountsType, FormKept, Done, Goto
  <2> QED
    BY <2>3, <2>4, <2>5
<1>9. CASE UNCHANGED accountVars
  BY <1>9 DEF accountVars, form, AccountsType, LockHeld, FormKept
<1> QED
  BY <1>1, <1>2, <1>3, <1>4, <1>5, <1>6, <1>7, <1>8, <1>9, <1>10, <1>11, <1>12, <1>13
     DEF AccountsNext, Login, Register

\* The steps that write neither the table nor the map, and leave every worker
\* inside or outside of the two writes with what it has there.
Quiet ==
  /\ UNCHANGED <<table, users, spoilt>>
  /\ \A u \in Threads : /\ (Inserting(u)' <=> Inserting(u))
                        /\ Inserting(u) => UNCHANGED <<name[u], password[u], res[u]>>

LEMMA QuietSteps ==
  ASSUME AccountsType, NEW t \in Threads,
         \/ \E n \in Names, p \in Passwords, kind \in {"login", "register"} : Submit(t, n, p, kind)
         \/ LoginFind(t) \/ LoginMatch(t) \/ BeginCreate(t) \/ CheckName(t) \/ Lock(t) \/ BeginInsert(t)
         \/ Unlock(t) \/ Done(t)
  PROVE  Quiet
<1>1. CASE \E n \in Names, p \in Passwords, kind \in {"login", "register"} : Submit(t, n, p, kind)
  BY <1>1 DEF Quiet, AccountsType, Inserting, Submit, Goto
<1>2. CASE LoginFind(t) \/ LoginMatch(t)
  BY <1>2 DEF Quiet, AccountsType, Inserting, LoginFind, LoginMatch, Answer, Goto, form
<1>3. CASE CheckName(t)
  BY <1>3 DEF Quiet, AccountsType, Inserting, CheckName, Answer, Goto, form
<1>4. CASE Lock(t)
  BY <1>4 DEF Quiet, AccountsType, Inserting, Lock, Goto, form
<1>5. CASE BeginInsert(t) \/ BeginCreate(t)
  BY <1>5 DEF Quiet, AccountsType, Inserting, BeginInsert, BeginCreate, Goto, form
<1>6. CASE Unlock(t)
  BY <1>6 DEF Quiet, AccountsType, Inserting, Unlock, Answer, Goto, form
<1>7. CASE Done(t)
  <2>1. ~ Inserting(t) /\ ~ Inserting(t)'
    BY <1>7 DEF AccountsType, Inserting, Done, Goto
  <2>2. ASSUME NEW u \in Threads, u # t
        PROVE  (Inserting(u)' <=> Inserting(u)) /\ UNCHANGED <<name[u], password[u], res[u]>>
    BY <1>7, <2>2 DEF AccountsType, Inserting, Done, Goto
  <2> QED
    BY <1>7, <2>1, <2>2 DEF Quiet, Done
<1> QED
  BY <1>1, <1>2, <1>3, <1>4, <1>5, <1>6, <1>7

LEMMA QuietKeeps ==
  ASSUME Quiet
  PROVE  (Written => Written') /\ (Between => Between') /\ (Agree => Agree')
<1>1. \A n : Same(n)' <=> Same(n)
  BY DEF Quiet, Same
<1>2. Written => Written'
  BY DEF Quiet, Written
<1>3. Between => Between'
  BY <1>1 DEF Quiet, Between
<1>4. Agree => Agree'
  BY <1>1 DEF Quiet, Agree
<1> QED
  BY <1>2, <1>3, <1>4

\* The steps that write change nothing but the name that is being processed, and
\* only the holder of m_lock inserts.
LEMMA WritingSteps ==
  ASSUME AccountsType, LockHeld, FormKept, NEW t \in Threads, Query(t) \/ EndInsert(t) \/ EndCreate(t)
  PROVE  /\ name' = name /\ password' = password /\ name[t] \in Names /\ password[t] \in Passwords
         /\ \A n \in Names : n # name[t] =>
              users'[n] = users[n] /\ \A p \in Passwords : <<n, p>> \in table' <=> <<n, p>> \in table
         /\ spoilt \subseteq spoilt' /\ spoilt' \subseteq spoilt \cup {name[t]} /\ table \subseteq table'
         /\ \A u \in Threads : u # t => pc'[u] = pc[u] /\ res'[u] = res[u] /\ page'[u] = page[u]
         /\ \A u \in Threads : u # t => (Inserting(u)' <=> Inserting(u))
         /\ Query(t) \/ EndInsert(t) => \A u \in Threads : u # t => ~ Inserting(u)
<1>1. name' = name /\ password' = password /\ name[t] \in Names /\ password[t] \in Passwords
  BY DEF FormKept, Query, EndInsert, EndCreate, form
<1>2. \A n \in Names : n # name[t] =>
        users'[n] = users[n] /\ \A p \in Passwords : <<n, p>> \in table' <=> <<n, p>> \in table
  <2>1. CASE Query(t)
    BY <2>1 DEF Query
  <2>2. CASE EndInsert(t)
    BY <2>2 DEF EndInsert, AccountsType
  <2>3. CASE EndCreate(t)
    BY <2>3 DEF EndCreate, AccountsType
  <2> QED
    BY <2>1, <2>2, <2>3
<1>3. spoilt \subseteq spoilt' /\ spoilt' \subseteq spoilt \cup {name[t]} /\ table \subseteq table'
  BY DEF Query, EndInsert, EndCreate
<1>4. \A u \in Threads : u # t => pc'[u] = pc[u] /\ res'[u] = res[u] /\ page'[u] = page[u]
  BY DEF Query, EndInsert, EndCreate, AccountsType, Goto, Answer
<1>5. \A u \in Threads : u # t => (Inserting(u)' <=> Inserting(u))
  BY <1>4 DEF Inserting
<1>6. Query(t) \/ EndInsert(t) => \A u \in Threads : u # t => ~ Inserting(u)
  BY DEF LockHeld, Query, EndInsert, Inserting
<1> QED
  BY <1>1, <1>2, <1>3, <1>4, <1>5, <1>6

\* Whoever is let in has found his entry, whose row was written before, or the
\* name is spoilt by the step itself.
LEMMA WelcomeStep ==
  ASSUME AccountsType, LockHeld, FormKept, Written, NoFalseLogin, [AccountsNext]_accountVars
  PROVE  NoFalseLogin'
<1>0. None \notin Passwords /\ None \notin {"log", "registerError", "welcome", "logError"}
  BY AccountsAssumption
<1>1. ASSUME NEW t \in Threads, NEW n \in Names, NEW p \in Passwords, NEW kind \in {"login", "register"},
             Submit(t, n, p, kind)
      PROVE  NoFalseLogin'
  <2>1. page[t] = None
    BY <1>1 DEF FormKept, Submit
  <2> QED
    BY <1>0, <1>1, <2>1 DEF NoFalseLogin, AccountsType, Submit
<1>2. ASSUME NEW t \in Threads, LoginMatch(t) PROVE NoFalseLogin'
  <2>1. name[t] \in Names /\ password[t] \in Passwords
    BY <1>2 DEF FormKept, LoginMatch
  <2>2. users[name[t]] = password[t] /\ name[t] \notin spoilt => <<name[t], password[t]>> \in table
    BY <2>1 DEF Written
  <2>3. page'[t] = "welcome" => users[name[t]] = password[t]
    BY <1>2 DEF AccountsType, LoginMatch, Answer
  <2>4. \A u \in Threads : u # t => page'[u] = page[u]
    BY <1>2 DEF AccountsType, LoginMatch, Answer
  <2>5. table' = table /\ name' = name /\ password' = password /\ spoilt' = spoilt
    BY <1>2 DEF LoginMatch, form
  <2> QED
    BY <2>2, <2>3, <2>4, <2>5 DEF NoFalseLogin
<1>3. ASSUME NEW t \in Threads, CheckName(t) \/ LoginFind(t) PROVE NoFalseLogin'
  BY <1>3 DEF NoFalseLogin, AccountsType, CheckName, LoginFind, Answer, form
<1>4. ASSUME NEW t \in Threads, Lock(t) \/ BeginInsert(t) \/ BeginCreate(t) PROVE NoFalseLogin'
  BY <1>4 DEF NoFalseLogin, Lock, BeginInsert, BeginCreate, form
<1>5. ASSUME NEW t \in Threads, Query(t) \/ EndInsert(t) PROVE NoFalseLogin'
  <2>1. name' = name /\ password' = password /\ spoilt \subseteq spoilt' /\ table \subseteq table' /\ page' = page
    BY <1>5 DEF Query, EndInsert, form
  <2> QED
    BY <2>1 DEF NoFalseLogin
<1>6. ASSUME NEW t \in Threads, EndCreate(t) PROVE NoFalseLogin'
  <2>1. /\ name' = name /\ password' = password /\ table' = table
        /\ spoilt' = spoilt \cup {name[t]} /\ \A u \in Threads : u # t => page'[u] = page[u]
    BY <1>6 DEF EndCreate, AccountsType, Answer, form
  <2> QED
    BY <2>1 DEF NoFalseLogin
<1>7. ASSUME NEW t \in Threads, Unlock(t) PROVE NoFalseLogin'
  BY <1>7 DEF NoFalseLogin, AccountsType, Unlock, Answer, Outcome, form
<1>8. ASSUME NEW t \in Threads, Done(t) PROVE NoFalseLogin'
  BY <1>0, <1>8 DEF NoFalseLogin, AccountsType, Done
<1>9. CASE UNCHANGED accountVars
  BY <1>9 DEF accountVars, form, NoFalseLogin
<1> QED
  BY <1>1, <1>2, <1>3, <1>4, <1>5, <1>6, <1>7, <1>8, <1>9 DEF AccountsNext, Login, Register

\* The row is there before the entry.
LEMMA WrittenStep ==
  ASSUME AccountsType, LockHeld, FormKept, Written, UniqueKey => Agree, [AccountsNext]_accountVars
  PROVE  Written'
<1>0. None \notin Passwords
  BY AccountsAssumption
<1>1. ASSUME NEW t \in Threads, Query(t) PROVE Written'
  <2>1. /\ users' = users /\ name' = name /\ password' = password /\ table \subseteq table'
        /\ spoilt \subseteq spoilt' /\ name[t] \in Names /\ \A u \in Threads : u # t => ~ Inserting(u)'
    BY <1>1, WritingSteps DEF Query
  <2>2. ~ Inserting(t)
    BY <1>1 DEF Query, Inserting
  <2>3. name[t] \notin spoilt' => users[name[t]] # None \/ <<name[t], password[t]>> \in table'
    <3>1. CASE Taken(name[t]) /\ name[t] \notin spoilt
      <4>1. Same(name[t])
        BY <2>1, <2>2, <3>1, <1>1, WritingSteps DEF Agree, Taken
      <4> QED
        BY <1>0, <3>1, <4>1 DEF Taken, Same
    <3>2. CASE ~ Taken(name[t])
      BY <1>1, <3>2 DEF Query
    <3> QED
      BY <2>1, <3>1, <3>2
  <2> QED
    BY <2>1, <2>3 DEF Written
<1>2. ASSUME NEW t \in Threads, EndInsert(t) PROVE Written'
  <2>1. /\ name' = name /\ table' = table /\ spoilt \subseteq spoilt' /\ name[t] \in Names
        /\ password[t] \in Passwords
        /\ \A n \in Names : n # name[t] => users'[n] = users[n]
        /\ \A u \in Threads : u # t => ~ Inserting(u)'
    BY <1>2, WritingSteps DEF EndInsert
  <2>2. ~ Inserting(t)'
    BY <1>2 DEF AccountsType, EndInsert, Goto, Inserting
  <2>3. ASSUME name[t] \notin spoilt' PROVE \A p \in Passwords : users'[name[t]] = p => <<name[t], p>> \in table
    <3>1. name[t] \notin spoilt /\ Inserting(t)
      BY <1>2, <2>1, <2>3 DEF EndInsert, Inserting
    <3>2. users' = IF users[name[t]] = None THEN [users EXCEPT ![name[t]] = password[t]] ELSE users
      BY <1>2, <2>3 DEF EndInsert
    <3>3. CASE users[name[t]] = None
      <4>1. users'[name[t]] = password[t]
        BY <2>1, <3>2, <3>3 DEF AccountsType
      <4> QED
        BY <3>1, <3>3, <4>1 DEF Written
    <3>4. CASE users[name[t]] # None
      BY <2>1, <3>1, <3>2, <3>4 DEF Written
    <3> QED
      BY <3>3, <3>4
  <2>4. \A n \in Names \ spoilt', p \in Passwords : users'[n] = p => <<n, p>> \in table
    BY <2>1, <2>3 DEF Written
  <2> QED
    BY <2>1, <2>2, <2>4 DEF Written
<1>3. ASSUME NEW t \in Threads, EndCreate(t) PROVE Written'
  <2>1. /\ name' = name /\ password' = password /\ table' = table /\ spoilt' = spoilt \cup {name[t]}
        /\ \A n \in Names : n # name[t] => users'[n] = users[n]
        /\ \A u \in Threads : u # t => (Inserting(u)' <=> Inserting(u))
    BY <1>3, WritingSteps DEF EndCreate
  <2>2. ~ Inserting(t)'
    BY <1>3 DEF AccountsType, EndCreate, Answer, Goto, Inserting
  <2>3. \A u \in Threads : Inserting(u) => name[u] \in Names
    BY DEF FormKept, Inserting
  <2> QED
    BY <2>1, <2>2, <2>3 DEF Written
<1>4. CASE UNCHANGED accountVars
  BY <1>4 DEF accountVars, form, Written, Inserting
<1> QED
  BY <1>1, <1>2, <1>3, <1>4, QuietSteps, QuietKeeps DEF AccountsNext, Login, Register

\* With the key, table and map move together.
LEMMA AgreeStep ==
  ASSUME AccountsType, LockHeld, FormKept, UniqueKey, Between, Agree, [AccountsNext]_accountVars
  PROVE  Between' /\ Agree'
<1>0. None \notin Passwords
  BY AccountsAssumption
<1>elsewhere. ASSUME NEW t \in Threads, Query(t) \/ EndInsert(t) \/ EndCreate(t), NEW n \in Names, n # name[t]
              PROVE  (Same(n)' <=> Same(n)) /\ users'[n] = users[n]
                     /\ \A p \in Passwords : <<n, p>> \in table' <=> <<n, p>> \in table
  <2>1. users'[n] = users[n] /\ \A p \in Passwords : <<n, p>> \in table' <=> <<n, p>> \in table
    BY <1>elsewhere, WritingSteps
  <2> QED
    BY <2>1 DEF Same
<1>1. ASSUME NEW t \in Threads, Query(t) PROVE Between' /\ Agree'
  <2>1. /\ users' = users /\ name' = name /\ password' = password
        /\ spoilt \subseteq spoilt' /\ name[t] \in Names /\ password[t] \in Passwords
        /\ \A u \in Threads : u # t => ~ Inserting(u) /\ ~ Inserting(u)'
    BY <1>1, WritingSteps DEF Query
  <2>2. ~ Inserting(t) /\ Inserting(t)'
    BY <1>1 DEF AccountsType, Query, Goto, Inserting
  <2>3. name[t] \notin spoilt => Same(name[t])
    BY <2>1, <2>2 DEF Agree
  <2>4. ASSUME name[t] \notin spoilt'
        PROVE  /\ res'[t] => /\ users[name[t]] = None
                             /\ \A p \in Passwords : <<name[t], p>> \in table' <=> p = password[t]
               /\ ~ res'[t] => users[name[t]] # None /\ Same(name[t])'
    <3>1. Same(name[t]) /\ name[t] \notin spoilt
      BY <2>1, <2>3, <2>4
    <3>2. CASE Taken(name[t])
      <4>1. res'[t] = FALSE /\ table' = table
        BY <1>1, <3>2 DEF Query, AccountsType
      <4>2. users[name[t]] # None
        BY <1>0, <3>1, <3>2 DEF Taken, Same
      <4> QED
        BY <2>1, <3>1, <4>1, <4>2 DEF Same
    <3>3. CASE ~ Taken(name[t])
      <4>1. res'[t] = TRUE /\ table' = table \cup {<<name[t], password[t]>>}
        BY <1>1, <2>4, <3>3 DEF Query, AccountsType
      <4>2. \A p \in Passwords : <<name[t], p>> \notin table
        BY <3>3 DEF Taken
      <4>3. users[name[t]] = None
        BY <2>1, <3>1, <4>2 DEF Same, AccountsType
      <4> QED
        BY <4>1, <4>2, <4>3
    <3> QED
      BY <3>2, <3>3
  <2>5. Between'
    BY <2>1, <2>4 DEF Between
  <2>6. ASSUME NEW n \in Names \ spoilt', \A u \in Threads : Inserting(u)' => name'[u] # n PROVE Same(n)'
    <3>1. n # name[t] /\ n \notin spoilt
      BY <2>1, <2>2, <2>6
    <3>2. Same(n)
      BY <2>1, <2>2, <3>1 DEF Agree
    <3> QED
      BY <1>1, <1>elsewhere, <3>1, <3>2
  <2> QED
    BY <2>5, <2>6 DEF Agree
<1>2. ASSUME NEW t \in Threads, EndInsert(t) PROVE Between' /\ Agree'
  <2>1. /\ name' = name /\ password' = password /\ res' = res /\ table' = table
        /\ spoilt \subseteq spoilt' /\ name[t] \in Names /\ password[t] \in Passwords /\ Inserting(t)
        /\ \A u \in Threads : u # t => ~ Inserting(u) /\ ~ Inserting(u)'
    BY <1>2, WritingSteps DEF EndInsert, Inserting
  <2>2. ~ Inserting(t)'
    BY <1>2 DEF AccountsType, EndInsert, Goto, Inserting
  <2>3. Between'
    BY <2>1, <2>2 DEF Between
  <2>4. ASSUME name[t] \notin spoilt' PROVE Same(name[t])'
    <3>1. name[t] \notin spoilt
      BY <2>1, <2>4
    <3>2. users' = IF users[name[t]] = None THEN [users EXCEPT ![name[t]] = password[t]] ELSE users
      BY <1>2, <2>4 DEF EndInsert
    <3>3. CASE res[t]
      <4>1. users[name[t]] = None /\ \A p \in Passwords : <<name[t], p>> \in table <=> p = password[t]
        BY <2>1, <3>1, <3>3 DEF Between
      <4>2. users'[name[t]] = password[t]
        BY <2>1, <3>2, <4>1 DEF AccountsType
      <4> QED
        BY <2>1, <4>1, <4>2 DEF Same
    <3>4. CASE ~ res[t]
      <4>1. users[name[t]] # None /\ Same(name[t])
        BY <2>1, <3>1, <3>4 DEF Between
      <4> QED
        BY <2>1, <3>2, <4>1 DEF Same
    <3> QED
      BY <3>3, <3>4
  <2>5. ASSUME NEW n \in Names \ spoilt' PROVE Same(n)'
    <3>1. CASE n # name[t]
      <4>1. Same(n)
        BY <2>1, <3>1 DEF Agree
      <4> QED
        BY <1>2, <1>elsewhere, <3>1, <4>1
    <3>2. CASE n = name[t]
      BY <2>1, <2>4, <2>5, <3>2 DEF Same
    <3> QED
      BY <3>1, <3>2
  <2> QED
    BY <2>3, <2>5 DEF Agree
<1>3. ASSUME NEW t \in Threads, EndCreate(t) PROVE Between' /\ Agree'
  <2>1. /\ name' = name /\ password' = password /\ res' = res /\ spoilt' = spoilt \cup {name[t]}
        /\ \A u \in Threads : u # t => (Inserting(u)' <=> Inserting(u))
    BY <1>3, WritingSteps DEF EndCreate
  <2>2. ~ Inserting(t) /\ ~ Inserting(t)'
    BY <1>3 DEF AccountsType, EndCreate, Answer, Goto, Inserting
  <2>3. ASSUME NEW u \in Threads, Inserting(u)', name'[u] \notin spoilt'
        PROVE  /\ res'[u] => /\ users'[name'[u]] = None
                             /\ \A p \in Passwords : <<name'[u], p>> \in table' <=> p = password'[u]
               /\ ~ res'[u] => users'[name'[u]] # None /\ Same(name[u])'
    <3>1. Inserting(u) /\ name[u] \notin spoilt /\ name[u] # name[t] /\ name[u] \in Names
      BY <2>1, <2>2, <2>3 DEF FormKept, Inserting
    <3>2. /\ (Same(name[u])' <=> Same(name[u])) /\ users'[name[u]] = users[name[u]]
          /\ \A p \in Passwords : <<name[u], p>> \in table' <=> <<name[u], p>> \in table
      BY <1>3, <1>elsewhere, <2>1, <3>1 DEF Same
    <3> QED
      BY <2>1, <3>1, <3>2 DEF Between
  <2>4. ASSUME NEW n \in Names \ spoilt', \A u \in Threads : Inserting(u)' => name'[u] # n PROVE Same(n)'
    <3>1. n # name[t] /\ n \notin spoilt /\ \A u \in Threads : Inserting(u) => name[u] # n
      BY <2>1, <2>2, <2>4
    <3> QED
      BY <1>3, <1>elsewhere, <3>1 DEF Agree
  <2>5. Between'
    BY <2>3 DEF Between
  <2> QED
    BY <2>4, <2>5 DEF Agree
<1>4. CASE UNCHANGED accountVars
  BY <1>4 DEF accountVars, form, Between, Agree, Same, Inserting
<1> QED
  BY <1>1, <1>2, <1>3, <1>4, QuietSteps, QuietKeeps DEF AccountsNext, Login, Register

\* An entry, once made, stays as it is: map::insert replaces nothing.
LEMMA EntriesStay ==
  ASSUME AccountsType, FormKept, [AccountsNext]_accountVars, NEW n \in Names, users[n] # None
  PROVE  spoilt \subseteq spoilt' /\ (n \notin spoilt' => users'[n] = users[n])
<1>1. ASSUME NEW t \in Threads, EndInsert(t)
      PROVE  spoilt \subseteq spoilt' /\ (n \notin spoilt' => users'[n] = users[n])
  BY <1>1 DEF AccountsType, EndInsert
<1>2. ASSUME NEW t \in Threads, Query(t) PROVE spoilt \subseteq spoilt' /\ users'[n] = users[n]
  BY <1>2 DEF Query
<1>3. ASSUME NEW t \in Threads, EndCreate(t)
      PROVE  spoilt \subseteq spoilt' /\ (n \notin spoilt' => users'[n] = users[n])
  BY <1>3 DEF AccountsType, EndCreate
<1>4. CASE UNCHANGED accountVars
  BY <1>4 DEF accountVars
<1> QED
  BY <1>1, <1>2, <1>3, <1>4, QuietSteps DEF AccountsNext, Login, Register, Quiet

\* A name that is spoilt stays so.
LEMMA SpoiltGrows == ASSUME [AccountsNext]_accountVars PROVE spoilt \subseteq spoilt'
BY DEF AccountsNext, accountVars, Submit, Login, LoginFind, LoginMatch, BeginCreate, EndCreate, Register, CheckName,
       Lock, Query, BeginInsert, EndInsert, Unlock, Done

\* Who holds a grant after a step: it had one, with the same form, or it has
\* just made its entry, or its name is spoilt.
LEMMA GrantMoves ==
  ASSUME AccountsType, LockHeld, FormKept, Between, [AccountsNext]_accountVars,
         NEW u \in Threads, Grant(u)', name'[u] \notin spoilt'
  PROVE  /\ UNCHANGED <<name[u], password[u]>>
         /\ Grant(u) \/ users'[name[u]] = password[u]
<1>0. None \notin Passwords /\ None \notin {"log", "registerError", "welcome", "logError"}
  BY AccountsAssumption
<1>1. ASSUME NEW t \in Threads, NEW n \in Names, NEW p \in Passwords, NEW kind \in {"login", "register"},
             Submit(t, n, p, kind)
      PROVE  UNCHANGED <<name[u], password[u]>> /\ Grant(u)
  <2>1. pc[t] = "idle" /\ page[t] = None
    BY <1>1 DEF FormKept, Submit
  <2>2. u # t
    BY <1>0, <1>1, <2>1 DEF AccountsType, Submit, Goto, Grant
  <2> QED
    BY <1>1, <2>2 DEF AccountsType, Submit, Goto, Grant
<1>2. ASSUME NEW t \in Threads, LoginFind(t) \/ LoginMatch(t) \/ BeginCreate(t) \/ EndCreate(t)
      PROVE  UNCHANGED <<name[u], password[u]>> /\ Grant(u)
  <2>1. name' = name /\ password' = password /\ res' = res
    BY <1>2 DEF LoginFind, LoginMatch, BeginCreate, EndCreate, form
  <2>2. CASE u = t
    <3>1. page[t] # "log"
      BY <1>0, <1>2 DEF FormKept, LoginFind, LoginMatch, BeginCreate, EndCreate
    <3>2. pc'[t] # "unlock" /\ page'[t] # "log"
      BY <1>2, <3>1 DEF AccountsType, LoginFind, LoginMatch, BeginCreate, EndCreate, Answer, Goto
    <3> QED
      BY <2>2, <3>2 DEF Grant
  <2>3. CASE u # t
    <3>1. pc'[u] = pc[u] /\ page'[u] = page[u]
      BY <1>2, <2>3 DEF AccountsType, LoginFind, LoginMatch, BeginCreate, EndCreate, Answer, Goto
    <3> QED
      BY <2>1, <3>1 DEF Grant
  <2> QED
    BY <2>1, <2>2, <2>3
<1>3. ASSUME NEW t \in Threads, CheckName(t) \/ Lock(t) \/ BeginInsert(t)
      PROVE  UNCHANGED <<name[u], password[u]>> /\ Grant(u)
  <2>1. name' = name /\ password' = password
    BY <1>3 DEF CheckName, Lock, BeginInsert, form
  <2>2. CASE CheckName(t)
    BY <2>1, <2>2 DEF AccountsType, CheckName, Answer, Goto, Grant, form
  <2>3. CASE Lock(t)
    BY <2>1, <2>3 DEF AccountsType, Lock, Goto, Grant
  <2>4. CASE BeginInsert(t)
    BY <2>1, <2>4 DEF AccountsType, BeginInsert, Goto, Grant
  <2> QED
    BY <1>3, <2>2, <2>3, <2>4
<1>4. ASSUME NEW t \in Threads, Query(t) PROVE UNCHANGED <<name[u], password[u]>> /\ Grant(u)
  <2>1. name' = name /\ password' = password /\ page' = page
    BY <1>4 DEF Query, form
  <2>2. pc'[u] = "unlock" => u # t /\ pc[u] = "unlock" /\ res'[u] = res[u]
    BY <1>4 DEF AccountsType, Query, Goto
  <2> QED
    BY <2>1, <2>2 DEF Grant
<1>5. ASSUME NEW t \in Threads, EndInsert(t)
      PROVE  UNCHANGED <<name[u], password[u]>> /\ (Grant(u) \/ users'[name[u]] = password[u])
  <2>1. name' = name /\ password' = password /\ page' = page /\ res' = res
    BY <1>5 DEF EndInsert, form
  <2>2. CASE u = t /\ res[t]
    <3>1. name[t] \in Names /\ name[t] \notin spoilt'
      BY <1>5, <2>1, <2>2 DEF FormKept, EndInsert
    <3>2. users' = IF users[name[t]] = None THEN [users EXCEPT ![name[t]] = password[t]] ELSE users
      BY <1>5, <3>1 DEF EndInsert
    <3>3. name[t] \notin spoilt /\ Inserting(t)
      BY <1>5, <3>1, SpoiltGrows DEF EndInsert, Inserting
    <3>4. users[name[t]] = None
      BY <2>2, <3>3 DEF Between
    <3> QED
      BY <2>1, <2>2, <3>1, <3>2, <3>4 DEF AccountsType
  <2>3. CASE ~ (u = t /\ res[t])
    BY <1>5, <2>1, <2>3 DEF AccountsType, EndInsert, Goto, Grant
  <2> QED
    BY <2>1, <2>2, <2>3
<1>6. ASSUME NEW t \in Threads, Unlock(t) PROVE UNCHANGED <<name[u], password[u]>> /\ Grant(u)
  <2>1. name' = name /\ password' = password /\ res' = res
    BY <1>6 DEF Unlock, form
  <2> QED
    BY <1>6, <2>1 DEF AccountsType, Unlock, Answer, Goto, Outcome, Grant
<1>7. ASSUME NEW t \in Threads, Done(t) PROVE UNCHANGED <<name[u], password[u]>> /\ Grant(u)
  <2>1. u # t
    BY <1>0, <1>7 DEF AccountsType, Done, Goto, Grant
  <2> QED
    BY <1>7, <2>1 DEF AccountsType, Done, Goto, Grant
<1>8. CASE UNCHANGED accountVars
  BY <1>8 DEF accountVars, form, Grant
<1> QED
  BY <1>1, <1>2, <1>3, <1>4, <1>5, <1>6, <1>7, <1>8 DEF AccountsNext, Login, Register

LEMMA GrantedStep ==
  ASSUME AccountsType, LockHeld, FormKept, Between, Granted, [AccountsNext]_accountVars
  PROVE  Granted'
<1>1. SUFFICES ASSUME NEW u \in Threads, Grant(u)', name'[u] \notin spoilt' PROVE (users[name[u]] = password[u])'
  BY DEF Granted
<1>2. FormKept'
  BY AccountsTypeStep
<1>3. name'[u] \in Names /\ password'[u] \in Passwords
  BY <1>1, <1>2, AccountsAssumption DEF FormKept, Grant
<1>4. name'[u] = name[u] /\ password'[u] = password[u] /\ (Grant(u) \/ users'[name[u]] = password[u])
  BY <1>1, GrantMoves
<1>5. Grant(u) => users[name[u]] = password[u]
  BY <1>1, <1>4, SpoiltGrows DEF Granted
<1>6. users[name[u]] = password[u] => users'[name[u]] = users[name[u]]
  BY <1>1, <1>3, <1>4, EntriesStay, AccountsAssumption
<1> QED
  BY <1>4, <1>5, <1>6

LEMMA InitAInv == AccountsInit => AInv
<1> SUFFICES ASSUME AccountsInit PROVE AInv
  OBVIOUS
<1>0. None \notin Threads /\ None \notin {"log", "registerError", "welcome", "logError"}
  BY AccountsAssumption
<1>1. AccountsType
  BY DEF AccountsInit, AccountsType
<1>2. LockHeld /\ FormKept
  BY <1>0 DEF AccountsInit, LockHeld, FormKept
<1>3. (\A n \in Names : Same(n)) /\ \A t \in Threads : ~ Inserting(t)
  BY DEF AccountsInit, Same, Inserting
<1>4. Written /\ Between /\ Agree
  BY <1>3 DEF Written, Between, Agree, Same
<1>5. NoFalseLogin /\ Granted
  BY <1>0 DEF AccountsInit, NoFalseLogin, Granted, Grant
<1> QED
  BY <1>1, <1>2, <1>4, <1>5 DEF AInv

LEMMA AInvariance == AccountsSpec => []AInv
<1>1. AInv /\ [AccountsNext]_accountVars => AInv'
  <2> SUFFICES ASSUME AInv, [AccountsNext]_accountVars PROVE AInv'
    OBVIOUS
  <2>1. AccountsType' /\ LockHeld' /\ FormKept'
    BY AccountsTypeStep DEF AInv
  <2>2. Written' /\ NoFalseLogin'
    BY WrittenStep, WelcomeStep DEF AInv
  <2>3. UniqueKey => Between' /\ Agree' /\ Granted'
    BY AgreeStep, GrantedStep DEF AInv
  <2> QED
    BY <2>1, <2>2, <2>3 DEF AInv
<1> QED
  BY <1>1, InitAInv, PTL DEF AccountsSpec

\* m_lock is held by at most one worker, and only by one that is between the
\* INSERT and the end of users.insert; a form that was submitted is not replaced
\* before it is answered (do_request, http_conn.cpp:478-504).  Whatever the
\* database does.
THEOREM AccountsTypeCorrect == AccountsSpec => [](AccountsType /\ LockHeld /\ FormKept)
<1>1. AInv => AccountsType /\ LockHeld /\ FormKept
  BY DEF AInv
<1> QED
  BY <1>1, AInvariance, PTL

\* For every name whose INSERTs were not refused for another reason than a
\* duplicate and whose entry did not race, the map is the image of the table
\* whenever m_lock is free: names are checked before the lock is taken and not
\* again under it, yet the key of the table keeps the two together
\* (http_conn.cpp:490-496).  Failures and races of other names do no harm.
THEOREM MapFollowsTable == UniqueKey /\ AccountsSpec => []MapMirrorsTable
<1>1. UniqueKey /\ AInv => MapMirrorsTable
  <2> SUFFICES ASSUME UniqueKey, AInv, m_lock = None, NEW n \in Names \ spoilt PROVE Same(n)
    BY DEF MapMirrorsTable, Same
  <2>1. \A t \in Threads : ~ Inserting(t)
    BY AccountsAssumption DEF AInv, LockHeld, Inserting
  <2> QED
    BY <2>1 DEF AInv, Agree
<1>2. UniqueKey /\ [AccountsNext]_accountVars => UniqueKey'
  OBVIOUS
<1> QED
  BY <1>1, <1>2, AInvariance, PTL DEF AccountsSpec

\* Two workers that register one name at the same time both pass the check;
\* only the one whose row was taken is sent to log.html (http_conn.cpp:490-501),
\* and the entry is its own, unless the name is spoilt.
THEOREM RegisteredOwnsName == UniqueKey /\ AccountsSpec => []SuccessMeansAccount
<1>1. UniqueKey /\ AInv => SuccessMeansAccount
  <2> SUFFICES ASSUME UniqueKey, AInv, NEW t \in Threads, page[t] = "log", name[t] \notin spoilt
               PROVE  users[name[t]] = password[t] /\ <<name[t], password[t]>> \in table
    BY DEF SuccessMeansAccount
  <2>1. users[name[t]] = password[t]
    BY DEF AInv, Granted, Grant
  <2>2. name[t] \in Names /\ password[t] \in Passwords
    BY AccountsAssumption DEF AInv, FormKept
  <2> QED
    BY <2>1, <2>2 DEF AInv, Written
<1>2. UniqueKey /\ [AccountsNext]_accountVars => UniqueKey'
  OBVIOUS
<1> QED
  BY <1>1, <1>2, AInvariance, PTL DEF AccountsSpec

\* With or without a key, only rows of the table log in under a name that is not
\* spoilt, although users is searched twice while another worker writes it
\* (http_conn.cpp:490, 495, 510).
THEOREM OnlyRowsLogIn == AccountsSpec => []NoFalseLogin
<1>1. AInv => NoFalseLogin
  BY DEF AInv
<1> QED
  BY <1>1, AInvariance, PTL

\* No later registration changes the password of a name that has an entry:
\* users.insert replaces nothing (http_conn.cpp:495).  Whatever the database does;
\* only insertions at the same time can.
THEOREM AccountsAreKept ==
  AccountsSpec => [][\A n \in Names : users[n] # None /\ n \notin spoilt' => users'[n] = users[n]]_accountVars
<1>1. AInv /\ [AccountsNext]_accountVars
        => [\A n \in Names : users[n] # None /\ n \notin spoilt' => users'[n] = users[n]]_accountVars
  BY EntriesStay DEF AInv
<1> QED
  BY <1>1, AInvariance, PTL DEF AccountsSpec

=============================================================================
