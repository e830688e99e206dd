------------------------------ MODULE LogProofs ------------------------------
(***************************************************************************)
(* Theorems about Log for every number of calls and threads, every size of *)
(* the ring and of the files.                                              *)
(***************************************************************************)
EXTENDS Log, FiniteSetTheorems, FunctionTheorems, WellFoundedInduction, TLAPS

One(b) == IF b THEN 1 ELSE 0

\* m_back and m_front wrap around together: the place after m_back is the one after
\* the m_size lines that follow m_front, also while both are -1.
RingClosed ==
  m_max_size > 0 => (m_back + 1) % m_max_size = (m_front + m_size + 1) % m_max_size

\* The ring holds lines only, and so does the consumer when it writes.
HoldsLines ==
  /\ \A i \in 1 .. m_size : Contents[i] \in Lines
  /\ consumer = "write" => single_log \in Lines

\* m_mutex gives m_buf to one thread from the formatting to the copy.
OwnBuffer == \A l \in Lines : pc[l] = "copy" => m_mutex = l /\ m_buf = l

\* A thread keeps its own line until it is written or pushed.
OwnLine == \A l \in Lines : pc[l] \in {"test", "push", "put"} => log_str[l] = l

Placed(l) == Times(l, Contents) + Times(l, output) + One(consumer = "write" /\ single_log = l)
Logged(l) == pc[l] \in {"pushed", "queued", "written"}

\* Every line that was pushed or written is in one place.
InOnePlace == \A l \in Lines : Placed(l) = One(Logged(l))

\* The inductive invariant.
IInv == TypeOK /\ RingClosed /\ HoldsLines /\ OwnBuffer /\ OwnLine /\ InOnePlace
-----------------------------------------------------------------------------
(* Arithmetic of the ring *)

\* The place i steps after m_front.
LEMMA PlaceOf ==
  ASSUME NEW N \in Nat \ {0}, NEW f \in -1 .. N - 1, NEW i \in 1 .. N
  PROVE  (f + i) % N \in 0 .. N - 1 /\ (f + i) % N = IF f + i < N THEN f + i ELSE f + i - N
<1>1. CASE f + i < N
  <2>1. f + i \in 0 .. N - 1
    BY <1>1
  <2> QED
    BY <1>1, <2>1
<1>2. CASE f + i >= N
  <2>1. f + i \in N .. 2 * N - 1
    BY <1>2
  <2>2. (f + i) % N = f + i - N
    BY <2>1
  <2> QED
    BY <1>2, <2>1, <2>2
<1> QED
  BY <1>1, <1>2

\* Wrapping around first and adding 1 then is the same as adding 1 first.
LEMMA WrapThenAdd ==
  ASSUME NEW N \in Nat \ {0}, NEW x \in 0 .. 2 * N - 1
  PROVE  ((x % N) + 1) % N = (x + 1) % N
<1>1. CASE x < N
  <2>1. x % N = x
    BY <1>1
  <2> QED
    BY <2>1
<1>2. CASE x >= N /\ x + 1 < 2 * N
  <2>1. x \in N .. 2 * N - 1 /\ x + 1 \in N .. 2 * N - 1 /\ x - N + 1 \in 0 .. N - 1
    BY <1>2
  <2>2. x % N = x - N
    BY <2>1
  <2>3. (x + 1) % N = x + 1 - N
    BY <2>1
  <2>4. (x - N + 1) % N = x - N + 1
    BY <2>1
  <2> QED
    BY <2>2, <2>3, <2>4
<1>3. CASE x + 1 = 2 * N
  <2>1. x \in N .. 2 * N - 1 /\ x - N = N - 1 /\ x - N + 1 = N
    BY <1>3
  <2>2. x % N = x - N
    BY <2>1
  <2>3. (2 * N) % N = 0 /\ N % N = 0
    OBVIOUS
  <2> QED
    BY <1>3, <2>1, <2>2, <2>3
<1> QED
  BY <1>1, <1>2, <1>3

\* pop moves m_front by one place and so every place after it.
LEMMA FrontMoves ==
  ASSUME NEW N \in Nat \ {0}, NEW f \in -1 .. N - 1, NEW i \in 0 .. N
  PROVE  (((f + 1) % N) + i) % N = (f + i + 1) % N
<1>1. CASE f + 1 < N
  <2>1. (f + 1) % N = f + 1
    BY <1>1
  <2> QED
    BY <2>1
<1>2. CASE f + 1 = N
  <2>1. (f + 1) % N = 0 /\ f + i + 1 = N + i
    BY <1>2
  <2>2. i % N = (N + i) % N
    <3>1. CASE i < N
      <4>1. N + i \in N .. 2 * N - 1 /\ i \in 0 .. N - 1
        BY <3>1
      <4> QED
        BY <4>1
    <3>2. CASE i = N
      <4>1. (2 * N) % N = 0 /\ N % N = 0
        OBVIOUS
      <4> QED
        BY <3>2, <4>1
    <3> QED
      BY <3>1, <3>2
  <2> QED
    BY <2>1, <2>2
<1> QED
  BY <1>1, <1>2

\* push appends to the contents of the ring.
LEMMA PushAppends ==
  ASSUME TypeOK, RingClosed, m_size < m_max_size, NEW line \in Lines, Insert(line), UNCHANGED m_max_size
  PROVE  /\ m_back' \in -1 .. m_max_size - 1 /\ m_size' \in 0 .. m_max_size
         /\ m_array' \in [0 .. m_max_size - 1 -> Lines \cup {None}]
         /\ RingClosed'
         /\ Contents \in Seq(Lines \cup {None}) /\ Contents' = Append(Contents, line)
<1>0. PICK N : N = m_max_size
  OBVIOUS
<1>1. /\ N \in Nat \ {0} /\ m_size \in 0 .. N - 1 /\ m_front \in -1 .. N - 1 /\ m_back \in -1 .. N - 1
      /\ m_array \in [0 .. N - 1 -> Lines \cup {None}]
  BY <1>0, LogAssumption DEF TypeOK
<1>2. PICK x \in 0 .. 2 * N - 1 : x = m_front + m_size + 1
  BY <1>1
<1>3. (m_back + 1) % N = x % N /\ x % N \in 0 .. N - 1 /\ x % N = IF x < N THEN x ELSE x - N
  <2>1. PICK j \in 1 .. N : j = m_size + 1
    BY <1>1
  <2>2. x % N \in 0 .. N - 1 /\ x % N = IF x < N THEN x ELSE x - N
    <3>1. (m_front + j) % N \in 0 .. N - 1 /\ (m_front + j) % N = IF m_front + j < N THEN m_front + j ELSE m_front + j - N
      BY <1>1, PlaceOf
    <3>2. x = m_front + j
      BY <1>1, <1>2, <2>1
    <3>3. x % N \in 0 .. N - 1
      BY <3>1, <3>2, Zenon
    <3>4. x % N = (m_front + j) % N
      BY <3>2, Zenon
    <3> QED
      BY <1>1, <3>1, <3>2, <3>3, <3>4
  <2> QED
    BY <1>0, <1>1, <1>2, <2>2 DEF RingClosed
<1>4. PICK b \in 0 .. N - 1 : b = x % N
  BY <1>3
<1>5. /\ m_back' = b /\ m_size' = m_size + 1 /\ m_front' = m_front
      /\ m_array' = [m_array EXCEPT ![b] = line] /\ m_max_size' = N
  BY <1>0, <1>3, <1>4 DEF Insert
<1>6. RingClosed'
  <2>1. (b + 1) % N = (x + 1) % N
    BY <1>1, <1>4, WrapThenAdd
  <2>2. x + 1 = m_front' + m_size' + 1
    BY <1>1, <1>2, <1>5
  <2> QED
    BY <1>5, <2>1, <2>2 DEF RingClosed
<1>7. ASSUME NEW i \in 1 .. m_size + 1
      PROVE  (m_front + i) % N \in 0 .. N - 1 /\ (m_front + i) % N = IF m_front + i < N THEN m_front + i ELSE m_front + i - N
  <2>1. i \in 1 .. N
    BY <1>1
  <2> QED
    BY <1>1, <2>1, PlaceOf
<1>8. Contents = [i \in 1 .. m_size |-> m_array[(m_front + i) % N]]
  BY <1>0 DEF Contents
<1>9. /\ Contents \in Seq(Lines \cup {None}) /\ Len(Contents) = m_size
      /\ \A i \in 1 .. m_size : Contents[i] = m_array[(m_front + i) % N]
  <2>1. \A i \in 1 .. m_size : m_array[(m_front + i) % N] \in Lines \cup {None}
    BY <1>1, <1>7
  <2> QED
    BY <1>1, <1>8, <2>1
<1>10. Contents' = [i \in 1 .. m_size + 1 |-> m_array'[(m_front + i) % N]]
  BY <1>5 DEF Contents
<1>11. ASSUME NEW i \in 1 .. m_size + 1 PROVE m_array'[(m_front + i) % N] = Append(Contents, line)[i]
  <2>1. CASE i = m_size + 1
    <3>1. (m_front + i) % N = b
      BY <1>1, <1>2, <1>4, <2>1
    <3>2. m_array'[b] = line
      BY <1>1, <1>5
    <3>3. Append(Contents, line)[i] = line
      BY <1>9, <2>1
    <3> QED
      BY <3>1, <3>2, <3>3
  <2>2. CASE i <= m_size
    <3>1. PICK k \in 0 .. N - 1 : k = (m_front + i) % N
      BY <1>7
    <3>2. k # b
      BY <1>1, <1>2, <1>3, <1>4, <1>7, <2>2, <3>1
    <3>3. m_array'[k] = m_array[k]
      BY <1>1, <1>5, <3>2
    <3>4. i \in 1 .. m_size
      BY <1>1, <2>2
    <3>5. Append(Contents, line)[i] = Contents[i]
      BY <1>9, <3>4
    <3> QED
      BY <1>9, <3>1, <3>3, <3>4, <3>5
  <2>3. i = m_size + 1 \/ i <= m_size
    BY <1>1
  <2> QED
    BY <2>1, <2>2, <2>3, Zenon
<1>12. Contents' = Append(Contents, line)
  <2>1. /\ Append(Contents, line) \in Seq(Lines \cup {None}) /\ Len(Append(Contents, line)) = m_size + 1
    BY <1>1, <1>9
  <2>2. Append(Contents, line) = [i \in 1 .. m_size + 1 |-> Append(Contents, line)[i]]
    BY <1>1, <2>1
  <2> QED
    BY <1>10, <1>11, <2>2, Zenon
<1>13. m_back' \in -1 .. m_max_size - 1 /\ m_size' \in 0 .. m_max_size
  BY <1>0, <1>1, <1>5
<1>14. m_array' \in [0 .. m_max_size - 1 -> Lines \cup {None}]
  BY <1>0, <1>1, <1>5
<1> QED
  BY <1>6, <1>9, <1>12, <1>13, <1>14

\* pop takes the first line out of the ring.
LEMMA PopTakes ==
  ASSUME TypeOK, RingClosed, m_size > 0, m_front' = (m_front + 1) % m_max_size, m_size' = m_size - 1,
         m_max_size' = m_max_size, m_array' = m_array, m_back' = m_back
  PROVE  /\ m_front' \in -1 .. m_max_size - 1 /\ m_size' \in 0 .. m_max_size
         /\ RingClosed'
         /\ Contents \in Seq(Lines \cup {None}) /\ Contents # <<>>
         /\ Contents' = Tail(Contents) /\ m_array[m_front'] = Head(Contents)
<1>0. PICK N : N = m_max_size
  OBVIOUS
<1>1. /\ N \in Nat \ {0} /\ m_size \in 1 .. N /\ m_front \in -1 .. N - 1 /\ m_back \in -1 .. N - 1
      /\ m_array \in [0 .. N - 1 -> Lines \cup {None}]
  BY <1>0, LogAssumption DEF TypeOK
<1>2. (m_front + 1) % N \in 0 .. N - 1
  BY <1>1
<1>3. /\ m_front' = (m_front + 1) % N /\ m_size' = m_size - 1 /\ m_max_size' = N
      /\ m_front' \in 0 .. N - 1
  BY <1>0, <1>2
<1>4. ASSUME NEW i \in 0 .. N PROVE (m_front' + i) % N = (m_front + i + 1) % N
  <2>1. (((m_front + 1) % N) + i) % N = (m_front + i + 1) % N
    BY <1>1, FrontMoves
  <2> QED
    BY <1>3, <2>1, Zenon
<1>5. RingClosed'
  <2>1. (m_front' + m_size) % N = (m_front + m_size + 1) % N
    <3>1. m_size \in 0 .. N
      BY <1>1
    <3> QED
      BY <1>4, <3>1
  <2>2. m_front' + m_size' + 1 = m_front' + m_size
    BY <1>1, <1>3
  <2>3. (m_back + 1) % N = (m_front + m_size + 1) % N
    BY <1>0, <1>1 DEF RingClosed
  <2> QED
    BY <1>3, <2>1, <2>2, <2>3 DEF RingClosed
<1>6. ASSUME NEW i \in 1 .. m_size PROVE (m_front + i) % N \in 0 .. N - 1
  BY <1>1
<1>7. Contents = [i \in 1 .. m_size |-> m_array[(m_front + i) % N]]
  BY <1>0 DEF Contents
<1>8. /\ Contents \in Seq(Lines \cup {None}) /\ Len(Contents) = m_size
      /\ \A i \in 1 .. m_size : Contents[i] = m_array[(m_front + i) % N]
  <2>1. \A i \in 1 .. m_size : m_array[(m_front + i) % N] \in Lines \cup {None}
    BY <1>1, <1>6
  <2> QED
    BY <1>1, <1>7, <2>1
<1>9. Contents # <<>> /\ Head(Contents) = Contents[1]
  BY <1>1, <1>8
<1>10. m_array[m_front'] = Head(Contents)
  BY <1>1, <1>3, <1>8, <1>9
<1>11. Contents' = [i \in 1 .. m_size - 1 |-> m_array[(m_front' + i) % N]]
  BY <1>3 DEF Contents
<1>12. /\ Tail(Contents) \in Seq(Lines \cup {None}) /\ Len(Tail(Contents)) = m_size - 1
       /\ \A i \in 1 .. m_size - 1 : Tail(Contents)[i] = Contents[i + 1]
  BY <1>1, <1>8, <1>9
<1>13. ASSUME NEW i \in 1 .. m_size - 1 PROVE m_array[(m_front' + i) % N] = Tail(Contents)[i]
  <2>1. i \in 0 .. N /\ i + 1 \in 1 .. m_size /\ m_front + i + 1 = m_front + (i + 1)
    BY <1>1
  <2>2. (m_front' + i) % N = (m_front + (i + 1)) % N
    BY <1>4, <2>1
  <2>3. Contents[i + 1] = m_array[(m_front + (i + 1)) % N]
    BY <1>8, <2>1
  <2>4. Tail(Contents)[i] = Contents[i + 1]
    BY <1>12
  <2> QED
    BY <2>2, <2>3, <2>4, Zenon
<1>14. Contents' = Tail(Contents)
  <2>1. Tail(Contents) = [i \in 1 .. m_size - 1 |-> Tail(Contents)[i]]
    BY <1>1, <1>12
  <2> QED
    BY <1>11, <1>13, <2>1, Zenon
<1>15. m_front' \in -1 .. m_max_size - 1 /\ m_size' \in 0 .. m_max_size
  BY <1>0, <1>1, <1>3
<1> QED
  BY <1>5, <1>8, <1>9, <1>10, <1>14, <1>15
-----------------------------------------------------------------------------
(* How often a line occurs *)

\* The occurrences of a line form a finite set.
LEMMA TimesType ==
  ASSUME NEW S, NEW s \in Seq(S), NEW l
  PROVE  IsFiniteSet({i \in DOMAIN s : s[i] = l}) /\ Times(l, s) \in Nat
<1>1. DOMAIN s = 1 .. Len(s) /\ Len(s) \in Nat
  OBVIOUS
<1>2. IsFiniteSet(1 .. Len(s))
  BY <1>1, FS_Interval
<1>3. {i \in DOMAIN s : s[i] = l} \in SUBSET (1 .. Len(s))
  BY <1>1
<1>4. IsFiniteSet({i \in DOMAIN s : s[i] = l})
  BY <1>2, <1>3, FS_Subset
<1> QED
  BY <1>4, FS_CardinalityType DEF Times

\* Appending a line adds one occurrence of it.
LEMMA TimesAppend ==
  ASSUME NEW S, NEW s \in Seq(S), NEW l, NEW x \in S
  PROVE  Times(l, Append(s, x)) = Times(l, s) + One(x = l)
<1> DEFINE A == {i \in DOMAIN s : s[i] = l}
           B == {i \in DOMAIN Append(s, x) : Append(s, x)[i] = l}
<1>1. /\ DOMAIN s = 1 .. Len(s) /\ Len(s) \in Nat /\ DOMAIN Append(s, x) = 1 .. Len(s) + 1
      /\ Append(s, x)[Len(s) + 1] = x /\ \A i \in 1 .. Len(s) : Append(s, x)[i] = s[i]
  OBVIOUS
<1>2. IsFiniteSet(A) /\ Cardinality(A) \in Nat
  BY TimesType DEF Times
<1>3. CASE x = l
  <2>1. B = A \cup {Len(s) + 1} /\ Len(s) + 1 \notin A
    BY <1>1, <1>3
  <2>2. Cardinality(B) = Cardinality(A) + 1
    BY <1>2, <2>1, FS_AddElement
  <2> QED
    BY <1>3, <2>2 DEF Times, One
<1>4. CASE x # l
  <2>1. B = A
    BY <1>1, <1>4
  <2>2. Times(l, Append(s, x)) = Cardinality(A) /\ Times(l, s) = Cardinality(A)
    BY <2>1, Zenon DEF Times
  <2>3. One(x = l) = 0
    BY <1>4 DEF One
  <2> QED
    BY <1>2, <2>2, <2>3
<1> QED
  BY <1>3, <1>4

\* The first line and the others.
LEMMA TimesTail ==
  ASSUME NEW S, NEW s \in Seq(S), s # <<>>, NEW l
  PROVE  Times(l, s) = Times(l, Tail(s)) + One(Head(s) = l)
<1> DEFINE A == {i \in DOMAIN Tail(s) : Tail(s)[i] = l}
           B == {i \in 2 .. Len(s) : s[i] = l}
           C == {i \in DOMAIN s : s[i] = l}
<1>1. /\ DOMAIN s = 1 .. Len(s) /\ Len(s) \in Nat \ {0} /\ Head(s) = s[1]
      /\ Tail(s) \in Seq(S) /\ DOMAIN Tail(s) = 1 .. Len(s) - 1
      /\ \A i \in 1 .. Len(s) - 1 : Tail(s)[i] = s[i + 1]
  OBVIOUS
<1>2. IsFiniteSet(A) /\ Cardinality(A) \in Nat /\ Times(l, Tail(s)) = Cardinality(A)
  BY <1>1, TimesType DEF Times
<1>3. IsFiniteSet(B) /\ Cardinality(B) = Cardinality(A)
  <2> DEFINE f == [i \in A |-> i + 1]
  <2>1. f \in Bijection(A, B)
    <3>1. f \in [A -> B]
      BY <1>1
    <3>2. \A i, j \in A : f[i] = f[j] => i = j
      BY <1>1
    <3>3. \A k \in B : \E i \in A : f[i] = k
      <4> SUFFICES ASSUME NEW k \in B PROVE \E i \in A : f[i] = k
        OBVIOUS
      <4>1. k - 1 \in A /\ f[k - 1] = k
        BY <1>1
      <4> QED
        BY <4>1
    <3> QED
      BY <3>1, <3>2, <3>3, Fun_IsBij
  <2>2. ExistsBijection(A, B)
    BY <2>1 DEF ExistsBijection
  <2> QED
    BY <1>2, <2>2, FS_Bijection
<1>4. CASE s[1] = l
  <2>1. C = B \cup {1} /\ 1 \notin B
    BY <1>1, <1>4
  <2>2. Cardinality(C) = Cardinality(B) + 1
    BY <1>3, <2>1, FS_AddElement
  <2> QED
    BY <1>1, <1>2, <1>3, <1>4, <2>2 DEF Times, One
<1>5. CASE s[1] # l
  <2>1. C = B
    BY <1>1, <1>5
  <2>2. Times(l, s) = Cardinality(A)
    BY <1>3, <2>1, Zenon DEF Times
  <2>3. One(Head(s) = l) = 0
    BY <1>1, <1>5 DEF One
  <2>4. PICK n \in Nat : Times(l, s) = n /\ Times(l, Tail(s)) = n
    BY <1>2, <2>2, Zenon
  <2> HIDE DEF A, B, C
  <2> QED
    BY <2>3, <2>4
<1> QED
  BY <1>4, <1>5
-----------------------------------------------------------------------------
(* The steps *)

\* Init establishes the invariant.
LEMMA InitIInv == Init => IInv
<1> SUFFICES ASSUME Init PROVE IInv
  OBVIOUS
<1>1. m_max_size \in Nat
  BY LogAssumption DEF Init
<1>2. TypeOK
  <2>1. consumer \in {"absent", "pop", "asleep", "write"}
    BY DEF Init
  <2>2. output \in Seq(Lines)
    BY DEF Init
  <2>3. m_array \in [0 .. m_max_size - 1 -> Lines \cup {None}]
    BY DEF Init
  <2>4. pc \in [Lines -> {"idle", "count", "format", "copy", "test", "push", "put",
                       "pushed", "refused", "queued", "lost", "written"}]
    BY DEF Init
  <2>5. my_tm \in [Lines -> 0 .. LastDay] /\ log_str \in [Lines -> Lines \cup {None}]
    BY LogAssumption DEF Init
  <2>6. clock \in 0 .. LastDay /\ m_count \in Nat /\ m_today \in 0 .. LastDay /\ inFile \in Nat
    BY LogAssumption DEF Init
  <2>7. m_size \in 0 .. m_max_size /\ m_front \in -1 .. m_max_size - 1 /\ m_back \in -1 .. m_max_size - 1
    BY <1>1 DEF Init
  <2>8. m_mutex \in Lines \cup {None} /\ m_buf \in Lines \cup {None} /\ m_max_size \in Sizes /\ single_log \in Lines \cup {None}
    BY DEF Init
  <2>9. FilesOK
    <3>1. <<0, 0>> \in Files
      BY LogAssumption DEF Files
    <3>2. DOMAIN lines = {m_fp} \ {None} /\ lines \in [{m_fp} \ {None} -> Nat] /\ opened \in [{m_fp} \ {None} -> Nat]
      BY DEF Init
    <3> QED
      BY <3>1, <3>2 DEF Init, FilesOK
  <2> QED
    BY <2>1, <2>2, <2>3, <2>4, <2>5, <2>6, <2>7, <2>8, <2>9, Zenon DEF TypeOK
<1>3. RingClosed
  BY <1>1 DEF Init, RingClosed
<1>4. consumer # "write"
  BY DEF Init
<1>5. HoldsLines
  BY <1>4 DEF Init, HoldsLines
<1>6. OwnBuffer /\ OwnLine
  BY DEF Init, OwnBuffer, OwnLine
<1>7. ASSUME NEW l \in Lines PROVE Placed(l) = One(Logged(l))
  <2>1. {i \in DOMAIN Contents : Contents[i] = l} = {}
    <3>1. m_size = 0
      BY DEF Init
    <3>2. DOMAIN Contents = 1 .. 0
      BY <3>1 DEF Contents
    <3> QED
      BY <3>2
  <2>2. {i \in DOMAIN output : output[i] = l} = {}
    BY DEF Init
  <2>3. Times(l, Contents) = 0 /\ Times(l, output) = 0
    BY <2>1, <2>2, FS_EmptySet DEF Times
  <2>4. One(consumer = "write" /\ single_log = l) = 0
    BY <1>4 DEF One
  <2>5. One(Logged(l)) = 0
    BY DEF One, Logged, Init
  <2> QED
    BY <2>3, <2>4, <2>5 DEF Placed
<1> QED
  BY <1>2, <1>3, <1>5, <1>6, <1>7, Zenon DEF IInv, InOnePlace

Points == {"idle", "count", "format", "copy", "test", "push", "put",
           "pushed", "refused", "queued", "lost", "written"}

\* A call moves alone.
LEMMA Moves ==
  ASSUME TypeOK, NEW l \in Lines, NEW from, NEW to \in Points, Goto(l, from, to)
  PROVE  pc \in [Lines -> Points] /\ pc' \in [Lines -> Points] /\ pc[l] = from /\ pc'[l] = to /\ \A k \in Lines \ {l} : pc'[k] = pc[k]
<1>1. pc \in [Lines -> Points]
  BY DEF TypeOK, Points
<1> QED
  BY <1>1 DEF Goto

\* A step that leaves the ring, the output and the consumer's line alone leaves
\* every line where it is.
LEMMA Quiet ==
  ASSUME IInv, m_max_size' = m_max_size, m_array' = m_array, m_size' = m_size,
         m_front' = m_front, m_back' = m_back, output' = output, single_log' = single_log,
         (consumer' = "write") <=> (consumer = "write"),
         \A l \in Lines : Logged(l)' <=> Logged(l)
  PROVE  RingClosed' /\ HoldsLines' /\ InOnePlace'
<1>1. Contents' = Contents
  BY Zenon DEF Contents
<1>2. RingClosed'
  BY Zenon DEF IInv, RingClosed
<1>3. HoldsLines'
  BY <1>1, Zenon DEF IInv, HoldsLines
<1>4. ASSUME NEW l \in Lines PROVE (Placed(l) = One(Logged(l)))'
  <2>1. Placed(l) = One(Logged(l))
    BY DEF IInv, InOnePlace
  <2>2. Times(l, Contents)' = Times(l, Contents) /\ Times(l, output)' = Times(l, output)
    BY <1>1, Zenon DEF Times
  <2>3. One(consumer = "write" /\ single_log = l)' = One(consumer = "write" /\ single_log = l)
    BY Zenon DEF One
  <2>4. One(Logged(l))' = One(Logged(l))
    BY Zenon DEF One
  <2> QED
    BY <2>1, <2>2, <2>3, <2>4, Zenon DEF Placed
<1> QED
  BY <1>2, <1>3, <1>4, Zenon DEF InOnePlace

\* The types of what a step leaves alone.
LEMMA SameRingTypes ==
  ASSUME TypeOK, m_max_size' = m_max_size, m_array' = m_array, m_size' = m_size,
         m_front' = m_front, m_back' = m_back
  PROVE  /\ m_max_size' \in Sizes
         /\ m_array' \in [0 .. m_max_size' - 1 -> Lines \cup {None}]
         /\ m_size' \in 0 .. m_max_size'
         /\ m_front' \in -1 .. m_max_size' - 1 /\ m_back' \in -1 .. m_max_size' - 1
BY Zenon DEF TypeOK

\* The files of the log are the same if it neither writes nor opens one.
LEMMA NamesKept == ASSUME TypeOK, UNCHANGED names PROVE FilesOK'
BY Zenon DEF TypeOK, FilesOK, names

\* Writing a line needs an open file and counts there.
LEMMA PutsOK == ASSUME TypeOK, NEW line, Puts(line) PROVE FilesOK'
<1>1. /\ m_fp \in DOMAIN lines /\ lines \in [DOMAIN lines -> Nat] /\ m_fp' = m_fp
      /\ opened' = opened /\ flips' = flips /\ lines' = [lines EXCEPT ![m_fp] = lines[m_fp] + 1]
  BY Zenon DEF TypeOK, FilesOK, Puts
<1>2. DOMAIN lines' = DOMAIN lines /\ lines' \in [DOMAIN lines -> Nat]
  BY <1>1
<1> QED
  BY <1>1, <1>2, Zenon DEF TypeOK, FilesOK

\* fopen leaves the lines of every file alone.
LEMMA OpenOK ==
  ASSUME TypeOK, NEW f \in Files, Open(f), flips' \in Nat
  PROVE  FilesOK'
<1>1. CASE m_fp' = None /\ UNCHANGED <<lines, opened>>
  BY <1>1, Zenon DEF TypeOK, FilesOK
<1>2. CASE ~ (m_fp' = None /\ UNCHANGED <<lines, opened>>)
  <2>1. PICK D : D = DOMAIN lines
    OBVIOUS
  <2>2. /\ D \subseteq Files /\ lines \in [D -> Nat] /\ opened \in [D -> Nat]
    BY <2>1 DEF TypeOK, FilesOK
  <2>3. /\ m_fp' = f
        /\ lines' = [g \in D \cup {f} |-> IF g \in D THEN lines[g] ELSE 0]
        /\ opened' = [g \in D \cup {f} |-> (IF g \in D THEN opened[g] ELSE 0) + (IF g = f THEN 1 ELSE 0)]
    BY <1>2, <2>1 DEF Open
  <2>4. lines' \in [D \cup {f} -> Nat] /\ opened' \in [D \cup {f} -> Nat]
    BY <2>2, <2>3
  <2>5. DOMAIN lines' = D \cup {f} /\ f \in DOMAIN lines' /\ DOMAIN lines' \subseteq Files
    BY <2>2, <2>3
  <2> QED
    BY <2>3, <2>4, <2>5, Zenon DEF FilesOK
<1> QED
  BY <1>1, <1>2 DEF Open

\* The contents of the ring form a sequence.
LEMMA ContentsType == ASSUME TypeOK PROVE Contents \in Seq(Lines \cup {None})
<1>0. PICK N : N = m_max_size
  OBVIOUS
<1>1. /\ N \in Nat /\ m_size \in 0 .. N /\ m_front \in -1 .. N - 1
      /\ m_array \in [0 .. N - 1 -> Lines \cup {None}]
  BY <1>0, LogAssumption DEF TypeOK
<1>2. ASSUME NEW i \in 1 .. m_size PROVE m_array[(m_front + i) % N] \in Lines \cup {None}
  <2>1. N \in Nat \ {0}
    BY <1>1
  <2>2. (m_front + i) % N \in 0 .. N - 1
    BY <1>1, <2>1
  <2> QED
    BY <1>1, <2>2
<1>3. Contents = [i \in 1 .. m_size |-> m_array[(m_front + i) % N]]
  BY <1>0 DEF Contents
<1> QED
  BY <1>1, <1>2, <1>3

\* What a call does before it has a line to hand over.
LEMMA StartStep == ASSUME IInv, NEW l \in Lines, Start(l) PROVE IInv'
<1>0. FilesOK'
  BY NamesKept, Zenon DEF IInv, Start, file
<1>1. Goto(l, "idle", "count")
  BY DEF Start
<1>2. pc' \in [Lines -> Points] /\ pc'[l] = "count" /\ pc[l] = "idle" /\ \A k \in Lines \ {l} : pc'[k] = pc[k]
  BY <1>1, Moves DEF IInv, Points
<1>3. /\ clock' = clock /\ m_mutex' = m_mutex /\ m_buf' = m_buf /\ m_count' = m_count /\ m_today' = m_today
      /\ output' = output /\ inFile' = inFile /\ m_max_size' = m_max_size /\ m_array' = m_array
      /\ m_size' = m_size /\ m_front' = m_front /\ m_back' = m_back /\ log_str' = log_str
      /\ consumer' = consumer /\ single_log' = single_log
  BY Zenon DEF Start, file, ring
<1>4. my_tm' \in [Lines -> 0 .. LastDay]
  <2>1. clock \in 0 .. LastDay /\ LastDay \in Nat /\ my_tm \in [Lines -> 0 .. LastDay]
    BY LogAssumption DEF IInv, TypeOK
  <2>2. PICK day \in 0 .. clock : my_tm' = [my_tm EXCEPT ![l] = day]
    BY DEF Start
  <2>3. day \in 0 .. LastDay
    BY <2>1
  <2> QED
    BY <2>1, <2>2, <2>3
<1>5. TypeOK'
  BY <1>0, <1>2, <1>3, <1>4, SameRingTypes, Zenon DEF IInv, TypeOK, Points
<1>6. \A k \in Lines : Logged(k)' <=> Logged(k)
  BY <1>2 DEF Logged
<1>7. RingClosed' /\ HoldsLines' /\ InOnePlace'
  BY <1>3, <1>6, Quiet, Zenon
<1>8. OwnBuffer' /\ OwnLine'
  BY <1>2, <1>3 DEF IInv, OwnBuffer, OwnLine
<1> QED
  BY <1>5, <1>7, <1>8, Zenon DEF IInv

LEMMA CountStep == ASSUME IInv, NEW l \in Lines, Count(l) PROVE IInv'
<1>1. Goto(l, "count", "format")
  BY DEF Count
<1>2. pc' \in [Lines -> Points] /\ pc'[l] = "format" /\ pc[l] = "count" /\ \A k \in Lines \ {l} : pc'[k] = pc[k]
  BY <1>1, Moves DEF IInv, Points
<1>3. /\ clock' = clock /\ m_mutex' = m_mutex /\ m_buf' = m_buf
      /\ output' = output /\ m_max_size' = m_max_size /\ m_array' = m_array
      /\ m_size' = m_size /\ m_front' = m_front /\ m_back' = m_back /\ log_str' = log_str
      /\ consumer' = consumer /\ single_log' = single_log
  BY Zenon DEF Count, ring
<1>4. m_count' \in Nat /\ m_today' \in 0 .. LastDay /\ my_tm[l] \in 0 .. LastDay
  BY DEF IInv, TypeOK, Count
<1>0. FilesOK' /\ inFile' \in Nat
  <2>1. flips' \in Nat
    BY DEF IInv, TypeOK, FilesOK, Count
  <2>2. CASE UNCHANGED <<m_fp, lines, opened, inFile>>
    <3>1. FilesOK'
      BY <2>1, <2>2, Zenon DEF IInv, TypeOK, FilesOK
    <3> QED
      BY <2>2, <3>1 DEF IInv, TypeOK
  <2>3. CASE Open(<<my_tm[l], m_count' \div MaxLines>>)
    <3>1. PICK m \in Nat : m = m_count'
      BY <1>4
    <3>2. m \div MaxLines \in Nat
      BY LogAssumption
    <3>3. <<my_tm[l], m_count' \div MaxLines>> \in Files
      BY <1>4, <3>1, <3>2, Zenon DEF Files
    <3>4. inFile' = 0
      BY <2>3 DEF Open
    <3> QED
      BY <2>1, <2>3, <3>3, <3>4, OpenOK DEF IInv
  <2> QED
    BY <2>2, <2>3, Zenon DEF Count
<1>5. my_tm' \in [Lines -> 0 .. LastDay]
  <2>1. 0 \in 0 .. LastDay /\ my_tm \in [Lines -> 0 .. LastDay]
    BY LogAssumption DEF IInv, TypeOK
  <2>2. my_tm' = [my_tm EXCEPT ![l] = 0]
    BY DEF Count
  <2> QED
    BY <2>1, <2>2
<1>6. TypeOK'
  BY <1>0, <1>2, <1>3, <1>4, <1>5, SameRingTypes, Zenon DEF IInv, TypeOK, Points
<1>7. \A k \in Lines : Logged(k)' <=> Logged(k)
  BY <1>2 DEF Logged
<1>8. RingClosed' /\ HoldsLines' /\ InOnePlace'
  BY <1>3, <1>7, Quiet, Zenon
<1>9. OwnBuffer' /\ OwnLine'
  BY <1>2, <1>3 DEF IInv, OwnBuffer, OwnLine
<1> QED
  BY <1>6, <1>8, <1>9, Zenon DEF IInv

\* The mutex is free, so that no other thread is between formatting and copy.
LEMMA FormatStep == ASSUME IInv, NEW l \in Lines, Format(l) PROVE IInv'
<1>0. FilesOK'
  BY NamesKept, Zenon DEF IInv, Format, file
<1>1. Goto(l, "format", "copy")
  BY DEF Format
<1>2. pc' \in [Lines -> Points] /\ pc'[l] = "copy" /\ pc[l] = "format" /\ \A k \in Lines \ {l} : pc'[k] = pc[k]
  BY <1>1, Moves DEF IInv, Points
<1>3. /\ clock' = clock /\ m_mutex' = l /\ m_buf' = l /\ m_count' = m_count /\ m_today' = m_today
      /\ output' = output /\ inFile' = inFile /\ m_max_size' = m_max_size /\ m_array' = m_array
      /\ m_size' = m_size /\ m_front' = m_front /\ m_back' = m_back /\ log_str' = log_str /\ my_tm' = my_tm
      /\ consumer' = consumer /\ single_log' = single_log
  BY Zenon DEF Format, file, ring, locals
<1>4. TypeOK'
  BY <1>0, <1>2, <1>3, SameRingTypes, Zenon DEF IInv, TypeOK, Points
<1>5. \A k \in Lines : Logged(k)' <=> Logged(k)
  BY <1>2 DEF Logged
<1>6. RingClosed' /\ HoldsLines' /\ InOnePlace'
  BY <1>3, <1>5, Quiet, Zenon
<1>7. \A k \in Lines : pc[k] # "copy"
  <2>1. m_mutex = None /\ \A k \in Lines : k # None
    BY LogAssumption DEF Format, Lines
  <2> QED
    BY <2>1 DEF IInv, OwnBuffer
<1>8. OwnBuffer' /\ OwnLine'
  BY <1>2, <1>3, <1>7 DEF IInv, OwnBuffer, OwnLine
<1> QED
  BY <1>4, <1>6, <1>8, Zenon DEF IInv

\* The line copied is the one this thread formatted.
LEMMA CopyStep == ASSUME IInv, NEW l \in Lines, CopyLine(l) PROVE IInv'
<1>0. FilesOK'
  BY NamesKept, Zenon DEF IInv, CopyLine, file
<1>1. Goto(l, "copy", "test")
  BY DEF CopyLine
<1>2. pc' \in [Lines -> Points] /\ pc'[l] = "test" /\ pc[l] = "copy" /\ \A k \in Lines \ {l} : pc'[k] = pc[k]
  BY <1>1, Moves DEF IInv, Points
<1>3. /\ clock' = clock /\ m_mutex' = None /\ m_buf' = None /\ m_count' = m_count /\ m_today' = m_today
      /\ output' = output /\ inFile' = inFile /\ m_max_size' = m_max_size /\ m_array' = m_array
      /\ m_size' = m_size /\ m_front' = m_front /\ m_back' = m_back /\ my_tm' = my_tm
      /\ consumer' = consumer /\ single_log' = single_log
  BY Zenon DEF CopyLine, file, ring
<1>4. m_mutex = l /\ m_buf = l
  BY <1>2 DEF IInv, OwnBuffer
<1>5. log_str' \in [Lines -> Lines \cup {None}] /\ log_str'[l] = l /\ \A k \in Lines \ {l} : log_str'[k] = log_str[k]
  <2>1. log_str \in [Lines -> Lines \cup {None}] /\ log_str' = [log_str EXCEPT ![l] = l]
    BY <1>4 DEF CopyLine, IInv, TypeOK
  <2> QED
    BY <2>1
<1>6. TypeOK'
  BY <1>0, <1>2, <1>3, <1>5, SameRingTypes, Zenon DEF IInv, TypeOK, Points
<1>7. \A k \in Lines : Logged(k)' <=> Logged(k)
  BY <1>2 DEF Logged
<1>8. RingClosed' /\ HoldsLines' /\ InOnePlace'
  BY <1>3, <1>7, Quiet, Zenon
<1>9. OwnBuffer'
  BY <1>2, <1>4 DEF IInv, OwnBuffer
<1>10. OwnLine'
  BY <1>2, <1>5 DEF IInv, OwnLine
<1> QED
  BY <1>6, <1>8, <1>9, <1>10, Zenon DEF IInv

LEMMA TestFullStep == ASSUME IInv, NEW l \in Lines, TestFull(l) PROVE IInv'
<1>0. FilesOK'
  BY NamesKept, Zenon DEF IInv, TestFull, file
<1>1. PICK to \in {"push", "put"} : Goto(l, "test", to)
  BY DEF TestFull
<1>2. pc' \in [Lines -> Points] /\ pc'[l] = to /\ pc[l] = "test" /\ \A k \in Lines \ {l} : pc'[k] = pc[k]
  BY <1>1, Moves DEF IInv, Points
<1>3. /\ clock' = clock /\ m_mutex' = m_mutex /\ m_buf' = m_buf /\ m_count' = m_count /\ m_today' = m_today
      /\ output' = output /\ inFile' = inFile /\ m_max_size' = m_max_size /\ m_array' = m_array
      /\ m_size' = m_size /\ m_front' = m_front /\ m_back' = m_back /\ log_str' = log_str /\ my_tm' = my_tm
      /\ consumer' = consumer /\ single_log' = single_log
  BY Zenon DEF TestFull, file, ring, locals
<1>4. TypeOK'
  BY <1>0, <1>2, <1>3, SameRingTypes, Zenon DEF IInv, TypeOK, Points
<1>5. \A k \in Lines : Logged(k)' <=> Logged(k)
  BY <1>2 DEF Logged
<1>6. RingClosed' /\ HoldsLines' /\ InOnePlace'
  BY <1>3, <1>5, Quiet, Zenon
<1>7. OwnBuffer' /\ OwnLine'
  BY <1>2, <1>3 DEF IInv, OwnBuffer, OwnLine
<1> QED
  BY <1>4, <1>6, <1>7, Zenon DEF IInv

\* A line leaves its call: it is now in the ring, at its end, or nowhere.
LEMMA PushStep == ASSUME IInv, NEW l \in Lines, Push(l) PROVE IInv'
<1>0. FilesOK'
  BY NamesKept, Zenon DEF IInv, Push, file
<1>1. /\ clock' = clock /\ m_mutex' = m_mutex /\ m_buf' = m_buf /\ m_count' = m_count /\ m_today' = m_today
      /\ output' = output /\ inFile' = inFile /\ m_max_size' = m_max_size
      /\ log_str' = log_str /\ my_tm' = my_tm /\ consumer' = consumer /\ single_log' = single_log
  BY Zenon DEF Push, file, locals
<1>2. CASE m_size >= m_max_size
  <2>1. Goto(l, "push", "refused") /\ UNCHANGED ring
    BY <1>2 DEF Push
  <2>2. pc' \in [Lines -> Points] /\ pc'[l] = "refused" /\ pc[l] = "push" /\ \A k \in Lines \ {l} : pc'[k] = pc[k]
    BY <2>1, Moves DEF IInv, Points
  <2>3. m_array' = m_array /\ m_size' = m_size /\ m_front' = m_front /\ m_back' = m_back
    BY <2>1, Zenon DEF ring
  <2>4. TypeOK'
    BY <1>0, <1>1, <2>2, <2>3, SameRingTypes, Zenon DEF IInv, TypeOK, Points
  <2>5. \A k \in Lines : Logged(k)' <=> Logged(k)
    BY <2>2 DEF Logged
  <2>6. RingClosed' /\ HoldsLines' /\ InOnePlace'
    BY <1>1, <2>3, <2>5, Quiet, Zenon
  <2>7. OwnBuffer' /\ OwnLine'
    BY <1>1, <2>2 DEF IInv, OwnBuffer, OwnLine
  <2> QED
    BY <2>4, <2>6, <2>7, Zenon DEF IInv
<1>3. CASE m_size < m_max_size
  <2>1. Goto(l, "push", "pushed") /\ Insert(log_str[l])
    <3>1. ~(m_size >= m_max_size)
      BY <1>3, LogAssumption DEF IInv, TypeOK
    <3> QED
      BY <3>1, Zenon DEF Push
  <2>2. pc' \in [Lines -> Points] /\ pc'[l] = "pushed" /\ pc[l] = "push" /\ \A k \in Lines \ {l} : pc'[k] = pc[k]
    BY <2>1, Moves DEF IInv, Points
  <2>3. Insert(l) /\ m_front' = m_front
    BY <2>1, <2>2 DEF IInv, OwnLine, Insert
  <2>4. /\ m_back' \in -1 .. m_max_size - 1 /\ m_size' \in 0 .. m_max_size
        /\ m_array' \in [0 .. m_max_size - 1 -> Lines \cup {None}]
        /\ RingClosed'
        /\ Contents \in Seq(Lines \cup {None}) /\ Contents' = Append(Contents, l)
    BY <1>1, <1>3, <2>3, PushAppends DEF IInv
  <2>5. TypeOK'
    BY <1>0, <1>1, <2>2, <2>3, <2>4, Zenon DEF IInv, TypeOK, Points
  <2>6. HoldsLines'
    <3>1. m_size \in Nat /\ m_size' = m_size + 1 /\ Len(Contents) = m_size
      <4>1. m_size \in Nat /\ m_size' = m_size + 1
        BY <2>3, LogAssumption DEF IInv, TypeOK, Insert
      <4>2. DOMAIN Contents = 1 .. m_size
        BY DEF Contents
      <4> QED
        BY <2>4, <4>1, <4>2
    <3>2. ASSUME NEW i \in 1 .. m_size' PROVE Contents'[i] \in Lines
      <4>1. CASE i = m_size + 1
        BY <2>4, <3>1, <4>1
      <4>2. CASE i \in 1 .. m_size
        <5>1. Contents[i] \in Lines
          BY <4>2 DEF IInv, HoldsLines
        <5>2. Contents'[i] = Contents[i]
          BY <2>4, <3>1, <4>2
        <5> QED
          BY <5>1, <5>2
      <4> QED
        BY <3>1, <4>1, <4>2
    <3> QED
      BY <1>1, <3>2 DEF IInv, HoldsLines
  <2>7. OwnBuffer' /\ OwnLine'
    BY <1>1, <2>2 DEF IInv, OwnBuffer, OwnLine
  <2>8. ASSUME NEW k \in Lines PROVE (Placed(k) = One(Logged(k)))'
    <3>1. Times(k, Contents)' = Times(k, Contents) + One(l = k)
      <4>1. Times(k, Append(Contents, l)) = Times(k, Contents) + One(l = k)
        BY <2>4, TimesAppend
      <4> QED
        BY <2>4, <4>1, Zenon DEF Times
    <3>2. Times(k, output)' = Times(k, output)
      BY <1>1, Zenon DEF Times
    <3>3. One(consumer = "write" /\ single_log = k)' = One(consumer = "write" /\ single_log = k)
      BY <1>1, Zenon DEF One
    <3>4. One(Logged(k))' = One(Logged(k)) + One(l = k)
      BY <2>2 DEF One, Logged
    <3>5. Times(k, Contents) \in Nat /\ Times(k, output) \in Nat
      BY <2>4, TimesType DEF IInv, TypeOK
    <3>6. One(consumer = "write" /\ single_log = k) \in Nat /\ One(Logged(k)) \in Nat /\ One(l = k) \in Nat
      BY DEF One
    <3>7. Placed(k) = One(Logged(k))
      BY DEF IInv, InOnePlace
    <3>8. PICK a, b, c, d, e \in Nat :
            /\ a = Times(k, Contents) /\ b = Times(k, output)
            /\ c = One(consumer = "write" /\ single_log = k) /\ d = One(Logged(k)) /\ e = One(l = k)
      BY <3>5, <3>6, Zenon
    <3>9. a + b + c = d
      BY <3>7, <3>8, Zenon DEF Placed
    <3>10. Placed(k)' = (a + e) + b + c /\ One(Logged(k))' = d + e
      BY <3>1, <3>2, <3>3, <3>4, <3>8, Zenon DEF Placed
    <3> QED
      BY <3>9, <3>10
  <2> QED
    BY <2>4, <2>5, <2>6, <2>7, <2>8, Zenon DEF IInv, InOnePlace
<1>4. m_size >= m_max_size \/ m_size < m_max_size
  BY LogAssumption DEF IInv, TypeOK
<1> QED
  BY <1>2, <1>3, <1>4, Zenon

LEMMA BroadcastStep == ASSUME IInv, NEW l \in Lines, Broadcast(l) PROVE IInv'
<1>0. FilesOK'
  BY NamesKept, Zenon DEF IInv, Broadcast, file
<1>1. PICK from \in {"pushed", "refused"}, to \in {"queued", "lost"} :
        Goto(l, from, to) /\ (from = "pushed" <=> to = "queued")
  BY DEF Broadcast
<1>2. pc' \in [Lines -> Points] /\ pc'[l] = to /\ pc[l] = from /\ \A k \in Lines \ {l} : pc'[k] = pc[k]
  BY <1>1, Moves DEF IInv, Points
<1>3. /\ clock' = clock /\ m_mutex' = m_mutex /\ m_buf' = m_buf /\ m_count' = m_count /\ m_today' = m_today
      /\ output' = output /\ inFile' = inFile /\ m_max_size' = m_max_size /\ m_array' = m_array
      /\ m_size' = m_size /\ m_front' = m_front /\ m_back' = m_back /\ my_tm' = my_tm
      /\ single_log' = single_log
  BY Zenon DEF Broadcast, file, ring
<1>4. consumer' \in {"absent", "pop", "asleep", "write"} /\ (consumer' = "write" <=> consumer = "write")
  BY DEF Broadcast, IInv, TypeOK
<1>5. log_str' \in [Lines -> Lines \cup {None}] /\ \A k \in Lines \ {l} : log_str'[k] = log_str[k]
  <2>1. log_str \in [Lines -> Lines \cup {None}] /\ log_str' = [log_str EXCEPT ![l] = None]
    BY DEF Broadcast, IInv, TypeOK
  <2> QED
    BY <2>1
<1>6. TypeOK'
  BY <1>0, <1>2, <1>3, <1>4, <1>5, SameRingTypes, Zenon DEF IInv, TypeOK, Points
<1>7. \A k \in Lines : Logged(k)' <=> Logged(k)
  BY <1>1, <1>2 DEF Logged
<1>8. RingClosed' /\ HoldsLines' /\ InOnePlace'
  BY <1>3, <1>4, <1>7, Quiet, Zenon
<1>9. OwnBuffer' /\ OwnLine'
  BY <1>2, <1>3, <1>5 DEF IInv, OwnBuffer, OwnLine
<1> QED
  BY <1>6, <1>8, <1>9, Zenon DEF IInv

\* A line leaves its call for the file.
LEMMA PutStep == ASSUME IInv, NEW l \in Lines, PutLine(l) PROVE IInv'
<1>0. FilesOK'
  BY PutsOK, Zenon DEF IInv, PutLine
<1>1. Goto(l, "put", "written")
  BY DEF PutLine
<1>2. pc' \in [Lines -> Points] /\ pc'[l] = "written" /\ pc[l] = "put" /\ \A k \in Lines \ {l} : pc'[k] = pc[k]
  BY <1>1, Moves DEF IInv, Points
<1>3. /\ clock' = clock /\ m_mutex' = m_mutex /\ m_buf' = m_buf /\ m_count' = m_count /\ m_today' = m_today
      /\ m_max_size' = m_max_size /\ m_array' = m_array
      /\ m_size' = m_size /\ m_front' = m_front /\ m_back' = m_back /\ my_tm' = my_tm
      /\ consumer' = consumer /\ single_log' = single_log
  BY Zenon DEF PutLine, Puts, ring
<1>4. log_str[l] = l
  BY <1>2 DEF IInv, OwnLine
<1>5. output' = Append(output, l) /\ output \in Seq(Lines) /\ output' \in Seq(Lines) /\ inFile' \in Nat
  BY <1>4 DEF PutLine, Puts, IInv, TypeOK
<1>6. log_str' \in [Lines -> Lines \cup {None}] /\ \A k \in Lines \ {l} : log_str'[k] = log_str[k]
  <2>1. log_str \in [Lines -> Lines \cup {None}] /\ log_str' = [log_str EXCEPT ![l] = None]
    BY DEF PutLine, IInv, TypeOK
  <2> QED
    BY <2>1
<1>7. TypeOK'
  BY <1>0, <1>2, <1>3, <1>5, <1>6, SameRingTypes, Zenon DEF IInv, TypeOK, Points
<1>8. Contents' = Contents
  BY <1>3, Zenon DEF Contents
<1>9. RingClosed' /\ HoldsLines'
  BY <1>3, <1>8, Zenon DEF IInv, RingClosed, HoldsLines
<1>10. OwnBuffer' /\ OwnLine'
  BY <1>2, <1>3, <1>6 DEF IInv, OwnBuffer, OwnLine
<1>11. ASSUME NEW k \in Lines PROVE (Placed(k) = One(Logged(k)))'
  <2>1. Times(k, output)' = Times(k, output) + One(l = k)
    <3>1. Times(k, Append(output, l)) = Times(k, output) + One(l = k)
      BY <1>5, TimesAppend
    <3> QED
      BY <1>5, <3>1, Zenon DEF Times
  <2>2. Times(k, Contents)' = Times(k, Contents)
    BY <1>8, Zenon DEF Times
  <2>3. One(consumer = "write" /\ single_log = k)' = One(consumer = "write" /\ single_log = k)
    BY <1>3, Zenon DEF One
  <2>4. One(Logged(k))' = One(Logged(k)) + One(l = k)
    BY <1>2 DEF One, Logged
  <2>5. Times(k, Contents) \in Nat /\ Times(k, output) \in Nat
    BY <1>5, ContentsType, TimesType DEF IInv
  <2>6. One(consumer = "write" /\ single_log = k) \in Nat /\ One(Logged(k)) \in Nat /\ One(l = k) \in Nat
    BY DEF One
  <2>7. Placed(k) = One(Logged(k))
    BY DEF IInv, InOnePlace
  <2>8. PICK a, b, c, d, e \in Nat :
          /\ a = Times(k, Contents) /\ b = Times(k, output)
          /\ c = One(consumer = "write" /\ single_log = k) /\ d = One(Logged(k)) /\ e = One(l = k)
    BY <2>5, <2>6, Zenon
  <2>9. a + b + c = d
    BY <2>7, <2>8, Zenon DEF Placed
  <2>10. Placed(k)' = a + (b + e) + c /\ One(Logged(k))' = d + e
    BY <2>1, <2>2, <2>3, <2>4, <2>8, Zenon DEF Placed
  <2> QED
    BY <2>9, <2>10
<1> QED
  BY <1>7, <1>9, <1>10, <1>11, Zenon DEF IInv, InOnePlace

LEMMA PopStep == ASSUME IInv, Pop PROVE IInv'
<1>0. FilesOK'
  BY NamesKept, Zenon DEF IInv, Pop, file
<1>1. /\ clock' = clock /\ m_mutex' = m_mutex /\ m_buf' = m_buf /\ m_count' = m_count /\ m_today' = m_today
      /\ output' = output /\ inFile' = inFile /\ m_max_size' = m_max_size /\ m_array' = m_array
      /\ m_back' = m_back /\ pc' = pc /\ log_str' = log_str /\ my_tm' = my_tm
  BY Zenon DEF Pop, file, locals
<1>2. consumer = "pop" /\ consumer' = "write" /\ consumer # "write"
  BY DEF Pop
<1>3. /\ m_front' \in -1 .. m_max_size - 1 /\ m_size' \in 0 .. m_max_size
      /\ RingClosed'
      /\ Contents \in Seq(Lines \cup {None}) /\ Contents # <<>>
      /\ Contents' = Tail(Contents) /\ m_array[m_front'] = Head(Contents)
  BY <1>1, PopTakes DEF Pop, IInv
<1>4. m_size \in Nat /\ m_size' = m_size - 1 /\ m_size > 0 /\ Len(Contents) = m_size
  <2>1. m_size \in Nat /\ m_size' = m_size - 1 /\ m_size > 0
    BY LogAssumption DEF Pop, IInv, TypeOK
  <2>2. DOMAIN Contents = 1 .. m_size
    BY DEF Contents
  <2> QED
    BY <1>3, <2>1, <2>2
<1>5. single_log' = Head(Contents) /\ Head(Contents) \in Lines
  <2>1. single_log' = m_array[m_front']
    BY DEF Pop
  <2>2. Contents[1] \in Lines
    BY <1>4 DEF IInv, HoldsLines
  <2>3. Head(Contents) = Contents[1]
    BY <1>3, <1>4
  <2> QED
    BY <1>3, <2>1, <2>2, <2>3, Zenon
<1>6. TypeOK'
  BY <1>0, <1>1, <1>2, <1>3, <1>5, Zenon DEF IInv, TypeOK
<1>7. HoldsLines'
  <2>1. ASSUME NEW i \in 1 .. m_size' PROVE Contents'[i] \in Lines
    <3>1. i + 1 \in 1 .. m_size
      BY <1>4
    <3>2. Contents'[i] = Contents[i + 1]
      BY <1>3, <1>4
    <3>3. Contents[i + 1] \in Lines
      BY <3>1 DEF IInv, HoldsLines
    <3> QED
      BY <3>2, <3>3
  <2> QED
    BY <1>5, <2>1 DEF HoldsLines
<1>8. OwnBuffer' /\ OwnLine'
  BY <1>1, Zenon DEF IInv, OwnBuffer, OwnLine
<1>9. ASSUME NEW k \in Lines PROVE (Placed(k) = One(Logged(k)))'
  <2>1. Times(k, Contents) = Times(k, Contents)' + One(Head(Contents) = k)
    <3>1. Times(k, Contents) = Times(k, Tail(Contents)) + One(Head(Contents) = k)
      BY <1>3, TimesTail
    <3> QED
      BY <1>3, <3>1, Zenon DEF Times
  <2>2. Times(k, output)' = Times(k, output)
    BY <1>1, Zenon DEF Times
  <2>3. One(consumer = "write" /\ single_log = k) = 0
    BY <1>2 DEF One
  <2>4. One(consumer = "write" /\ single_log = k)' = One(Head(Contents) = k)
    BY <1>2, <1>5, Zenon DEF One
  <2>5. One(Logged(k))' = One(Logged(k))
    BY <1>1, Zenon DEF One, Logged
  <2>6. Times(k, Contents)' \in Nat /\ Times(k, output) \in Nat /\ One(Head(Contents) = k) \in Nat
    <3>1. Tail(Contents) \in Seq(Lines \cup {None})
      BY <1>3
    <3>2. Times(k, Tail(Contents)) \in Nat
      BY <3>1, TimesType
    <3>3. Times(k, output) \in Nat
      BY TimesType DEF IInv, TypeOK
    <3>4. One(Head(Contents) = k) \in Nat
      BY DEF One
    <3> QED
      BY <1>3, <3>2, <3>3, <3>4, Zenon DEF Times
  <2>7. PICK a, b, e \in Nat : a = Times(k, Contents)' /\ b = Times(k, output) /\ e = One(Head(Contents) = k)
    BY <2>6, Zenon
  <2>8. (a + e) + b + 0 = One(Logged(k))
    <3>1. Placed(k) = One(Logged(k))
      BY DEF IInv, InOnePlace
    <3> QED
      BY <2>1, <2>3, <2>7, <3>1, Zenon DEF Placed
  <2>9. Placed(k)' = a + b + e
    BY <2>2, <2>4, <2>7, Zenon DEF Placed
  <2> QED
    BY <2>5, <2>8, <2>9
<1> QED
  BY <1>3, <1>6, <1>7, <1>8, <1>9, Zenon DEF IInv, InOnePlace

LEMMA WriteStep == ASSUME IInv, WritePopped PROVE IInv'
<1>0. FilesOK'
  BY PutsOK, Zenon DEF IInv, WritePopped
<1>1. /\ clock' = clock /\ m_mutex' = m_mutex /\ m_buf' = m_buf /\ m_count' = m_count /\ m_today' = m_today
      /\ m_max_size' = m_max_size /\ m_array' = m_array
      /\ m_size' = m_size /\ m_front' = m_front /\ m_back' = m_back /\ pc' = pc /\ log_str' = log_str /\ my_tm' = my_tm
      /\ single_log' = None
  BY Zenon DEF WritePopped, Puts, ring, locals
<1>2. consumer = "write" /\ consumer' = "pop" /\ consumer' # "write"
  BY DEF WritePopped
<1>3. single_log \in Lines
  BY <1>2 DEF IInv, HoldsLines
<1>4. output' = Append(output, single_log) /\ output \in Seq(Lines) /\ output' \in Seq(Lines) /\ inFile' \in Nat
  BY <1>3 DEF WritePopped, Puts, IInv, TypeOK
<1>5. TypeOK'
  BY <1>0, <1>1, <1>2, <1>4, SameRingTypes, Zenon DEF IInv, TypeOK
<1>6. Contents' = Contents
  BY <1>1, Zenon DEF Contents
<1>7. RingClosed' /\ HoldsLines'
  BY <1>1, <1>2, <1>6, Zenon DEF IInv, RingClosed, HoldsLines
<1>8. OwnBuffer' /\ OwnLine'
  BY <1>1, Zenon DEF IInv, OwnBuffer, OwnLine
<1>9. ASSUME NEW k \in Lines PROVE (Placed(k) = One(Logged(k)))'
  <2>1. Times(k, output)' = Times(k, output) + One(single_log = k)
    <3>1. Times(k, Append(output, single_log)) = Times(k, output) + One(single_log = k)
      BY <1>3, <1>4, TimesAppend
    <3> QED
      BY <1>4, <3>1, Zenon DEF Times
  <2>2. Times(k, Contents)' = Times(k, Contents)
    BY <1>6, Zenon DEF Times
  <2>3. One(consumer = "write" /\ single_log = k) = One(single_log = k)
    BY <1>2, Zenon DEF One
  <2>4. One(consumer = "write" /\ single_log = k)' = 0
    BY <1>2 DEF One
  <2>5. One(Logged(k))' = One(Logged(k))
    BY <1>1, Zenon DEF One, Logged
  <2>6. Times(k, Contents) \in Nat /\ Times(k, output) \in Nat
    BY <1>4, ContentsType, TimesType DEF IInv
  <2>7. One(single_log = k) \in Nat
    BY DEF One
  <2>8. PICK a, b, e \in Nat : a = Times(k, Contents) /\ b = Times(k, output) /\ e = One(single_log = k)
    BY <2>6, <2>7, Zenon
  <2>9. a + b + e = One(Logged(k))
    <3>1. Placed(k) = One(Logged(k))
      BY DEF IInv, InOnePlace
    <3> QED
      BY <2>3, <2>8, <3>1, Zenon DEF Placed
  <2>10. Placed(k)' = a + (b + e) + 0
    BY <2>1, <2>2, <2>4, <2>8, Zenon DEF Placed
  <2> QED
    BY <2>5, <2>9, <2>10
<1> QED
  BY <1>5, <1>7, <1>8, <1>9, Zenon DEF IInv, InOnePlace

\* The clock, the consumer's sleep and steps of others.
LEMMA IdleStep == ASSUME IInv, Midnight \/ Sleep \/ SpuriousWakeup \/ UNCHANGED vars PROVE IInv'
<1>0. FilesOK'
  BY NamesKept, Zenon DEF IInv, Midnight, Sleep, SpuriousWakeup, vars, file
<1>1. /\ m_mutex' = m_mutex /\ m_buf' = m_buf /\ m_count' = m_count /\ m_today' = m_today
      /\ output' = output /\ inFile' = inFile /\ m_max_size' = m_max_size /\ m_array' = m_array
      /\ m_size' = m_size /\ m_front' = m_front /\ m_back' = m_back /\ pc' = pc /\ log_str' = log_str /\ my_tm' = my_tm
      /\ single_log' = single_log
  BY Zenon DEF Midnight, Sleep, SpuriousWakeup, vars, file, ring, locals
<1>2. clock' \in 0 .. LastDay
  <2>1. clock' = clock \/ (clock < LastDay /\ clock' = clock + 1)
    BY Zenon DEF Midnight, Sleep, SpuriousWakeup, vars
  <2> QED
    BY <2>1, LogAssumption DEF IInv, TypeOK
<1>3. consumer' \in {"absent", "pop", "asleep", "write"} /\ (consumer' = "write" <=> consumer = "write")
  <2>1. \/ consumer' = consumer
        \/ consumer = "pop" /\ consumer' = "asleep"
        \/ consumer = "asleep" /\ consumer' = "pop"
    BY Zenon DEF Midnight, Sleep, SpuriousWakeup, vars
  <2> QED
    BY <2>1 DEF IInv, TypeOK
<1>4. TypeOK'
  BY <1>0, <1>1, <1>2, <1>3, SameRingTypes, Zenon DEF IInv, TypeOK
<1>5. \A k \in Lines : Logged(k)' <=> Logged(k)
  BY <1>1, Zenon DEF Logged
<1>6. RingClosed' /\ HoldsLines' /\ InOnePlace'
  BY <1>1, <1>3, <1>5, Quiet, Zenon
<1>7. OwnBuffer' /\ OwnLine'
  BY <1>1, Zenon DEF IInv, OwnBuffer, OwnLine
<1> QED
  BY <1>4, <1>6, <1>7, Zenon DEF IInv

\* Every step preserves the invariant.
LEMMA InvStep == ASSUME IInv, [Next]_vars PROVE IInv'
<1>1. CASE \E l \in Lines : WriteLog(l)
  <2>1. PICK l \in Lines : WriteLog(l)
    BY <1>1
  <2> QED
    BY <2>1, StartStep, CountStep, FormatStep, CopyStep, TestFullStep, PushStep, BroadcastStep, PutStep, Zenon DEF WriteLog, Continue
<1>2. CASE Pop
  BY <1>2, PopStep
<1>3. CASE WritePopped
  BY <1>3, WriteStep
<1>4. CASE Midnight \/ Sleep \/ SpuriousWakeup \/ UNCHANGED vars
  BY <1>4, IdleStep
<1> QED
  BY <1>1, <1>2, <1>3, <1>4, Zenon DEF Next, AsynWriteLog

\* The invariant holds in every reachable state.
LEMMA Invariance == Spec => []IInv
<1>1. IInv /\ [Next]_vars => IInv'
  BY InvStep
<1> QED
  BY <1>1, InitIInv, PTL DEF Spec
-----------------------------------------------------------------------------
(* Theorems *)

\* Every variable of the log keeps its type: above all, the ring never holds more
\* than m_max_size lines and its indices stay in range (block_queue.h).
THEOREM TypeCorrect == Spec => []TypeOK
<1>1. IInv => TypeOK
  BY DEF IInv
<1> QED
  BY <1>1, Invariance, PTL

\* Whatever the interleaving of the callers and of the consumer (log.cpp:58-142,
\* block_queue.h), a line that was pushed or written is in exactly one place, as
\* its own caller formatted it; only the lines push refused are nowhere.
THEOREM NoLineLost == Spec => []LinesAccounted
<1>1. IInv => LinesAccounted
  <2> SUFFICES ASSUME IInv, NEW l \in Lines
               PROVE  /\ pc[l] \in {"test", "push", "put"} => log_str[l] = l
                      /\ Times(l, Contents) + Times(l, output) + (IF consumer = "write" /\ single_log = l THEN 1 ELSE 0)
                           = IF pc[l] \in {"pushed", "queued", "written"} THEN 1 ELSE 0
    BY Zenon DEF LinesAccounted
  <2>1. pc[l] \in {"test", "push", "put"} => log_str[l] = l
    BY DEF IInv, OwnLine
  <2>2. Placed(l) = One(Logged(l))
    BY DEF IInv, InOnePlace
  <2> QED
    BY <2>1, <2>2, Zenon DEF Placed, Logged, One
<1> QED
  BY <1>1, Invariance, PTL
-----------------------------------------------------------------------------
(* The length of a file *)

At(P) == {l \in Lines : pc[l] \in P}

\* Between the count and the write, or the ring, or the loss.
Counted == {"format", "copy", "test", "push", "put"}
Running == Points \ {"idle", "queued", "lost", "written"}

\* Lines that were counted for some file and can still be written to this one.
OnWay == Cardinality(At(Counted)) + m_size + One(consumer = "write")

Slack == (Threads - 1) + (IF m_is_async THEN m_max_size + 1 ELSE 0)

\* FileBounded made inductive: m_count tells how many lines were counted for the
\* open file, and what is beyond them was on its way when it was opened.
FileCounted == inFile + OnWay <= (m_count % MaxLines) + 1 + Slack

FewActive == Cardinality(At(Running)) <= Threads

\* Without a ring there is no consumer.
ConsumerNeedsRing == consumer = "write" => m_is_async

\* What one opening of a file can bring into it.
Budget == MaxLines + Slack

\* The names of a day are taken in their order.  Only a step back to an earlier day
\* opens files again.
OpenedByFlips ==
  \A f \in DOMAIN lines :
    /\ opened[f] <= 1 + flips
    /\ f[1] > m_today \/ (f[1] = m_today /\ f[2] * MaxLines > m_count) => opened[f] <= flips

\* Every opening has brought at most Budget lines, the present one inFile so far.
FilesFilled ==
  \A f \in DOMAIN lines :
    /\ f # m_fp => lines[f] <= opened[f] * Budget
    /\ f = m_fp => lines[f] + Budget <= opened[f] * Budget + inFile

\* The inductive invariant behind FileBounded.
JInv == IInv /\ FewActive /\ ConsumerNeedsRing /\ FileCounted /\ OpenedByFlips /\ FilesFilled

\* The calls at given control points are counted by a number.
LEMMA AtType == ASSUME NEW P PROVE IsFiniteSet(At(P)) /\ Cardinality(At(P)) \in Nat
<1>1. IsFiniteSet(1 .. Calls)
  BY LogAssumption, FS_Interval
<1>2. At(P) \in SUBSET (1 .. Calls)
  BY DEF At, Lines
<1>3. IsFiniteSet(At(P))
  BY <1>1, <1>2, FS_Subset
<1> QED
  BY <1>3, FS_CardinalityType

\* A call that goes on changes the number of calls at given points by one at most.
LEMMA Tally ==
  ASSUME TypeOK, NEW P, NEW l \in Lines, NEW from, NEW to \in Points, Goto(l, from, to)
  PROVE  /\ from \in P /\ to \notin P => Cardinality(At(P)') = Cardinality(At(P)) - 1
         /\ from \notin P /\ to \in P => Cardinality(At(P)') = Cardinality(At(P)) + 1
         /\ (from \in P <=> to \in P) => Cardinality(At(P)') = Cardinality(At(P))
<1>1. pc[l] = from /\ pc'[l] = to /\ \A k \in Lines \ {l} : pc'[k] = pc[k]
  BY Moves
<1>2. CASE from \in P /\ to \notin P
  <2>1. At(P)' = At(P) \ {l} /\ l \in At(P)
    BY <1>1, <1>2 DEF At
  <2> QED
    BY <1>2, <2>1, AtType, FS_RemoveElement
<1>3. CASE from \notin P /\ to \in P
  <2>1. At(P)' = At(P) \cup {l} /\ l \notin At(P)
    BY <1>1, <1>3 DEF At
  <2> QED
    BY <1>3, <2>1, AtType, FS_AddElement
<1>4. CASE from \in P <=> to \in P
  <2>1. At(P)' = At(P)
    BY <1>1, <1>4 DEF At
  <2> QED
    BY <1>4, <2>1, Zenon
<1> QED
  BY <1>2, <1>3, <1>4

\* Active is what FewActive counts.
LEMMA ActiveRuns == ASSUME TypeOK PROVE Active = At(Running)
BY DEF TypeOK, Active, At, Running, Points

\* Starting needs a free thread, nothing else makes a call active.
LEMMA FewActiveStep ==
  ASSUME IInv, FewActive, [Next]_vars
  PROVE  FewActive'
<1>0. TypeOK /\ Cardinality(At(Running)) \in Nat /\ Threads \in Nat
  BY AtType, LogAssumption DEF IInv
<1>1. ASSUME pc' = pc PROVE FewActive'
  <2>1. At(Running)' = At(Running)
    BY <1>1 DEF At
  <2> QED
    BY <2>1, Zenon DEF FewActive
<1>2. ASSUME NEW l \in Lines, Start(l) PROVE FewActive'
  <2>1. Cardinality(At(Running)) < Threads
    BY <1>0, <1>2, ActiveRuns DEF Start
  <2>2. Goto(l, "idle", "count") /\ "count" \in Points /\ "idle" \notin Running /\ "count" \in Running
    BY <1>2 DEF Start, Points, Running
  <2>3. Cardinality(At(Running)') = Cardinality(At(Running)) + 1
    BY <1>0, <2>2, Tally
  <2> QED
    BY <1>0, <2>1, <2>3 DEF FewActive
<1>3. ASSUME NEW l \in Lines, NEW from \in Running, NEW to \in Points, Goto(l, from, to) PROVE FewActive'
  <2>1. Cardinality(At(Running)') \in {Cardinality(At(Running)), Cardinality(At(Running)) - 1}
    BY <1>0, <1>3, Tally
  <2> QED
    BY <1>0, <2>1 DEF FewActive
<1>4. ASSUME NEW l \in Lines, Continue(l) PROVE FewActive'
  <2>1. \E from \in Running, to \in Points : Goto(l, from, to)
    <3>1. Count(l) => Goto(l, "count", "format")
      BY DEF Count
    <3>2. Format(l) => Goto(l, "format", "copy")
      BY DEF Format
    <3>3. CopyLine(l) => Goto(l, "copy", "test")
      BY DEF CopyLine
    <3>4. TestFull(l) => Goto(l, "test", "push") \/ Goto(l, "test", "put")
      BY DEF TestFull
    <3>5. Push(l) => Goto(l, "push", "refused") \/ Goto(l, "push", "pushed")
      BY DEF Push
    <3>6. Broadcast(l) => Goto(l, "pushed", "queued") \/ Goto(l, "refused", "lost")
      BY DEF Broadcast
    <3>7. PutLine(l) => Goto(l, "put", "written")
      BY DEF PutLine
    <3>8. /\ {"count", "format", "copy", "test", "push", "put", "pushed", "refused"} \subseteq Running
          /\ {"format", "copy", "test", "push", "put", "refused", "pushed", "queued", "lost", "written"} \subseteq Points
      BY DEF Running, Points
    <3> QED
      BY <1>4, <3>1, <3>2, <3>3, <3>4, <3>5, <3>6, <3>7, <3>8 DEF Continue
  <2> QED
    BY <1>3, <2>1
<1>5. CASE Midnight \/ AsynWriteLog \/ SpuriousWakeup \/ UNCHANGED vars
  BY <1>1, <1>5, Zenon DEF Midnight, AsynWriteLog, Sleep, Pop, WritePopped, SpuriousWakeup, vars
<1> QED
  BY <1>2, <1>4, <1>5, Zenon DEF Next, WriteLog

\* A line on its way moves from one place to the next, and is written or lost.
LEMMA OnWayMoves ==
  ASSUME IInv, NEW a \in Int, NEW c \in Int, NEW s \in Int, NEW e \in Int,
         inFile' = inFile + a,
         Cardinality(At(Counted)') = Cardinality(At(Counted)) + c,
         m_size' = m_size + s,
         One(consumer = "write")' = One(consumer = "write") + e,
         a + c + s + e <= 0,
         m_count' = m_count, m_max_size' = m_max_size, FileCounted
  PROVE  FileCounted'
<1>1. inFile \in Nat /\ m_size \in Nat /\ One(consumer = "write") \in Nat /\ Cardinality(At(Counted)) \in Nat
  BY AtType, LogAssumption DEF IInv, TypeOK, One
<1>2. PICK f, k, n, o \in Nat :
        f = inFile /\ k = Cardinality(At(Counted)) /\ n = m_size /\ o = One(consumer = "write")
  BY <1>1, Zenon
<1>3. PICK r : r = (m_count % MaxLines) + 1 + Slack
  OBVIOUS
<1>4. r \in Int
  BY <1>3, LogAssumption DEF Slack, m_is_async, IInv, TypeOK
<1>5. ((m_count % MaxLines) + 1 + Slack)' = r
  BY <1>3, Zenon DEF Slack, m_is_async
<1>6. f + (k + n + o) <= r
  BY <1>2, <1>3, Zenon DEF FileCounted, OnWay
<1>7. (f + a) + ((k + c) + (n + s) + (o + e)) <= r
  BY <1>4, <1>6
<1>8. (inFile + OnWay)' = (f + a) + ((k + c) + (n + s) + (o + e))
  BY <1>2, Zenon DEF OnWay
<1> QED
  BY <1>5, <1>7, <1>8, Zenon DEF FileCounted

\* The lines of a file are counted up to m_max_lines.
LEMMA NextModulo ==
  ASSUME NEW N \in Nat \ {0}, NEW m \in Nat
  PROVE  m % N \in 0 .. N - 1 /\ ((m + 1) % N # 0 => (m + 1) % N = (m % N) + 1)
<1>0. m % N \in 0 .. N - 1
  OBVIOUS
<1> SUFFICES ASSUME (m + 1) % N # 0 PROVE (m + 1) % N = (m % N) + 1
  BY <1>0
<1>1. ASSUME NEW q \in Int, NEW r \in 0 .. N - 1 PROVE (N * q + r) % N = r
  OBVIOUS
<1>2. PICK q \in Int : q = m \div N
  OBVIOUS
<1>3. PICK r \in 0 .. N - 1 : r = m % N
  BY <1>0
<1>4. m = N * q + r
  BY <1>2, <1>3
<1>5. CASE r + 1 < N
  <2>1. m + 1 = N * q + (r + 1) /\ r + 1 \in 0 .. N - 1
    BY <1>4, <1>5
  <2>2. (N * q + (r + 1)) % N = r + 1
    BY <1>1, <2>1
  <2> QED
    BY <1>3, <2>1, <2>2
<1>6. CASE r + 1 = N
  <2>1. m + 1 = N * (q + 1) + 0
    BY <1>4, <1>6
  <2>2. (N * (q + 1) + 0) % N = 0
    BY <1>1
  <2> QED
    BY <2>1, <2>2
<1> QED
  BY <1>5, <1>6

\* Counting a line either fills the open file by one more, or opens a new one,
\* for which at most Slack + 1 lines are under way.
LEMMA CountKeepsBound ==
  ASSUME JInv, FewActive', NEW l \in Lines, Count(l)
  PROVE  FileCounted'
<1> USE DEF JInv
<1>1. /\ m_max_size' = m_max_size /\ m_size' = m_size /\ consumer' = consumer
      /\ Goto(l, "count", "format")
      /\ m_count' = IF m_today = my_tm[l] THEN m_count + 1 ELSE 0
      /\ inFile' = IF m_today = my_tm[l] /\ (m_count + 1) % MaxLines # 0 THEN inFile ELSE 0
  <2>1. inFile' = IF m_today = my_tm[l] /\ (m_count + 1) % MaxLines # 0 THEN inFile ELSE 0
    <3>1. CASE m_today = my_tm[l] /\ (m_count + 1) % MaxLines # 0
      BY <3>1, Zenon DEF Count
    <3>2. CASE ~ (m_today = my_tm[l] /\ (m_count + 1) % MaxLines # 0)
      BY <3>2, Zenon DEF Count, Open
    <3> QED
      BY <3>1, <3>2, Zenon
  <2> QED
    BY <2>1, Zenon DEF Count, ring
<1>2. Cardinality(At(Counted)') = Cardinality(At(Counted)) + 1
  <2>1. "format" \in Points /\ "format" \in Counted /\ "count" \notin Counted
    BY DEF Points, Counted
  <2> QED
    BY <1>1, <2>1, Tally DEF IInv
<1>3. inFile \in Nat /\ m_size \in Nat /\ One(consumer = "write") \in {0, 1} /\ Cardinality(At(Counted)) \in Nat
  BY AtType, LogAssumption DEF IInv, TypeOK, One
<1>4. PICK f, k, n, o \in Nat :
        f = inFile /\ k = Cardinality(At(Counted)) /\ n = m_size /\ o = One(consumer = "write")
  BY <1>3, Zenon
<1>5. PICK sl : sl = Slack
  OBVIOUS
<1>6. Slack' = sl
  BY <1>1, <1>5, Zenon DEF Slack, m_is_async
<1>7. sl \in Nat /\ k + 1 + n + o <= sl + 1
  <2>1. k + 1 <= Threads
    <3>1. At(Counted)' \in SUBSET (At(Running)') /\ IsFiniteSet(At(Running)')
      <4>1. IsFiniteSet(1 .. Calls)
        BY LogAssumption, FS_Interval
      <4>2. At(Running)' \in SUBSET (1 .. Calls)
        BY DEF At, Lines
      <4>3. IsFiniteSet(At(Running)')
        BY <4>1, <4>2, FS_Subset
      <4> QED
        BY <4>3 DEF At, Counted, Running, Points
    <3>2. Cardinality(At(Counted)') <= Cardinality(At(Running)') /\ Cardinality(At(Running)') \in Nat
      BY <3>1, FS_Subset, FS_CardinalityType
    <3> QED
      BY <1>2, <1>4, <3>2, LogAssumption DEF FewActive
  <2>2. n + o <= IF m_is_async THEN m_max_size + 1 ELSE 0
    BY <1>3, <1>4, LogAssumption DEF IInv, TypeOK, ConsumerNeedsRing, m_is_async, One
  <2>3. m_max_size \in Nat /\ Threads \in Nat \ {0}
    BY LogAssumption DEF IInv, TypeOK
  <2> QED
    BY <1>5, <2>1, <2>2, <2>3 DEF Slack
<1>8. f + (k + n + o) <= (m_count % MaxLines) + 1 + sl
  BY <1>4, <1>5, Zenon DEF FileCounted, OnWay
<1>9. OnWay' = (k + 1) + n + o
  <2>1. One(consumer = "write")' = o
    BY <1>1, <1>4, Zenon DEF One
  <2> QED
    BY <1>1, <1>2, <1>4, <2>1, Zenon DEF OnWay
<1>10. m_count \in Nat /\ MaxLines \in Nat \ {0}
  BY LogAssumption DEF IInv, TypeOK
<1>11. inFile' + ((k + 1) + n + o) <= (m_count' % MaxLines) + 1 + sl
  <2>1. CASE m_today = my_tm[l] /\ (m_count + 1) % MaxLines # 0
    <3>1. inFile' = f /\ m_count' = m_count + 1
      BY <1>1, <1>4, <2>1
    <3>2. (m_count + 1) % MaxLines = (m_count % MaxLines) + 1
      BY <1>10, <2>1, NextModulo
    <3>3. PICK r \in Nat : r = m_count % MaxLines
      BY <1>10
    <3>4. f + ((k + 1) + n + o) <= (r + 1) + 1 + sl
      BY <1>7, <1>8, <3>3
    <3> QED
      BY <3>1, <3>2, <3>3, <3>4
  <2>2. CASE ~ (m_today = my_tm[l] /\ (m_count + 1) % MaxLines # 0)
    <3>1. inFile' = 0 /\ m_count' \in Nat
      BY <1>1, <1>10, <2>2
    <3>2. m_count' % MaxLines \in Nat
      <4>1. PICK m \in Nat : m = m_count'
        BY <3>1
      <4>2. m % MaxLines \in Nat
        BY <1>10, NextModulo
      <4> QED
        BY <4>1, <4>2, Zenon
    <3>3. PICK r \in Nat : r = m_count' % MaxLines
      BY <3>2
    <3>4. 0 + ((k + 1) + n + o) <= r + 1 + sl
      BY <1>7, <3>3
    <3> QED
      BY <3>1, <3>3, <3>4, Zenon
  <2> QED
    BY <2>1, <2>2
<1> QED
  BY <1>6, <1>9, <1>11, Zenon DEF FileCounted

\* Every step keeps the bound.
LEMMA FileCountedStep ==
  ASSUME JInv, FewActive', [Next]_vars
  PROVE  FileCounted'
<1>0. IInv /\ FileCounted /\ TypeOK
  BY DEF JInv, IInv
<1>1. inFile \in Nat /\ m_size \in Nat /\ Cardinality(At(Counted)) \in Nat /\ One(consumer = "write") \in Nat
  BY <1>0, AtType, LogAssumption DEF TypeOK, One
<1>2. ASSUME inFile' = inFile, m_size' = m_size, m_count' = m_count, m_max_size' = m_max_size,
             consumer' = "write" <=> consumer = "write",
             Cardinality(At(Counted)') = Cardinality(At(Counted))
      PROVE  FileCounted'
  <2>1. One(consumer = "write")' = One(consumer = "write")
    BY <1>2 DEF One
  <2>2. /\ inFile' = inFile + 0 /\ m_size' = m_size + 0
        /\ Cardinality(At(Counted)') = Cardinality(At(Counted)) + 0
        /\ One(consumer = "write")' = One(consumer = "write") + 0
    BY <1>1, <1>2, <2>1
  <2> QED
    BY <1>0, <1>2, <2>2, OnWayMoves
<1>3. ASSUME NEW l \in Lines, NEW from, NEW to \in Points, Goto(l, from, to), from \in Counted <=> to \in Counted
      PROVE  Cardinality(At(Counted)') = Cardinality(At(Counted))
  BY <1>0, <1>3, Tally
<1>4. ASSUME NEW l \in Lines, NEW to \in {"written", "pushed", "refused"},
             Goto(l, "put", to) \/ Goto(l, "push", to)
      PROVE  Cardinality(At(Counted)') = Cardinality(At(Counted)) + (-1)
  <2>1. to \in Points /\ to \notin Counted /\ "put" \in Counted /\ "push" \in Counted
    BY <1>4 DEF Points, Counted
  <2>2. Cardinality(At(Counted)') = Cardinality(At(Counted)) - 1
    BY <1>0, <1>4, <2>1, Tally
  <2> QED
    BY <1>1, <2>2
<1>5. ASSUME NEW l \in Lines, Start(l) \/ Format(l) \/ CopyLine(l) \/ TestFull(l) \/ Broadcast(l)
      PROVE  FileCounted'
  <2>1. inFile' = inFile /\ m_size' = m_size /\ m_count' = m_count /\ m_max_size' = m_max_size
    BY <1>5, Zenon DEF Start, Format, CopyLine, TestFull, Broadcast, file, ring
  <2>2. consumer' = "write" <=> consumer = "write"
    BY <1>5 DEF Start, Format, CopyLine, TestFull, Broadcast
  <2>3. \E from, to \in Points : Goto(l, from, to) /\ (from \in Counted <=> to \in Counted)
    <3>1. Start(l) => Goto(l, "idle", "count")
      BY DEF Start
    <3>2. Format(l) => Goto(l, "format", "copy")
      BY DEF Format
    <3>3. CopyLine(l) => Goto(l, "copy", "test")
      BY DEF CopyLine
    <3>4. TestFull(l) => Goto(l, "test", "push") \/ Goto(l, "test", "put")
      BY DEF TestFull
    <3>5. Broadcast(l) => Goto(l, "pushed", "queued") \/ Goto(l, "refused", "lost")
      BY DEF Broadcast
    <3>6. /\ {"idle", "count", "pushed", "queued", "refused", "lost"} \cap Counted = {}
          /\ {"format", "copy", "test", "push", "put"} = Counted
          /\ {"idle", "count", "pushed", "queued", "refused", "lost"} \subseteq Points
          /\ {"format", "copy", "test", "push", "put"} \subseteq Points
      BY DEF Points, Counted
    <3> QED
      BY <1>5, <3>1, <3>2, <3>3, <3>4, <3>5, <3>6
  <2>4. Cardinality(At(Counted)') = Cardinality(At(Counted))
    BY <1>3, <2>3
  <2> QED
    BY <1>2, <2>1, <2>2, <2>4
<1>6. ASSUME NEW l \in Lines, Push(l) PROVE FileCounted'
  <2>1. inFile' = inFile /\ m_count' = m_count /\ m_max_size' = m_max_size /\ consumer' = consumer
    BY <1>6, Zenon DEF Push, file
  <2>2. inFile' = inFile + 0 /\ One(consumer = "write")' = One(consumer = "write") + 0
    <3>1. One(consumer = "write")' = One(consumer = "write")
      BY <2>1, Zenon DEF One
    <3> QED
      BY <1>1, <2>1, <3>1
  <2>3. Goto(l, "push", "refused") \/ Goto(l, "push", "pushed")
    BY <1>6 DEF Push
  <2>4. Cardinality(At(Counted)') = Cardinality(At(Counted)) + (-1)
    BY <1>4, <2>3
  <2>5. m_size' = m_size \/ m_size' = m_size + 1
    BY <1>6 DEF Push, Insert, ring
  <2>6. CASE m_size' = m_size
    <3>1. m_size' = m_size + 0
      BY <1>1, <2>6
    <3> QED
      BY <1>0, <2>1, <2>2, <2>4, <3>1, OnWayMoves
  <2>7. CASE m_size' = m_size + 1
    BY <1>0, <2>1, <2>2, <2>4, <2>7, OnWayMoves
  <2> QED
    BY <2>5, <2>6, <2>7
<1>7. ASSUME NEW l \in Lines, PutLine(l) PROVE FileCounted'
  <2>1. inFile' = inFile + 1 /\ m_count' = m_count /\ m_max_size' = m_max_size /\ consumer' = consumer /\ m_size' = m_size
    BY <1>7, Zenon DEF PutLine, Puts, ring
  <2>2. m_size' = m_size + 0 /\ One(consumer = "write")' = One(consumer = "write") + 0
    <3>1. One(consumer = "write")' = One(consumer = "write")
      BY <2>1, Zenon DEF One
    <3> QED
      BY <1>1, <2>1, <3>1
  <2>3. Cardinality(At(Counted)') = Cardinality(At(Counted)) + (-1)
    BY <1>4, <1>7 DEF PutLine
  <2> QED
    BY <1>0, <2>1, <2>2, <2>3, OnWayMoves
<1>8. CASE Pop
  <2>1. /\ inFile' = inFile /\ m_count' = m_count /\ m_max_size' = m_max_size /\ pc' = pc
        /\ consumer = "pop" /\ consumer' = "write" /\ m_size' = m_size - 1
    BY <1>8, Zenon DEF Pop, file
  <2>2. inFile' = inFile + 0 /\ m_size' = m_size + (-1)
    BY <1>1, <2>1
  <2>3. One(consumer = "write")' = One(consumer = "write") + 1
    BY <2>1 DEF One
  <2>4. Cardinality(At(Counted)') = Cardinality(At(Counted)) + 0
    <3>1. At(Counted)' = At(Counted)
      BY <2>1 DEF At
    <3> QED
      BY <1>1, <3>1
  <2> QED
    BY <1>0, <2>1, <2>2, <2>3, <2>4, OnWayMoves
<1>9. CASE WritePopped
  <2>1. /\ inFile' = inFile + 1 /\ m_count' = m_count /\ m_max_size' = m_max_size /\ pc' = pc
        /\ consumer = "write" /\ consumer' = "pop" /\ m_size' = m_size
    BY <1>9, Zenon DEF WritePopped, Puts, ring
  <2>2. m_size' = m_size + 0
    BY <1>1, <2>1
  <2>3. One(consumer = "write")' = One(consumer = "write") + (-1)
    BY <2>1 DEF One
  <2>4. Cardinality(At(Counted)') = Cardinality(At(Counted)) + 0
    <3>1. At(Counted)' = At(Counted)
      BY <2>1 DEF At
    <3> QED
      BY <1>1, <3>1
  <2> QED
    BY <1>0, <2>1, <2>2, <2>3, <2>4, OnWayMoves
<1>10. CASE Midnight \/ Sleep \/ SpuriousWakeup \/ UNCHANGED vars
  <2>1. inFile' = inFile /\ m_size' = m_size /\ m_count' = m_count /\ m_max_size' = m_max_size /\ pc' = pc
    BY <1>10, Zenon DEF Midnight, Sleep, SpuriousWakeup, vars, file, ring
  <2>2. consumer' = "write" <=> consumer = "write"
    BY <1>10 DEF Midnight, Sleep, SpuriousWakeup, vars
  <2>3. Cardinality(At(Counted)') = Cardinality(At(Counted))
    <3>1. At(Counted)' = At(Counted)
      BY <2>1 DEF At
    <3> QED
      BY <3>1, Zenon
  <2> QED
    BY <1>2, <2>1, <2>2, <2>3
<1> QED
  BY <1>5, <1>6, <1>7, <1>8, <1>9, <1>10, CountKeepsBound, Zenon DEF Next, AsynWriteLog, WriteLog, Continue

\* pop finds a line only in a ring.
LEMMA ConsumerStep ==
  ASSUME IInv, ConsumerNeedsRing, [Next]_vars
  PROVE  ConsumerNeedsRing'
<1>1. m_max_size' = m_max_size
  BY Zenon DEF Next, WriteLog, Continue, Start, Count, Format, CopyLine, TestFull, Push, Broadcast, PutLine,
               AsynWriteLog, Sleep, Pop, WritePopped, SpuriousWakeup, Midnight, vars
<1>2. CASE Pop
  <2>1. m_size > 0 /\ m_size \in 0 .. m_max_size /\ m_max_size \in Nat
    BY <1>2, LogAssumption DEF Pop, IInv, TypeOK
  <2>2. m_max_size > 0
    BY <2>1
  <2> QED
    BY <1>1, <2>2 DEF ConsumerNeedsRing, m_is_async
<1>3. CASE ~ Pop
  <2>1. consumer' = "write" => consumer = "write"
    BY <1>3 DEF Next, WriteLog, Continue, Start, Count, Format, CopyLine, TestFull, Push, Broadcast, PutLine,
                AsynWriteLog, Sleep, WritePopped, SpuriousWakeup, Midnight, vars
  <2> QED
    BY <1>1, <2>1 DEF ConsumerNeedsRing, m_is_async
<1> QED
  BY <1>2, <1>3

\* The names of the files that a step touches.
LEMMA FileSteps ==
  ASSUME [Next]_vars
  PROVE  /\ m_max_size' = m_max_size
         /\ \/ \E l \in Lines : Count(l)
            \/ \E line : Puts(line)
            \/ UNCHANGED file
BY Zenon DEF Next, WriteLog, Continue, Start, Count, Format, CopyLine, TestFull, Push, Broadcast, PutLine,
             AsynWriteLog, Sleep, Pop, WritePopped, SpuriousWakeup, Midnight, vars

\* No opening has brought more than Budget lines.
LEMMA WithinBudget ==
  ASSUME JInv
  PROVE  Slack \in Nat /\ Budget \in Nat /\ inFile \in Nat /\ inFile <= Budget
<1>1. inFile \in Nat /\ m_size \in Nat /\ One(consumer = "write") \in Nat /\ Cardinality(At(Counted)) \in Nat
  BY AtType, LogAssumption DEF JInv, IInv, TypeOK, One
<1>2. m_count % MaxLines \in 0 .. MaxLines - 1 /\ MaxLines \in Nat
  BY LogAssumption DEF JInv, IInv, TypeOK
<1>3. Slack \in Nat
  BY LogAssumption DEF Slack, m_is_async, JInv, IInv, TypeOK
<1>4. inFile <= MaxLines + Slack
  BY <1>1, <1>2, <1>3 DEF JInv, FileCounted, OnWay
<1> QED
  BY <1>1, <1>2, <1>3, <1>4 DEF Budget

\* A line is counted: which file is open then, and what counts for it.
LEMMA CountOpens ==
  ASSUME TypeOK, NEW l \in Lines, Count(l)
  PROVE  /\ my_tm[l] \in Nat /\ m_today \in Nat /\ m_count \in Nat
         /\ \/ /\ UNCHANGED <<m_fp, lines, opened, inFile, flips>>
               /\ m_today' = m_today /\ m_count' = m_count + 1
            \/ \E n \in Nat :
                 /\ Open(<<my_tm[l], n>>)
                 /\ m_today' = my_tm[l] /\ m_count' = n * MaxLines
                 /\ \/ my_tm[l] = m_today /\ m_count' > m_count /\ flips' = flips
                    \/ my_tm[l] > m_today /\ flips' = flips
                    \/ my_tm[l] < m_today /\ flips' = flips + 1
<1>1. my_tm[l] \in Nat /\ m_today \in Nat /\ m_count \in Nat /\ MaxLines \in Nat \ {0}
  BY LogAssumption DEF TypeOK
<1>2. /\ m_count' = IF m_today = my_tm[l] THEN m_count + 1 ELSE 0
      /\ m_today' = my_tm[l]
      /\ flips' = IF my_tm[l] < m_today THEN flips + 1 ELSE flips
  BY Zenon DEF Count
<1>3. CASE m_today = my_tm[l] /\ (m_count + 1) % MaxLines # 0
  <2>1. UNCHANGED <<m_fp, lines, opened, inFile>>
    BY <1>3, Zenon DEF Count
  <2> QED
    BY <1>1, <1>2, <1>3, <2>1
<1>4. CASE ~ (m_today = my_tm[l] /\ (m_count + 1) % MaxLines # 0)
  <2>1. PICK m \in Nat : m = m_count'
    BY <1>1, <1>2
  <2>2. m % MaxLines = 0
    BY <1>1, <1>2, <1>4, <2>1
  <2>3. PICK n \in Nat : n = m \div MaxLines
    BY <1>1
  <2>4. m = n * MaxLines
    BY <1>1, <2>2, <2>3
  <2>5. Open(<<my_tm[l], n>>)
    BY <1>4, <2>1, <2>3, Zenon DEF Count
  <2>6. \/ my_tm[l] = m_today /\ m_count' > m_count /\ flips' = flips
        \/ my_tm[l] > m_today /\ flips' = flips
        \/ my_tm[l] < m_today /\ flips' = flips + 1
    BY <1>1, <1>2
  <2> QED
    BY <1>1, <1>2, <2>1, <2>4, <2>5, <2>6
<1> QED
  BY <1>3, <1>4

\* The files after fopen.
LEMMA OpenAdds ==
  ASSUME TypeOK, NEW f, Open(f), NEW g \in DOMAIN lines'
  PROVE  /\ inFile' = 0
         /\ g # f => g \in DOMAIN lines
         /\ g \in DOMAIN lines => lines'[g] = lines[g]
         /\ g \in DOMAIN lines => opened'[g] = opened[g] \/ (g = f /\ m_fp' = f /\ opened'[g] = opened[g] + 1)
         /\ g \notin DOMAIN lines => m_fp' = f /\ lines'[g] = 0 /\ opened'[g] = 1
         /\ g = m_fp' => g = f /\ (g \in DOMAIN lines => opened'[g] = opened[g] + 1)
<1>1. CASE m_fp' = None /\ UNCHANGED <<lines, opened>>
  <2>1. None \notin DOMAIN lines
    <3>1. None \notin Files
      BY LogAssumption DEF Files
    <3> QED
      BY <3>1, Zenon DEF TypeOK, FilesOK
  <2>2. inFile' = 0 /\ lines' = lines /\ opened' = opened /\ m_fp' = None
    BY <1>1, Zenon DEF Open
  <2>3. g \in DOMAIN lines /\ g # m_fp'
    BY <2>1, <2>2, Zenon
  <2> QED
    BY <2>2, <2>3, Zenon
<1>2. CASE ~ (m_fp' = None /\ UNCHANGED <<lines, opened>>)
  <2>1. PICK D : D = DOMAIN lines
    OBVIOUS
  <2>2. /\ m_fp' = f /\ inFile' = 0
        /\ lines' = [h \in D \cup {f} |-> IF h \in D THEN lines[h] ELSE 0]
        /\ opened' = [h \in D \cup {f} |-> (IF h \in D THEN opened[h] ELSE 0) + (IF h = f THEN 1 ELSE 0)]
    BY <1>2, <2>1, Zenon DEF Open
  <2>3. opened \in [D -> Nat]
    BY <2>1, Zenon DEF TypeOK, FilesOK
  <2>4. /\ g \in D \cup {f}
        /\ lines'[g] = IF g \in D THEN lines[g] ELSE 0
        /\ opened'[g] = (IF g \in D THEN opened[g] ELSE 0) + (IF g = f THEN 1 ELSE 0)
    BY <2>2
  <2> QED
    BY <2>1, <2>2, <2>3, <2>4
<1> QED
  BY <1>1, <1>2, Zenon

\* A file is opened again under an old name only after a step back.
LEMMA OpenedStep ==
  ASSUME JInv, [Next]_vars
  PROVE  OpenedByFlips'
<1>0. /\ TypeOK /\ flips \in Nat /\ m_count \in Nat /\ m_today \in Nat /\ MaxLines \in Nat \ {0}
      /\ \A g \in DOMAIN lines : opened[g] \in Nat /\ g[1] \in Nat /\ g[2] \in Nat
  <2>1. TypeOK /\ FilesOK
    BY Zenon DEF JInv, IInv, TypeOK
  <2>2. \A g \in DOMAIN lines : g \in Files
    BY <2>1, Zenon DEF FilesOK
  <2>3. \A g \in Files : g[1] \in Nat /\ g[2] \in Nat
    BY LogAssumption DEF Files
  <2>4. \A g \in DOMAIN lines : opened[g] \in Nat
    BY <2>1 DEF FilesOK
  <2>5. flips \in Nat /\ m_count \in Nat /\ m_today \in Nat /\ MaxLines \in Nat \ {0}
    BY <2>1, LogAssumption DEF TypeOK, FilesOK
  <2> QED
    BY <2>1, <2>2, <2>3, <2>4, <2>5, Zenon
<1>1. ASSUME NEW g \in DOMAIN lines
      PROVE  /\ opened[g] <= 1 + flips
             /\ g[1] > m_today \/ (g[1] = m_today /\ g[2] * MaxLines > m_count) => opened[g] <= flips
  BY DEF JInv, OpenedByFlips
<1>2. CASE UNCHANGED <<m_count, m_today, opened, flips, DOMAIN lines>>
  BY <1>2, Zenon DEF JInv, OpenedByFlips
<1>3. ASSUME NEW l \in Lines, Count(l) PROVE OpenedByFlips'
  <2>1. CASE /\ UNCHANGED <<m_fp, lines, opened, inFile, flips>>
             /\ m_today' = m_today /\ m_count' = m_count + 1
    <3> SUFFICES ASSUME NEW g \in DOMAIN lines
                 PROVE  /\ opened[g] <= 1 + flips
                        /\ g[1] > m_today \/ (g[1] = m_today /\ g[2] * MaxLines > m_count + 1) => opened[g] <= flips
      BY <2>1, Zenon DEF OpenedByFlips
    <3>1. PICK p \in Nat : p = g[2] * MaxLines
      BY <1>0
    <3>2. p > m_count + 1 => p > m_count
      BY <1>0
    <3> QED
      BY <1>1, <3>1, <3>2, Zenon
  <2>2. ASSUME NEW n \in Nat, Open(<<my_tm[l], n>>), my_tm[l] \in Nat,
               m_today' = my_tm[l], m_count' = n * MaxLines,
               \/ my_tm[l] = m_today /\ m_count' > m_count /\ flips' = flips
               \/ my_tm[l] > m_today /\ flips' = flips
               \/ my_tm[l] < m_today /\ flips' = flips + 1
        PROVE  OpenedByFlips'
    <3>1. PICK f : f = <<my_tm[l], n>>
      OBVIOUS
    <3>2. PICK d \in Nat, m \in Nat, w \in Nat : d = my_tm[l] /\ m = n * MaxLines /\ w = flips'
      <4>1. n * MaxLines \in Nat
        BY <1>0
      <4>2. flips' \in Nat
        BY <1>0, <2>2
      <4> QED
        BY <2>2, <4>1, <4>2, Zenon
    <3>3. f[1] = d /\ f[2] = n /\ m_today' = d /\ m_count' = m
      BY <2>2, <3>1, <3>2
    <3>4. Open(f) /\ TypeOK
      BY <1>0, <2>2, <3>1, Zenon
    <3>5. ASSUME NEW g \in DOMAIN lines'
          PROVE  /\ opened'[g] <= 1 + w
                 /\ g[1] > d \/ (g[1] = d /\ g[2] * MaxLines > m) => opened'[g] <= w
      <4>1. /\ g # f => g \in DOMAIN lines
            /\ g \in DOMAIN lines => opened'[g] = opened[g] \/ (g = f /\ opened'[g] = opened[g] + 1)
            /\ g \notin DOMAIN lines => opened'[g] = 1
        BY <3>4, OpenAdds
      <4>2. \/ d = m_today /\ m > m_count /\ w = flips
            \/ d > m_today /\ w = flips
            \/ d < m_today /\ w = flips + 1
        BY <2>2, <3>2, <3>3
      <4>3. CASE g \notin DOMAIN lines
        <5>1. g[1] = d /\ g[2] * MaxLines = m
          BY <3>1, <3>2, <3>3, <4>1, <4>3
        <5> QED
          BY <4>1, <4>3, <5>1
      <4>4. CASE g \in DOMAIN lines
        <5>1. PICK o \in Nat, a \in Nat, p \in Nat : o = opened[g] /\ a = g[1] /\ p = g[2] * MaxLines
          BY <1>0, <4>4
        <5>2. /\ o <= 1 + flips
              /\ a > m_today \/ (a = m_today /\ p > m_count) => o <= flips
          BY <1>1, <4>4, <5>1, Zenon
        <5>3. CASE g = f
          <6>1. a = d /\ p = m
            BY <3>2, <3>3, <5>1, <5>3
          <6>2. o <= w
            BY <1>0, <4>2, <5>2, <6>1
          <6>3. opened'[g] \in {o, o + 1}
            BY <4>1, <4>4, <5>1, Zenon
          <6> QED
            BY <5>1, <6>1, <6>2, <6>3
        <5>4. CASE g # f
          <6>1. opened'[g] = o
            BY <4>1, <4>4, <5>1, <5>4, Zenon
          <6>2. o <= 1 + w /\ (a > d \/ (a = d /\ p > m) => o <= w)
            BY <1>0, <4>2, <5>2
          <6> QED
            BY <5>1, <6>1, <6>2, Zenon
        <5> QED
          BY <5>3, <5>4
      <4> QED
        BY <4>3, <4>4
    <3> QED
      BY <3>2, <3>3, <3>5, Zenon DEF OpenedByFlips
  <2> QED
    BY <1>0, <1>3, <2>1, <2>2, CountOpens, Zenon
<1>4. ASSUME NEW line, Puts(line) PROVE OpenedByFlips'
  <2>1. DOMAIN lines' = DOMAIN lines
    BY <1>4 DEF Puts
  <2> QED
    BY <1>2, <1>4, <2>1, Zenon DEF Puts
<1>5. CASE UNCHANGED file
  BY <1>2, <1>5, Zenon DEF file, names
<1> QED
  BY <1>3, <1>4, <1>5, FileSteps, Zenon

\* Budget lines more are allowed with every opening.
LEMMA FilledStep ==
  ASSUME JInv, [Next]_vars
  PROVE  FilesFilled'
<1>1. PICK K \in Nat : K = Budget
  BY WithinBudget
<1>2. Budget' = K
  BY <1>1, FileSteps, Zenon DEF Budget, Slack, m_is_async
<1>3. /\ TypeOK /\ inFile \in Nat /\ inFile <= K
      /\ \A g \in DOMAIN lines : opened[g] \in Nat /\ lines[g] \in Nat
  <2>1. TypeOK /\ FilesOK
    BY Zenon DEF JInv, IInv, TypeOK
  <2> QED
    BY <1>1, <2>1, WithinBudget DEF FilesOK
<1>4. ASSUME NEW g \in DOMAIN lines
      PROVE  /\ g # m_fp => lines[g] <= opened[g] * K
             /\ g = m_fp => lines[g] + K <= opened[g] * K + inFile
             /\ lines[g] <= opened[g] * K
             /\ opened[g] * K \in Nat /\ (opened[g] + 1) * K = opened[g] * K + K
  <2>1. /\ g # m_fp => lines[g] <= opened[g] * K
        /\ g = m_fp => lines[g] + K <= opened[g] * K + inFile
    BY <1>1, Zenon DEF JInv, FilesFilled
  <2>2. PICK o \in Nat : o = opened[g]
    BY <1>3
  <2>3. PICK p \in Nat : p = o * K
    OBVIOUS
  <2>4. (o + 1) * K = p + K
    BY <2>3
  <2>5. PICK n \in Nat : n = lines[g]
    BY <1>3
  <2>6. g = m_fp => n <= p
    <3>1. g = m_fp => n + K <= p + inFile
      BY <2>1, <2>2, <2>3, <2>5, Zenon
    <3> QED
      BY <1>3, <3>1
  <2> QED
    BY <2>1, <2>2, <2>3, <2>4, <2>5, <2>6, Zenon
<1>5. ASSUME UNCHANGED <<m_fp, lines, opened, inFile>> PROVE FilesFilled'
  BY <1>1, <1>2, <1>5, Zenon DEF JInv, FilesFilled
<1>6. ASSUME NEW l \in Lines, Count(l) PROVE FilesFilled'
  <2>1. ASSUME NEW f, Open(f) PROVE FilesFilled'
    <3> SUFFICES ASSUME NEW g \in DOMAIN lines'
                 PROVE  /\ g # m_fp' => lines'[g] <= opened'[g] * K
                        /\ g = m_fp' => lines'[g] + K <= opened'[g] * K + inFile'
      BY <1>2, Zenon DEF FilesFilled
    <3>1. /\ inFile' = 0
          /\ g \in DOMAIN lines => lines'[g] = lines[g]
          /\ g \in DOMAIN lines => opened'[g] = opened[g] \/ opened'[g] = opened[g] + 1
          /\ g \notin DOMAIN lines => m_fp' = f /\ g = f /\ lines'[g] = 0 /\ opened'[g] = 1
          /\ g = m_fp' /\ g \in DOMAIN lines => opened'[g] = opened[g] + 1
      BY <1>3, <2>1, OpenAdds
    <3>2. CASE g \notin DOMAIN lines
      <4>1. lines'[g] = 0 /\ opened'[g] = 1 /\ g = m_fp' /\ inFile' = 0
        BY <3>1, <3>2, Zenon
      <4> QED
        BY <4>1
    <3>3. CASE g \in DOMAIN lines
      <4>1. PICK n \in Nat, o \in Nat, p \in Nat :
              n = lines[g] /\ o = opened[g] /\ p = opened[g] * K
        BY <1>3, <1>4, <3>3
      <4>2. n <= p /\ (o + 1) * K = p + K /\ o * K = p
        BY <1>4, <3>3, <4>1
      <4>3. n + K <= p + K + 0 /\ n <= p + K
        BY <4>2
      <4>4. lines'[g] = n /\ inFile' = 0 /\ opened'[g] \in {o, o + 1} /\ (g = m_fp' => opened'[g] = o + 1)
        BY <3>1, <3>3, <4>1, Zenon
      <4>5. g = m_fp' => lines'[g] + K <= opened'[g] * K + inFile'
        BY <4>2, <4>3, <4>4, Zenon
      <4>6. lines'[g] <= opened'[g] * K
        <5>1. CASE opened'[g] = o
          BY <4>2, <4>4, <5>1, Zenon
        <5>2. CASE opened'[g] = o + 1
          BY <4>2, <4>3, <4>4, <5>2, Zenon
        <5> QED
          BY <4>4, <5>1, <5>2
      <4> QED
        BY <4>5, <4>6
    <3> QED
      BY <3>2, <3>3
  <2> QED
    BY <1>3, <1>5, <1>6, <2>1, CountOpens, Zenon
<1>7. ASSUME NEW line, Puts(line) PROVE FilesFilled'
  <2>1. /\ inFile' = inFile + 1 /\ m_fp' = m_fp /\ opened' = opened
        /\ DOMAIN lines' = DOMAIN lines
        /\ \A g \in DOMAIN lines : lines'[g] = IF g = m_fp THEN lines[g] + 1 ELSE lines[g]
    BY <1>7, <1>3 DEF Puts
  <2> SUFFICES ASSUME NEW g \in DOMAIN lines
               PROVE  /\ g # m_fp => lines'[g] <= opened[g] * K
                      /\ g = m_fp => lines'[g] + K <= opened[g] * K + inFile'
    BY <1>2, <2>1, Zenon DEF FilesFilled
  <2>2. CASE g # m_fp
    BY <1>4, <2>1, <2>2, Zenon
  <2>3. CASE g = m_fp
    <3>1. PICK n \in Nat, p \in Nat : n = lines[g] /\ p = opened[g] * K
      BY <1>3, <1>4
    <3>2. n + K <= p + inFile
      BY <1>4, <2>3, <3>1, Zenon
    <3>3. (n + 1) + K <= p + (inFile + 1)
      BY <1>3, <3>2
    <3>4. lines'[g] = n + 1 /\ inFile' = inFile + 1
      BY <2>1, <2>3, <3>1, Zenon
    <3> QED
      BY <2>3, <3>1, <3>3, <3>4, Zenon
  <2> QED
    BY <2>2, <2>3
<1>8. CASE UNCHANGED file
  BY <1>5, <1>8, Zenon DEF file, names
<1> QED
  BY <1>6, <1>7, <1>8, FileSteps, Zenon

\* An empty file and nothing on its way.
LEMMA InitJInv == Init => JInv
<1> SUFFICES ASSUME Init PROVE JInv
  OBVIOUS
<1>1. At(Running) = {} /\ At(Counted) = {}
  BY DEF Init, At, Running, Counted, Points
<1>2. Cardinality(At(Running)) = 0 /\ Cardinality(At(Counted)) = 0
  BY <1>1, FS_EmptySet
<1>3. consumer # "write" /\ inFile = 0 /\ m_size = 0 /\ m_count = 0 /\ m_max_size \in Nat
  BY LogAssumption DEF Init
<1>4. FewActive /\ ConsumerNeedsRing
  BY <1>2, <1>3, LogAssumption DEF FewActive, ConsumerNeedsRing
<1>5. FileCounted
  <2>1. inFile + OnWay = 0
    BY <1>2, <1>3 DEF OnWay, One
  <2>2. Slack \in Nat /\ m_count % MaxLines = 0
    BY <1>3, LogAssumption DEF Slack, m_is_async
  <2> QED
    BY <2>1, <2>2 DEF FileCounted
<1>6. OpenedByFlips /\ FilesFilled
  <2>1. /\ flips = 0 /\ DOMAIN lines = {m_fp} \ {None}
        /\ \A f \in DOMAIN lines : opened[f] = 1 /\ lines[f] = 0 /\ f = <<0, 0>> /\ f = m_fp /\ m_today = 0
    BY DEF Init
  <2>2. Budget \in Nat /\ MaxLines \in Nat \ {0}
    BY <1>3, LogAssumption DEF Budget, Slack, m_is_async
  <2>3. OpenedByFlips
    BY <1>3, <2>1, <2>2 DEF OpenedByFlips
  <2>4. FilesFilled
    BY <1>3, <2>1, <2>2 DEF FilesFilled
  <2> QED
    BY <2>3, <2>4
<1> QED
  BY <1>4, <1>5, <1>6, InitIInv DEF JInv

\* A log file gets at most m_max_lines lines and what can be on its way when it
\* is opened (one line per other thread, the ring, and the line the consumer
\* holds), and as much again for every time the log went back to an earlier day
\* and so counted from 0 in a file opened with "a" (log.cpp:94-141).  For any
\* number of calls, threads and days.
THEOREM FilesStayBounded == Spec => []FileBounded
<1>1. JInv /\ [Next]_vars => JInv'
  <2> SUFFICES ASSUME JInv, [Next]_vars PROVE JInv'
    OBVIOUS
  <2>1. FewActive' /\ ConsumerNeedsRing' /\ OpenedByFlips' /\ FilesFilled'
    BY FewActiveStep, ConsumerStep, OpenedStep, FilledStep DEF JInv
  <2> QED
    BY <2>1, InvStep, FileCountedStep DEF JInv
<1>2. JInv => FileBounded
  <2> SUFFICES ASSUME JInv PROVE FileBounded
    OBVIOUS
  <2> SUFFICES ASSUME NEW f \in DOMAIN lines PROVE lines[f] <= (1 + flips) * Budget
    <3>1. /\ m_max_size \in Nat /\ Threads \in Nat /\ MaxLines \in Nat
      BY LogAssumption DEF JInv, IInv, TypeOK
    <3>2. PICK x \in Nat : x = IF m_is_async THEN m_max_size + 1 ELSE 0
      BY <3>1
    <3>3. MaxLines + (Threads - 1) + x = MaxLines + ((Threads - 1) + x)
      BY <3>1
    <3> QED
      BY <3>2, <3>3, Zenon DEF FileBounded, Budget, Slack
  <2>1. PICK K \in Nat : K = Budget
    BY WithinBudget
  <2>2. inFile \in Nat /\ inFile <= K
    BY <2>1, WithinBudget
  <2>3. PICK n \in Nat, o \in Nat, w \in Nat : n = lines[f] /\ o = opened[f] /\ w = flips
    BY DEF JInv, IInv, TypeOK, FilesOK
  <2>4. o <= 1 + w
    BY <2>3, Zenon DEF JInv, OpenedByFlips
  <2>5. PICK p \in Nat, q \in Nat : p = o * K /\ q = (1 + w) * K
    OBVIOUS
  <2>6. p <= q
    <3>1. PICK e \in Nat : 1 + w = o + e
      BY <2>4
    <3>2. PICK r \in Nat : r = e * K
      OBVIOUS
    <3>3. q = p + r
      BY <2>5, <3>1, <3>2
    <3> QED
      BY <3>3
  <2>7. n <= p
    <3>1. f # m_fp => n <= p
      BY <2>1, <2>3, <2>5, Zenon DEF JInv, FilesFilled
    <3>2. f = m_fp => n + K <= p + inFile
      BY <2>1, <2>3, <2>5, Zenon DEF JInv, FilesFilled
    <3> QED
      BY <2>2, <3>1, <3>2
  <2>8. n <= q
    BY <2>6, <2>7
  <2> QED
    BY <2>1, <2>3, <2>5, <2>8, Zenon
<1> QED
  BY <1>1, <1>2, InitJInv, PTL DEF Spec
-----------------------------------------------------------------------------
(* What is left of a sequence *)

\* f gives what is left of the first i elements of s, for every i up to m.
Filters(f, s, S, m) ==
  f = [i \in 0 .. m |-> IF i = 0 THEN <<>> ELSE IF s[i] \in S THEN Append(f[i - 1], s[i]) ELSE f[i - 1]]

\* A set of natural numbers has a smallest element.
LEMMA LeastNat ==
  ASSUME NEW S, S \subseteq Nat, S # {}
  PROVE  \E x \in S : \A y \in S : x <= y
<1> DEFINE less == {ss \in Nat \X Nat : ss[1] < ss[2]}
<1>1. IsWellFoundedOn(less, Nat)
  BY NatLessThanWellFounded DEF OpToRel
<1>2. \E x \in S : \A y \in S : ~ (<<y, x>> \in less)
  <2> HIDE DEF less
  <2> QED
    BY <1>1, WFMin
<1>3. PICK x \in S : \A y \in S : ~ (<<y, x>> \in less)
  BY <1>2
<1>4. \A y \in S : ~ (y < x)
  BY <1>3
<1> QED
  BY <1>3, <1>4

\* The recursion has a solution: one for i - 1 elements gives one for i.
LEMMA FilterExists ==
  ASSUME NEW s, NEW S, NEW n \in Nat
  PROVE  \E f : Filters(f, s, S, n)
<1> DEFINE bad == {m \in 0 .. n : ~ \E f : Filters(f, s, S, m)}
<1> SUFFICES ASSUME bad # {} PROVE FALSE
  OBVIOUS
<1>1. PICK m \in bad : \A k \in bad : m <= k
  <2>1. bad \subseteq Nat
    OBVIOUS
  <2> HIDE DEF bad
  <2> QED
    BY <2>1, LeastNat
<1>2. m # 0
  <2> DEFINE f == [i \in 0 .. 0 |-> <<>>]
  <2>1. Filters(f, s, S, 0)
    <3>1. f = [i \in 0 .. 0 |-> IF i = 0 THEN <<>> ELSE IF s[i] \in S THEN Append(f[i - 1], s[i]) ELSE f[i - 1]]
      OBVIOUS
    <3> HIDE DEF f
    <3> QED
      BY <3>1 DEF Filters
  <2> HIDE DEF f
  <2> QED
    BY <1>1, <2>1
<1>3. m \in 1 .. n /\ m - 1 \in 0 .. n /\ m - 1 \notin bad
  BY <1>1, <1>2
<1>4. PICK f : Filters(f, s, S, m - 1)
  BY <1>3
<1> DEFINE g == [i \in 0 .. m |-> IF i < m THEN f[i] ELSE IF s[m] \in S THEN Append(f[m - 1], s[m]) ELSE f[m - 1]]
<1>5. \A i \in 0 .. m - 1 : f[i] = IF i = 0 THEN <<>> ELSE IF s[i] \in S THEN Append(f[i - 1], s[i]) ELSE f[i - 1]
  BY <1>3, <1>4 DEF Filters
<1>6. ASSUME NEW i \in 0 .. m
      PROVE  g[i] = IF i = 0 THEN <<>> ELSE IF s[i] \in S THEN Append(g[i - 1], s[i]) ELSE g[i - 1]
  <2>1. CASE i = m
    <3>1. i # 0 /\ i - 1 \in 0 .. m /\ i - 1 < m
      BY <1>3, <2>1
    <3>2. g[i - 1] = f[m - 1]
      BY <2>1, <3>1
    <3>3. g[i] = IF s[i] \in S THEN Append(f[m - 1], s[i]) ELSE f[m - 1]
      BY <1>3, <2>1
    <3> HIDE DEF g
    <3> QED
      BY <3>1, <3>2, <3>3
  <2>2. CASE i # m
    <3>1. i \in 0 .. m - 1 /\ i < m /\ (i # 0 => i - 1 \in 0 .. m /\ i - 1 < m)
      BY <1>3, <2>2
    <3>2. g[i] = f[i] /\ (i # 0 => g[i - 1] = f[i - 1])
      BY <3>1
    <3> HIDE DEF g
    <3> QED
      BY <1>5, <3>1, <3>2
  <2> QED
    BY <2>1, <2>2
<1>7. g = [i \in 0 .. m |-> IF i = 0 THEN <<>> ELSE IF s[i] \in S THEN Append(g[i - 1], s[i]) ELSE g[i - 1]]
  <2>1. g = [i \in 0 .. m |-> g[i]]
    OBVIOUS
  <2> HIDE DEF g
  <2> QED
    BY <1>6, <2>1
<1>8. Filters(g, s, S, m)
  <2> HIDE DEF g
  <2> QED
    BY <1>7 DEF Filters
<1> HIDE DEF g
<1> QED
  BY <1>1, <1>8

\* What is left of two sequences is the same up to where they agree.
LEMMA FiltersAgree ==
  ASSUME NEW s, NEW r, NEW S, NEW T, NEW m \in Nat, NEW n \in Nat, NEW k \in 0 .. m, k <= n,
         NEW f, NEW g, Filters(f, s, S, m), Filters(g, r, T, n),
         \A i \in 1 .. k : s[i] = r[i] /\ (s[i] \in S <=> r[i] \in T)
  PROVE  f[k] = g[k]
<1> DEFINE bad == {i \in 0 .. k : f[i] # g[i]}
<1> SUFFICES ASSUME bad # {} PROVE FALSE
  OBVIOUS
<1>1. PICK j \in bad : \A i \in bad : j <= i
  <2>1. bad \subseteq Nat
    OBVIOUS
  <2> HIDE DEF bad
  <2> QED
    BY <2>1, LeastNat
<1>2. \A i \in 0 .. m : f[i] = IF i = 0 THEN <<>> ELSE IF s[i] \in S THEN Append(f[i - 1], s[i]) ELSE f[i - 1]
  BY DEF Filters
<1>3. \A i \in 0 .. n : g[i] = IF i = 0 THEN <<>> ELSE IF r[i] \in T THEN Append(g[i - 1], r[i]) ELSE g[i - 1]
  BY DEF Filters
<1>4. j \in 0 .. m /\ j \in 0 .. n /\ f[j] # g[j]
  BY <1>1
<1>5. j # 0
  BY <1>2, <1>3, <1>4
<1>6. j \in 1 .. k /\ j - 1 \in 0 .. k /\ f[j - 1] = g[j - 1]
  BY <1>1, <1>5
<1>7. s[j] = r[j] /\ (s[j] \in S <=> r[j] \in T)
  BY <1>6
<1> QED
  BY <1>2, <1>3, <1>4, <1>5, <1>6, <1>7

LEMMA KeptIs ==
  ASSUME NEW s, NEW S, Len(s) \in Nat
  PROVE  \E f : Filters(f, s, S, Len(s)) /\ Kept(s, S) = f[Len(s)]
<1> DEFINE f == CHOOSE f : f = [i \in 0 .. Len(s) |-> IF i = 0 THEN <<>>
                                                     ELSE IF s[i] \in S THEN Append(f[i - 1], s[i]) ELSE f[i - 1]]
<1>1. Kept(s, S) = f[Len(s)]
  BY DEF Kept
<1>2. \E g : Filters(g, s, S, Len(s))
  BY FilterExists
<1>3. Filters(f, s, S, Len(s))
  BY <1>2 DEF Filters
<1> HIDE DEF f
<1> QED
  BY <1>1, <1>3

\* Nothing is left of nothing.
LEMMA KeptNone == ASSUME NEW S PROVE Kept(<<>>, S) = <<>>
<1>1. PICK s \in Seq({}) : s = <<>> /\ Len(s) = 0
  <2>1. <<>> \in Seq({}) /\ Len(<<>>) = 0
    OBVIOUS
  <2> QED
    BY <2>1, Zenon
<1>2. PICK f : Filters(f, s, S, 0) /\ Kept(s, S) = f[0]
  BY <1>1, KeptIs
<1>3. f[0] = <<>>
  BY <1>2 DEF Filters
<1> QED
  BY <1>1, <1>2, <1>3, Zenon

\* Another set leaves the same if it has the same elements of the sequence.
LEMMA KeptSame ==
  ASSUME NEW s, NEW S, NEW T, Len(s) \in Nat, \A i \in 1 .. Len(s) : s[i] \in S <=> s[i] \in T
  PROVE  Kept(s, S) = Kept(s, T)
<1>1. PICK f : Filters(f, s, S, Len(s)) /\ Kept(s, S) = f[Len(s)]
  BY KeptIs
<1>2. PICK g : Filters(g, s, T, Len(s)) /\ Kept(s, T) = g[Len(s)]
  BY KeptIs
<1>3. f[Len(s)] = g[Len(s)]
  BY <1>1, <1>2, FiltersAgree
<1> QED
  BY <1>1, <1>2, <1>3

LEMMA KeptAppend ==
  ASSUME NEW R, NEW s \in Seq(R), NEW x \in R, NEW S
  PROVE  Kept(Append(s, x), S) = IF x \in S THEN Append(Kept(s, S), x) ELSE Kept(s, S)
<1> DEFINE n == Len(s)
<1>1. PICK r \in Seq(R) : /\ r = Append(s, x) /\ Len(r) = n + 1 /\ r[n + 1] = x
                          /\ \A i \in 1 .. n : r[i] = s[i]
  <2>1. /\ Append(s, x) \in Seq(R) /\ Len(Append(s, x)) = n + 1 /\ Append(s, x)[n + 1] = x
        /\ \A i \in 1 .. n : Append(s, x)[i] = s[i]
    OBVIOUS
  <2> QED
    BY <2>1
<1>2. n \in Nat /\ n + 1 \in Nat /\ n \in 0 .. n + 1 /\ n + 1 \in 0 .. n + 1 /\ n + 1 # 0 /\ (n + 1) - 1 = n
  OBVIOUS
<1>3. PICK f : Filters(f, s, S, n) /\ Kept(s, S) = f[n]
  BY <1>2, KeptIs
<1>4. PICK g : Filters(g, r, S, n + 1) /\ Kept(r, S) = g[n + 1]
  BY <1>1, <1>2, KeptIs
<1> HIDE DEF n
<1>5. f[n] = g[n]
  <2>1. \A i \in 1 .. n : s[i] = r[i] /\ (s[i] \in S <=> r[i] \in S)
    BY <1>1
  <2>2. /\ n \in Nat /\ n + 1 \in Nat /\ n \in 0 .. n /\ n <= n + 1
        /\ Filters(f, s, S, n) /\ Filters(g, r, S, n + 1)
    BY <1>2, <1>3, <1>4
  <2> QED
    BY <2>1, <2>2, FiltersAgree, SMTT(30)
<1>6. g[n + 1] = IF r[n + 1] \in S THEN Append(g[(n + 1) - 1], r[n + 1]) ELSE g[(n + 1) - 1]
  BY <1>2, <1>4 DEF Filters
<1> QED
  BY <1>1, <1>2, <1>3, <1>4, <1>5, <1>6
-----------------------------------------------------------------------------
(* The ring is a queue *)

\* A call that wrote its line itself has it in the output.
WrittenOut == \A l \in Lines : pc[l] = "written" => \E i \in 1 .. Len(output) : output[i] = l

Taken == IF consumer = "write" THEN single_log ELSE None

InRing == {"pushed", "queued"}

\* What does not occur is at no place.
LEMMA TimesZero ==
  ASSUME NEW S, NEW s \in Seq(S), NEW l, Times(l, s) = 0
  PROVE  \A i \in 1 .. Len(s) : s[i] # l
<1> DEFINE A == {i \in DOMAIN s : s[i] = l}
<1>1. IsFiniteSet(A) /\ Cardinality(A) = 0
  BY TimesType DEF Times
<1>2. A = {}
  BY <1>1, FS_EmptySet
<1>3. DOMAIN s = 1 .. Len(s)
  OBVIOUS
<1> QED
  BY <1>2, <1>3

\* A line that is neither pushed nor written is nowhere in the output.
LEMMA NotYetOut ==
  ASSUME IInv, NEW l \in Lines, ~ Logged(l)
  PROVE  \A i \in 1 .. Len(output) : output[i] # l
<1>1. output \in Seq(Lines) /\ Times(l, Contents) \in Nat /\ Times(l, output) \in Nat
  BY ContentsType, TimesType DEF IInv, TypeOK
<1>2. One(consumer = "write" /\ single_log = l) \in Nat /\ One(Logged(l)) = 0
  BY DEF One
<1>3. Placed(l) = One(Logged(l))
  BY DEF IInv, InOnePlace
<1>4. PICK a, b, c \in Nat : a = Times(l, Contents) /\ b = Times(l, output) /\ c = One(consumer = "write" /\ single_log = l)
  BY <1>1, <1>2, Zenon
<1>5. a + b + c = 0
  BY <1>2, <1>3, <1>4, Zenon DEF Placed
<1>6. b = 0
  BY <1>5
<1>7. Times(l, output) = 0
  BY <1>4, <1>6
<1> QED
  BY <1>1, <1>7, TimesZero

\* The line the consumer is busy with has passed through the ring.
LEMMA BusyWithPushed ==
  ASSUME IInv, WrittenOut, consumer = "write"
  PROVE  single_log \in Lines /\ single_log \in ByPush
<1>1. PICK l \in Lines : l = single_log
  BY DEF IInv, HoldsLines
<1>2. output \in Seq(Lines) /\ Times(l, Contents) \in Nat /\ Times(l, output) \in Nat
  BY ContentsType, TimesType DEF IInv, TypeOK
<1>3. One(consumer = "write" /\ single_log = l) = 1
  BY <1>1 DEF One
<1>4. One(Logged(l)) \in {0, 1} /\ (One(Logged(l)) = 1 => Logged(l))
  BY DEF One
<1>5. Placed(l) = One(Logged(l))
  BY DEF IInv, InOnePlace
<1>6. PICK a, b \in Nat, d \in {0, 1} : a = Times(l, Contents) /\ b = Times(l, output) /\ d = One(Logged(l))
  BY <1>2, <1>4, Zenon
<1>7. a + b + 1 = d
  BY <1>3, <1>5, <1>6, Zenon DEF Placed
<1>8. b = 0 /\ d = 1
  BY <1>7
<1>9. Logged(l) /\ Times(l, output) = 0
  BY <1>4, <1>6, <1>8
<1>10. \A i \in 1 .. Len(output) : output[i] # l
  BY <1>2, <1>9, TimesZero
<1>11. pc[l] # "written"
  BY <1>10 DEF WrittenOut
<1> QED
  BY <1>1, <1>9, <1>11 DEF Logged, ByPush

\* What a step of a call does that neither puts the line into the ring nor writes it.
LEMMA SameQueue ==
  ASSUME IInv, NEW l \in Lines, NEW from \in Points, NEW to \in Points, Goto(l, from, to),
         from \in InRing <=> to \in InRing,
         m_max_size' = m_max_size, m_array' = m_array, m_size' = m_size, m_front' = m_front,
         output' = output, single_log' = single_log, (consumer' = "write") <=> (consumer = "write")
  PROVE  UNCHANGED <<m_max_size, ByPush, Contents, Taken, Kept(output, ByPush)>>
<1>1. pc' \in [Lines -> Points] /\ pc'[l] = to /\ pc[l] = from /\ \A k \in Lines \ {l} : pc'[k] = pc[k]
  BY Moves DEF IInv
<1>2. ByPush' = ByPush
  BY <1>1 DEF ByPush, InRing
<1>3. Contents' = Contents
  BY Zenon DEF Contents
<1>4. Taken' = Taken
  BY Zenon DEF Taken
<1>5. Kept(output, ByPush)' = Kept(output, ByPush)
  BY <1>2, Zenon
<1> QED
  BY <1>2, <1>3, <1>4, <1>5

\* The steps of a call that neither the ring nor the output sees.
LEMMA SilentStep ==
  ASSUME IInv, NEW l \in Lines,
         Start(l) \/ Count(l) \/ Format(l) \/ CopyLine(l) \/ TestFull(l) \/ Broadcast(l)
  PROVE  /\ UNCHANGED <<m_max_size, ByPush, Contents, Taken, Kept(output, ByPush)>>
         /\ output' = output /\ \A k \in Lines : pc'[k] = "written" => pc[k] = "written"
<1>1. /\ m_max_size' = m_max_size /\ m_array' = m_array /\ m_size' = m_size /\ m_front' = m_front
      /\ output' = output /\ single_log' = single_log
  BY Zenon DEF Start, Count, Format, CopyLine, TestFull, Broadcast, file, ring
<1>2. (consumer' = "write") <=> (consumer = "write")
  BY DEF Start, Count, Format, CopyLine, TestFull, Broadcast
<1>3. \E from \in Points, to \in Points \ {"written"} : Goto(l, from, to) /\ (from \in InRing <=> to \in InRing)
  BY DEF Start, Count, Format, CopyLine, TestFull, Broadcast, Points, InRing
<1>4. PICK from \in Points, to \in Points \ {"written"} : Goto(l, from, to) /\ (from \in InRing <=> to \in InRing)
  BY <1>3
<1>5. UNCHANGED <<m_max_size, ByPush, Contents, Taken, Kept(output, ByPush)>>
  BY <1>1, <1>2, <1>4, SameQueue
<1>6. pc'[l] = to /\ \A k \in Lines \ {l} : pc'[k] = pc[k]
  BY <1>4, Moves DEF IInv
<1> QED
  BY <1>1, <1>4, <1>5, <1>6

\* push puts the line into the queue, or refuses it.
LEMMA PushIsPut ==
  ASSUME IInv, NEW l \in Lines, Push(l)
  PROVE  /\ LQ!QueueNext \/ UNCHANGED <<m_max_size, ByPush, Contents, Taken, Kept(output, ByPush)>>
         /\ output' = output /\ \A k \in Lines : pc'[k] = "written" => pc[k] = "written"
<1>1. m_max_size' = m_max_size /\ output' = output /\ consumer' = consumer /\ single_log' = single_log
  BY Zenon DEF Push, file
<1>2. CASE m_size >= m_max_size
  <2>1. Goto(l, "push", "refused") /\ UNCHANGED ring
    BY <1>2 DEF Push
  <2>2. pc'[l] = "refused" /\ \A k \in Lines \ {l} : pc'[k] = pc[k]
    BY <2>1, Moves DEF IInv, Points
  <2>3. "push" \in Points /\ "refused" \in Points /\ ("push" \in InRing <=> "refused" \in InRing)
    BY DEF Points, InRing
  <2>4. m_array' = m_array /\ m_size' = m_size /\ m_front' = m_front
    BY <2>1, Zenon DEF ring
  <2>5. UNCHANGED <<m_max_size, ByPush, Contents, Taken, Kept(output, ByPush)>>
    BY <1>1, <2>1, <2>3, <2>4, SameQueue
  <2> QED
    BY <1>1, <2>2, <2>5
<1>3. CASE m_size < m_max_size
  <2>1. Goto(l, "push", "pushed") /\ Insert(log_str[l])
    <3>1. ~(m_size >= m_max_size)
      BY <1>3, LogAssumption DEF IInv, TypeOK
    <3> QED
      BY <3>1, Zenon DEF Push
  <2>2. pc' \in [Lines -> Points] /\ pc'[l] = "pushed" /\ pc[l] = "push" /\ \A k \in Lines \ {l} : pc'[k] = pc[k]
    BY <2>1, Moves DEF IInv, Points
  <2>3. Insert(l)
    BY <2>1, <2>2 DEF IInv, OwnLine, Insert
  <2>4. Contents \in Seq(Lines \cup {None}) /\ Contents' = Append(Contents, l)
    BY <1>1, <1>3, <2>3, PushAppends DEF IInv
  <2>5. Len(Contents) = m_size
    <3>1. m_size \in Nat
      BY LogAssumption DEF IInv, TypeOK
    <3>2. DOMAIN Contents = 1 .. m_size
      BY DEF Contents
    <3> QED
      BY <2>4, <3>1, <3>2
  <2>6. l \notin ByPush /\ ByPush' = ByPush \cup {l}
    BY <2>2 DEF ByPush
  <2>7. Taken' = Taken
    BY <1>1, Zenon DEF Taken
  <2>8. Kept(output, ByPush)' = Kept(output, ByPush)
    <3>1. \A i \in 1 .. Len(output) : output[i] # l
      BY <2>2, NotYetOut DEF Logged
    <3>2. PICK P : P = ByPush \cup {l}
      OBVIOUS
    <3>3. \A i \in 1 .. Len(output) : output[i] \in P <=> output[i] \in ByPush
      BY <3>1, <3>2
    <3>4. Len(output) \in Nat
      BY DEF IInv, TypeOK
    <3>5. Kept(output, P) = Kept(output, ByPush)
      BY <3>3, <3>4, KeptSame
    <3> QED
      BY <1>1, <2>6, <3>2, <3>5, Zenon
  <2>9. LQ!Put(l)
    BY <1>3, <2>4, <2>5, <2>6, <2>7, <2>8, Zenon DEF LQ!Put, Taken
  <2>10. LQ!QueueNext
    BY <1>1, <2>9, Zenon DEF LQ!QueueNext
  <2> QED
    BY <1>1, <2>2, <2>10
<1>4. m_size >= m_max_size \/ m_size < m_max_size
  BY LogAssumption DEF IInv, TypeOK
<1> QED
  BY <1>2, <1>3, <1>4, Zenon

\* A line that its own call writes does not pass through the queue.
LEMMA PutLineIsSilent ==
  ASSUME IInv, NEW l \in Lines, PutLine(l)
  PROVE  /\ UNCHANGED <<m_max_size, ByPush, Contents, Taken, Kept(output, ByPush)>>
         /\ output' = Append(output, l) /\ \A k \in Lines : pc'[k] = "written" => k = l \/ pc[k] = "written"
<1>1. /\ m_max_size' = m_max_size /\ m_array' = m_array /\ m_size' = m_size /\ m_front' = m_front
      /\ consumer' = consumer /\ single_log' = single_log
  BY Zenon DEF PutLine, Puts, ring
<1>2. pc' \in [Lines -> Points] /\ pc'[l] = "written" /\ pc[l] = "put" /\ \A k \in Lines \ {l} : pc'[k] = pc[k]
  BY Moves DEF IInv, Points, PutLine
<1>3. output' = Append(output, l) /\ output \in Seq(Lines)
  BY <1>2 DEF IInv, OwnLine, TypeOK, PutLine, Puts
<1>4. ByPush' = ByPush /\ l \notin ByPush
  BY <1>2 DEF ByPush
<1>5. Contents' = Contents
  BY <1>1, Zenon DEF Contents
<1>6. Taken' = Taken
  BY <1>1, Zenon DEF Taken
<1>7. Kept(output, ByPush)' = Kept(output, ByPush)
  <2>1. Kept(Append(output, l), ByPush) = Kept(output, ByPush)
    BY <1>3, <1>4, KeptAppend
  <2> QED
    BY <1>3, <1>4, <2>1, Zenon
<1> QED
  BY <1>1, <1>2, <1>3, <1>4, <1>5, <1>6, <1>7

\* pop takes the oldest line out of the queue.
LEMMA PopIsGet ==
  ASSUME IInv, Pop
  PROVE  LQ!QueueNext /\ output' = output /\ pc' = pc
<1>1. /\ m_max_size' = m_max_size /\ m_array' = m_array /\ m_back' = m_back
      /\ output' = output /\ pc' = pc
  BY Zenon DEF Pop, file
<1>2. consumer = "pop" /\ consumer' = "write" /\ consumer # "write"
  BY DEF Pop
<1>3. Contents # <<>> /\ Contents' = Tail(Contents) /\ m_array[m_front'] = Head(Contents)
  BY <1>1, PopTakes DEF Pop, IInv
<1>4. single_log' = Head(Contents)
  BY <1>3 DEF Pop
<1>5. ByPush' = ByPush
  BY <1>1, Zenon DEF ByPush
<1>6. Kept(output, ByPush)' = Kept(output, ByPush)
  BY <1>1, <1>5, Zenon
<1>7. LQ!Get
  BY <1>2, <1>3, <1>4, <1>5, <1>6, Zenon DEF LQ!Get
<1> QED
  BY <1>1, <1>7, Zenon DEF LQ!QueueNext

\* The consumer delivers the line it has popped.
LEMMA WriteIsDeliver ==
  ASSUME IInv, WrittenOut, WritePopped
  PROVE  LQ!QueueNext /\ output' = Append(output, single_log) /\ single_log \in Lines /\ pc' = pc
<1>1. /\ m_max_size' = m_max_size /\ m_array' = m_array /\ m_size' = m_size /\ m_front' = m_front
      /\ pc' = pc /\ output' = Append(output, single_log)
  BY Zenon DEF WritePopped, Puts, ring
<1>2. consumer = "write" /\ consumer' = "pop" /\ consumer' # "write"
  BY DEF WritePopped
<1>3. single_log \in Lines /\ single_log \in ByPush
  BY <1>2, BusyWithPushed
<1>4. single_log # None
  BY <1>3, LogAssumption DEF Lines
<1>5. ByPush' = ByPush
  BY <1>1, Zenon DEF ByPush
<1>6. Contents' = Contents
  BY <1>1, Zenon DEF Contents
<1>7. Kept(output, ByPush)' = Append(Kept(output, ByPush), single_log)
  <2>1. output \in Seq(Lines)
    BY DEF IInv, TypeOK
  <2>2. Kept(Append(output, single_log), ByPush) = Append(Kept(output, ByPush), single_log)
    BY <1>3, <2>1, KeptAppend
  <2> QED
    BY <1>1, <1>5, <2>2, Zenon
<1>8. LQ!Deliver
  BY <1>2, <1>4, <1>5, <1>6, <1>7, Zenon DEF LQ!Deliver
<1> QED
  BY <1>1, <1>3, <1>8, Zenon DEF LQ!QueueNext

\* The clock and the consumer's sleep.
LEMMA IdleIsSilent ==
  ASSUME IInv, Midnight \/ Sleep \/ SpuriousWakeup \/ UNCHANGED vars
  PROVE  /\ UNCHANGED <<m_max_size, ByPush, Contents, Taken, Kept(output, ByPush)>>
         /\ output' = output /\ pc' = pc
<1>1. /\ m_max_size' = m_max_size /\ m_array' = m_array /\ m_size' = m_size /\ m_front' = m_front
      /\ output' = output /\ single_log' = single_log /\ pc' = pc
  BY Zenon DEF Midnight, Sleep, SpuriousWakeup, vars, file, ring
<1>2. (consumer' = "write") <=> (consumer = "write")
  BY DEF Midnight, Sleep, SpuriousWakeup, vars
<1>3. ByPush' = ByPush
  BY <1>1, Zenon DEF ByPush
<1>4. Contents' = Contents
  BY <1>1, Zenon DEF Contents
<1>5. Taken' = Taken
  BY <1>1, <1>2, Zenon DEF Taken
<1>6. Kept(output, ByPush)' = Kept(output, ByPush)
  BY <1>1, <1>3, Zenon
<1> QED
  BY <1>1, <1>3, <1>4, <1>5, <1>6

\* What was written stays written.
LEMMA OutGrows ==
  ASSUME IInv, WrittenOut, NEW x \in Lines, output' = output \/ output' = Append(output, x),
         \A k \in Lines : pc'[k] = "written" => \/ pc[k] = "written"
                                                \/ k = x /\ output' = Append(output, x)
  PROVE  WrittenOut'
<1>1. output \in Seq(Lines) /\ Len(output) \in Nat
  BY DEF IInv, TypeOK
<1>2. PICK out \in Seq(Lines) : out = output'
  BY <1>1
<1>3. ASSUME NEW k \in Lines, pc'[k] = "written" PROVE \E i \in 1 .. Len(out) : out[i] = k
  <2>1. CASE pc[k] = "written"
    <3>1. PICK i \in 1 .. Len(output) : output[i] = k
      BY <2>1 DEF WrittenOut
    <3>2. i \in 1 .. Len(out) /\ out[i] = output[i]
      BY <1>1, <1>2
    <3> QED
      BY <3>1, <3>2
  <2>2. CASE k = x /\ output' = Append(output, x)
    <3>1. Len(output) + 1 \in 1 .. Len(out) /\ out[Len(output) + 1] = x
      BY <1>1, <1>2, <2>2
    <3> QED
      BY <2>2, <3>1
  <2> QED
    BY <1>3, <2>1, <2>2
<1> QED
  BY <1>2, <1>3 DEF WrittenOut

\* Every step of the log is one of the queue, or none.
LEMMA QueueStep ==
  ASSUME IInv, WrittenOut, [Next]_vars
  PROVE  /\ WrittenOut'
         /\ [LQ!QueueNext]_<<m_max_size, ByPush, Contents, Taken, Kept(output, ByPush)>>
<1>1. CASE \E l \in Lines : WriteLog(l)
  <2>1. PICK l \in Lines : WriteLog(l)
    BY <1>1
  <2>2. CASE Start(l) \/ Count(l) \/ Format(l) \/ CopyLine(l) \/ TestFull(l) \/ Broadcast(l)
    <3>1. /\ UNCHANGED <<m_max_size, ByPush, Contents, Taken, Kept(output, ByPush)>>
          /\ output' = output /\ \A k \in Lines : pc'[k] = "written" => pc[k] = "written"
      BY <2>2, SilentStep
    <3> QED
      BY <3>1, OutGrows
  <2>3. CASE Push(l)
    <3>1. /\ LQ!QueueNext \/ UNCHANGED <<m_max_size, ByPush, Contents, Taken, Kept(output, ByPush)>>
          /\ output' = output /\ \A k \in Lines : pc'[k] = "written" => pc[k] = "written"
      BY <2>3, PushIsPut
    <3> QED
      BY <3>1, OutGrows
  <2>4. CASE PutLine(l)
    <3>1. /\ UNCHANGED <<m_max_size, ByPush, Contents, Taken, Kept(output, ByPush)>>
          /\ output' = Append(output, l) /\ \A k \in Lines : pc'[k] = "written" => k = l \/ pc[k] = "written"
      BY <2>4, PutLineIsSilent
    <3> QED
      BY <3>1, OutGrows
  <2> QED
    BY <2>1, <2>2, <2>3, <2>4, Zenon DEF WriteLog, Continue
<1>2. CASE Pop
  <2>1. LQ!QueueNext /\ output' = output /\ pc' = pc
    BY <1>2, PopIsGet
  <2>2. WrittenOut'
    BY <2>1, Zenon DEF WrittenOut
  <2> QED
    BY <2>1, <2>2
<1>3. CASE WritePopped
  <2>1. LQ!QueueNext /\ output' = Append(output, single_log) /\ single_log \in Lines /\ pc' = pc
    BY <1>3, WriteIsDeliver
  <2>2. WrittenOut'
    BY <2>1, OutGrows
  <2> QED
    BY <2>1, <2>2
<1>4. CASE Midnight \/ Sleep \/ SpuriousWakeup \/ UNCHANGED vars
  <2>1. /\ UNCHANGED <<m_max_size, ByPush, Contents, Taken, Kept(output, ByPush)>>
        /\ output' = output /\ pc' = pc
    BY <1>4, IdleIsSilent
  <2>2. WrittenOut'
    BY <2>1, Zenon DEF WrittenOut
  <2> QED
    BY <2>1, <2>2
<1> QED
  BY <1>1, <1>2, <1>3, <1>4, Zenon DEF Next, AsynWriteLog

LEMMA QueueStart == Init => WrittenOut /\ LQ!QueueInit
<1> SUFFICES ASSUME Init PROVE WrittenOut /\ LQ!QueueInit
  OBVIOUS
<1>1. WrittenOut
  BY DEF Init, WrittenOut
<1>2. m_max_size \in Nat /\ m_size = 0 /\ output = <<>> /\ consumer # "write"
  BY LogAssumption DEF Init, m_is_async
<1>3. ByPush = {}
  BY DEF Init, ByPush
<1>4. Contents = <<>>
  <2>1. Contents = [i \in 1 .. 0 |-> m_array[(m_front + i) % m_max_size]]
    BY <1>2 DEF Contents
  <2> QED
    BY <2>1
<1>5. Kept(output, ByPush) = <<>>
  BY <1>2, KeptNone, Zenon
<1> QED
  BY <1>1, <1>2, <1>3, <1>4, <1>5, Zenon DEF LQ!QueueInit

\* The ring of block_queue.h with its one consumer (log.h:21) implements LineQueue,
\* whatever the calls that write their line themselves do in between: what was
\* pushed is written once each, in the order in which it was pushed.
THEOREM RingIsAQueue == Spec => ImplementsLineQueue
<1>1. IInv /\ WrittenOut /\ [Next]_vars
        => WrittenOut' /\ [LQ!QueueNext]_<<m_max_size, ByPush, Contents, Taken, Kept(output, ByPush)>>
  BY QueueStep
<1>2. Taken = IF consumer = "write" THEN single_log ELSE None
  BY DEF Taken
<1> QED
  BY <1>1, QueueStart, Invariance, PTL DEF Spec, ImplementsLineQueue, LQ!QueueSpec, Taken
=============================================================================
