-------------------------- MODULE TailBufferProofs --------------------------
(***************************************************************************)
(* The tail buffer is correct for every limit and every way to cut the     *)
(* output into writes: TailIsSuffix is inductive once typed.               *)
(***************************************************************************)
EXTENDS TailBuffer, TLAPS

(* s[n:] drops the first n elements. *)
LEMMA FromFacts ==
    ASSUME NEW S, NEW s \in Seq(S), NEW n \in 0..Len(s)
    PROVE  /\ From(s, n) \in Seq(S)
           /\ Len(From(s, n)) = Len(s) - n
           /\ \A k \in 1..(Len(s) - n) : From(s, n)[k] = s[n + k]
  BY DEF From

(* What append does. *)
LEMMA AppendFacts ==
    ASSUME NEW S, NEW s \in Seq(S), NEW t \in Seq(S)
    PROVE  /\ s \o t \in Seq(S)
           /\ Len(s \o t) = Len(s) + Len(t)
           /\ \A k \in 1..Len(s) : (s \o t)[k] = s[k]
           /\ \A k \in 1..Len(t) : (s \o t)[Len(s) + k] = t[k]
  OBVIOUS

(* A write of any length keeps the buffer the end of the stream. *)
LEMMA WriteKeepsSuffix ==
    ASSUME BufferTypeOK, TailIsSuffix, NEW p \in Seq(Bytes), Write(p)
    PROVE  BufferTypeOK' /\ TailIsSuffix'
  <1> DEFINE B == Len(buf)
             N == Len(stream)
             P == Len(p)
  <1>0. limit \in Int /\ limit \in Limits /\ limit' = limit
    BY LimitsAssumption DEF Write, BufferTypeOK
  <1>1. B \in Nat /\ N \in Nat /\ P \in Nat /\ buf \in Seq(Bytes) /\ stream \in Seq(Bytes)
    BY DEF BufferTypeOK
  <1>2. /\ B = IF limit <= 0 THEN 0 ELSE IF N < limit THEN N ELSE limit
        /\ \A k \in 1..B : buf[k] = stream[N - B + k]
    BY DEF TailIsSuffix
  <1>3. /\ stream' \in Seq(Bytes)
        /\ Len(stream') = N + P
        /\ \A k \in 1..N : stream'[k] = stream[k]
        /\ \A k \in 1..P : stream'[N + k] = p[k]
    <2>1. stream' = stream \o p
      BY DEF Write
    <2> QED
      BY <1>1, <2>1, AppendFacts
  <1>4. SUFFICES /\ buf' \in Seq(Bytes)
                 /\ Len(buf') = IF limit <= 0 THEN 0 ELSE IF N + P < limit THEN N + P ELSE limit
                 /\ \A k \in 1..Len(buf') : buf'[k] = stream'[N + P - Len(buf') + k]
    <2>1. BufferTypeOK'
      BY <1>0, <1>3, <1>4 DEF BufferTypeOK
    <2>2. Len(stream') = N + P /\ limit' = limit
      BY <1>0, <1>3
    <2> HIDE DEF N, P
    <2>3. ASSUME NEW k \in 1..Len(buf')
          PROVE  buf'[k] = stream'[Len(stream') - Len(buf') + k]
      <3>1. buf'[k] = stream'[N + P - Len(buf') + k]
        BY <1>4
      <3>2. N + P - Len(buf') + k = Len(stream') - Len(buf') + k
        <4>1. Len(buf') \in Nat
          BY <1>4
        <4> QED
          BY <1>1, <2>2, <4>1
      <3> QED
        BY <3>1, <3>2
    <2>4. TailIsSuffix'
      BY <1>4, <2>2, <2>3, Zenon DEF TailIsSuffix
    <2> QED
      BY <2>1, <2>4
  <1> HIDE DEF B, N, P
  <1>5. CASE limit <= 0 \/ P = 0
    <2>1. buf' = buf /\ Len(buf') = B
      BY <1>5 DEF Write, B, P
    <2>2. B = IF limit <= 0 THEN 0 ELSE IF N + P < limit THEN N + P ELSE limit
      BY <1>0, <1>1, <1>2, <1>5
    <2>3. ASSUME NEW k \in 1..B
          PROVE  buf'[k] = stream'[N + P - B + k]
      <3>1. N - B + k \in 1..N /\ N + P - B + k = N - B + k
        BY <1>0, <1>1, <1>2, <1>5
      <3> QED
        BY <1>2, <1>3, <2>1, <3>1
    <2> QED
      BY <1>1, <2>1, <2>2, <2>3
  <1>6. CASE limit > 0 /\ P # 0 /\ P >= limit
    <2>1. buf' = From(p, P - limit)
      BY <1>0, <1>6 DEF Write, P
    <2>2. P - limit \in 0..P
      BY <1>0, <1>1, <1>6
    <2>3. /\ buf' \in Seq(Bytes)
          /\ Len(buf') = P - (P - limit)
          /\ \A k \in 1..(P - (P - limit)) : buf'[k] = p[P - limit + k]
      BY <2>1, <2>2, FromFacts DEF P
    <2>4. P - (P - limit) = limit
      BY <1>0, <1>1
    <2>5. \A k \in 1..limit : P - limit + k \in 1..P
                              /\ N + P - limit + k = N + (P - limit + k)
      BY <1>0, <1>1, <1>6
    <2>6. \A k \in 1..limit : buf'[k] = stream'[N + P - limit + k]
      BY <1>3, <2>3, <2>4, <2>5
    <2>7. limit = IF limit <= 0 THEN 0 ELSE IF N + P < limit THEN N + P ELSE limit
      BY <1>0, <1>1, <1>6
    <2>8. Len(buf') = limit
      BY <2>3, <2>4
    <2> QED
      BY <2>3, <2>6, <2>7, <2>8, Zenon
  <1>7. CASE limit > 0 /\ P # 0 /\ P < limit
    <2> DEFINE kept == Kept(p)
               n == IF B + P > limit THEN B + P - limit ELSE 0
    <2>1. n \in 0..B
      BY <1>0, <1>1, <1>7
    <2>2. /\ kept \in Seq(Bytes)
          /\ Len(kept) = B - n
          /\ \A k \in 1..(B - n) : kept[k] = buf[n + k]
      <3>1. CASE B + P <= limit
        <4>1. kept = buf
          BY <1>0, <1>1, <3>1 DEF Kept, B, P
        <4>2. n = 0 /\ B - n = B /\ \A k \in 1..B : n + k = k
          BY <1>0, <1>1, <3>1
        <4> QED
          BY <1>1, <4>1, <4>2 DEF B
      <3>2. CASE B + P > limit
        <4>1. kept = From(buf, n)
          BY <1>0, <1>1, <3>2 DEF Kept, B, P
        <4> HIDE DEF n, kept
        <4> QED
          BY <1>1, <2>1, <4>1, FromFacts DEF B
      <3> QED
        BY <1>0, <1>1, <3>1, <3>2
    <2>3. buf' = kept \o p
      BY <1>0, <1>1, <1>7 DEF Write, P
    <2>4. n \in Int /\ B - n + P = IF N + P < limit THEN N + P ELSE limit
      BY <1>0, <1>1, <1>2, <1>7
    <2> HIDE DEF kept, n
    <2>5. /\ buf' \in Seq(Bytes)
          /\ Len(buf') = B - n + P
          /\ \A k \in 1..(B - n) : buf'[k] = kept[k]
          /\ \A k \in 1..P : buf'[B - n + k] = p[k]
      <3>1. \A b, c \in Seq(Bytes) : /\ b \o c \in Seq(Bytes)
                                     /\ Len(b \o c) = Len(b) + Len(c)
                                     /\ \A k \in 1..Len(b) : (b \o c)[k] = b[k]
                                     /\ \A k \in 1..Len(c) : (b \o c)[Len(b) + k] = c[k]
        BY AppendFacts
      <3>2. /\ buf' \in Seq(Bytes)
            /\ Len(buf') = Len(kept) + Len(p)
            /\ \A k \in 1..Len(kept) : buf'[k] = kept[k]
            /\ \A k \in 1..Len(p) : buf'[Len(kept) + k] = p[k]
        BY <2>2, <2>3, <3>1, Zenon
      <3> QED
        BY <2>2, <3>2, Zenon DEF P
    <2>6. ASSUME NEW k \in 1..(B - n + P)
          PROVE  buf'[k] = stream'[N + P - (B - n + P) + k]
      <3>1. CASE k \in 1..(B - n)
        <4>1. buf'[k] = buf[n + k]
          BY <2>2, <2>5, <3>1
        <4>2. n + k \in 1..B /\ N - B + (n + k) \in 1..N
              /\ N + P - (B - n + P) + k = N - B + (n + k)
          BY <1>0, <1>1, <1>2, <1>7, <2>1, <3>1
        <4> QED
          BY <1>2, <1>3, <4>1, <4>2
      <3>2. CASE k \notin 1..(B - n)
        <4> DEFINE m == k - (B - n)
        <4>1. m \in 1..P /\ k = B - n + m /\ N + P - (B - n + P) + k = N + m
          BY <1>1, <2>1, <3>2
        <4> HIDE DEF m
        <4>2. buf'[k] = p[m]
          BY <2>5, <4>1
        <4> QED
          BY <1>3, <4>1, <4>2
      <3> QED
        BY <3>1, <3>2
    <2> QED
      BY <1>0, <1>1, <1>7, <2>4, <2>5, <2>6
  <1> QED
    BY <1>0, <1>1, <1>5, <1>6, <1>7

(* String() always returns the last max_output_bytes bytes of the output. *)
THEOREM TailCorrect == BufferSpec => []TailIsSuffix
  <1>1. BufferInit => BufferTypeOK /\ TailIsSuffix
    BY LimitsAssumption DEF BufferInit, BufferTypeOK, TailIsSuffix
  <1>2. BufferTypeOK /\ TailIsSuffix /\ [BufferNext]_buffer => BufferTypeOK' /\ TailIsSuffix'
    <2>1. \A p \in Writes : p \in Seq(Bytes)
      BY BoundsAssumption DEF Writes
    <2>2. ASSUME BufferTypeOK, TailIsSuffix, BufferNext
          PROVE  BufferTypeOK' /\ TailIsSuffix'
      BY <2>1, <2>2, WriteKeepsSuffix DEF BufferNext
    <2>3. ASSUME BufferTypeOK, TailIsSuffix, UNCHANGED buffer
          PROVE  BufferTypeOK' /\ TailIsSuffix'
      BY <2>3 DEF buffer, BufferTypeOK, TailIsSuffix
    <2> QED
      BY <2>2, <2>3
  <1> QED
    BY <1>1, <1>2, PTL DEF BufferSpec
=============================================================================
