--------------------------- MODULE TmScanner_proofs ---------------------------
(***************************************************************************)
(* Proofs about TmScanner, for any satellites, frame lengths, sync words,  *)
(* CRC and stream: the types, the bound of the buffer, that every frame    *)
(* passed on was delivered as it is, that every byte is accounted for,     *)
(* that feed does the same however the stream is cut, and that frames that *)
(* follow each other are all passed on.                                    *)
(***************************************************************************)
EXTENDS TmScanner, SequenceTheorems, FiniteSetTheorems, WellFoundedInduction,
        TLAPS

-----------------------------------------------------------------------------
\* Sequences: what is left behind the first n elements, appending, joining.
LEMMA BehindFacts ==
  ASSUME NEW S, NEW s \in Seq(S), NEW n \in 0..Len(s)
  PROVE  /\ Behind(s, n) \in Seq(S)
         /\ Len(Behind(s, n)) = Len(s) - n
         /\ \A k \in 1..(Len(s) - n) : Behind(s, n)[k] = s[n + k]
BY DEF Behind

LEMMA AppendFacts ==
  ASSUME NEW S, NEW s \in Seq(S), NEW x \in S
  PROVE  /\ Append(s, x) \in Seq(S) /\ Len(Append(s, x)) = Len(s) + 1
         /\ \A i \in 1..Len(s) : Append(s, x)[i] = s[i]
         /\ Append(s, x)[Len(s) + 1] = x
OBVIOUS

LEMMA ConcatFacts ==
  ASSUME NEW S, NEW s \in Seq(S), NEW t \in Seq(S)
  PROVE  /\ s \o t \in Seq(S) /\ Len(s \o t) = Len(s) + Len(t)
         /\ \A i \in 1..Len(s) : (s \o t)[i] = s[i]
         /\ \A i \in 1..Len(t) : (s \o t)[Len(s) + i] = t[i]
OBVIOUS

\* A chunk is a sequence of bytes.
LEMMA ChunkFacts ==
  ASSUME stream \in Seq(Bytes), NEW chunk \in Chunks
  PROVE  chunk \in Seq(Bytes) /\ Len(chunk) \in Nat
<1>1. MaxStream - Len(stream) \in Int
  BY TmScannerAssumption DEF TmScannerAssumption
<1>2. PICK n \in 0..(MaxStream - Len(stream)) : chunk \in [1..n -> Bytes]
  BY DEF Chunks
<1>3. n \in Nat
  BY <1>1, <1>2
<1>4. chunk \in Seq(Bytes)
  BY <1>2, <1>3, SeqDef
<1> QED BY <1>4

\* The sums that the steps below need, by themselves.
LEMMA JunkIsNat ==
  ASSUME NEW n \in Nat, NEW p \in Nat \ {0}
  PROVE  n + p - 1 \in Nat /\ n + p - 1 + 2 \in Nat
OBVIOUS

LEMMA EndsBefore ==
  ASSUME NEW start \in Nat, NEW len \in Nat, NEW rest \in Nat, NEW all \in Nat,
         NEW a \in Nat, a <= rest, start + len + rest <= all + 1
  PROVE  start + len <= all - a + 1
OBVIOUS

LEMMA FitsBehind ==
  ASSUME NEW start \in Nat, NEW len \in Nat, NEW rest \in Nat, NEW all \in Nat,
         NEW p \in Nat, start + len <= p, p + rest <= all + 1
  PROVE  start + len + rest <= all + 1
OBVIOUS

LEMMA StillFits ==
  ASSUME NEW start \in Nat, NEW len \in Nat, NEW rest \in Nat, NEW all \in Nat,
         NEW more \in Nat, start + len + rest <= all + 1
  PROVE  start + len + (rest + more) <= (all + more) + 1
OBVIOUS

LEMMA InStream ==
  ASSUME NEW start \in Nat \ {0}, NEW len \in Nat, NEW rest \in Nat, NEW all \in Nat,
         NEW k \in 1..len, start + len + rest <= all + 1
  PROVE  start + k - 1 \in 1..all
OBVIOUS

\* A sync word found in the buffer lies inside it.
LEMMA MatchFacts ==
  ASSUME buffer \in Seq(Bytes), NEW m \in Matches(buffer)
  PROVE  /\ m[1] \in 1..(Len(buffer) - 1) /\ m[1] \in Nat \ {0} /\ m[2] \in Sats
         /\ <<buffer[m[1]], buffer[m[1] + 1]>> = Sync[m[2]]
         /\ Length[m[2]] \in Nat /\ Length[m[2]] >= 4
BY TmScannerAssumption DEF TmScannerAssumption, Matches

\* The buffer when a match is at its front.
LEMMA AlignedFacts ==
  ASSUME buffer \in Seq(Bytes), NEW m \in Matches(buffer)
  PROVE  /\ Aligned(m) \in Seq(Bytes)
         /\ Len(Aligned(m)) = Len(buffer) - (m[1] - 1)
         /\ Len(Aligned(m)) \in 2..Len(buffer)
         /\ \A k \in 1..Len(Aligned(m)) : Aligned(m)[k] = buffer[m[1] - 1 + k]
         /\ <<Aligned(m)[1], Aligned(m)[2]>> = Sync[m[2]]
<1>1. /\ m[1] \in 1..(Len(buffer) - 1) /\ Len(buffer) \in Nat
      /\ <<buffer[m[1]], buffer[m[1] + 1]>> = Sync[m[2]]
  BY MatchFacts
<1>2. m[1] - 1 \in 0..Len(buffer)
  BY <1>1
<1>3. /\ Aligned(m) \in Seq(Bytes)
      /\ Len(Aligned(m)) = Len(buffer) - (m[1] - 1)
      /\ \A k \in 1..(Len(buffer) - (m[1] - 1)) : Aligned(m)[k] = buffer[m[1] - 1 + k]
  BY <1>2, BehindFacts DEF Aligned
<1>4. Len(Aligned(m)) \in 2..Len(buffer)
  BY <1>1, <1>3
<1>5. /\ 1 \in 1..(Len(buffer) - (m[1] - 1)) /\ 2 \in 1..(Len(buffer) - (m[1] - 1))
      /\ m[1] - 1 + 1 = m[1] /\ m[1] - 1 + 2 = m[1] + 1
  BY <1>1
<1>6. Aligned(m)[1] = buffer[m[1]] /\ Aligned(m)[2] = buffer[m[1] + 1]
  BY <1>3, <1>5
<1> QED BY <1>1, <1>3, <1>4, <1>6

\* The buffer when the sync word of a match is dropped as well.
LEMMA SkippedFacts ==
  ASSUME buffer \in Seq(Bytes), NEW m \in Matches(buffer)
  PROVE  /\ Behind(Aligned(m), 2) \in Seq(Bytes)
         /\ Len(Behind(Aligned(m), 2)) = Len(buffer) - (m[1] + 1)
         /\ Len(Behind(Aligned(m), 2)) \in 0..Len(buffer)
         /\ \A k \in 1..Len(Behind(Aligned(m), 2)) :
              Behind(Aligned(m), 2)[k] = buffer[m[1] + 1 + k]
<1> DEFINE q == m[1]
           a == Len(Aligned(m))
           rest == Behind(Aligned(m), 2)
<1>1. q \in Nat \ {0} /\ Len(buffer) \in Nat
  BY MatchFacts
<1>2. /\ Aligned(m) \in Seq(Bytes)
      /\ a = Len(buffer) - (q - 1) /\ a \in 2..Len(buffer)
      /\ \A k \in 1..a : Aligned(m)[k] = buffer[q - 1 + k]
  BY AlignedFacts
<1>3. rest \in Seq(Bytes) /\ Len(rest) = a - 2
      /\ \A k \in 1..(a - 2) : rest[k] = Aligned(m)[2 + k]
  BY <1>2 DEF Behind
<1> HIDE DEF q, a, rest
<1>4. Len(rest) = Len(buffer) - (q + 1) /\ Len(rest) \in 0..Len(buffer)
  BY <1>1, <1>2, <1>3
<1>5. ASSUME NEW k \in 1..Len(rest)
      PROVE  rest[k] = buffer[q + 1 + k]
  <2>1. k \in 1..(a - 2) /\ 2 + k \in 1..a /\ q - 1 + (2 + k) = q + 1 + k
    BY <1>1, <1>2, <1>3
  <2> QED BY <1>2, <1>3, <2>1
<1> QED BY <1>3, <1>4, <1>5 DEF q, rest

\* The frame at the front of the aligned buffer, and what is behind it.
LEMMA CandidateFacts ==
  ASSUME buffer \in Seq(Bytes), NEW m \in Matches(buffer), Complete(m)
  PROVE  /\ Candidate(m) \in Seq(Bytes) /\ Len(Candidate(m)) = Length[m[2]]
         /\ \A k \in 1..Length[m[2]] : Candidate(m)[k] = Aligned(m)[k]
         /\ After(m) \in Seq(Bytes)
         /\ Len(After(m)) = Len(Aligned(m)) - Length[m[2]]
         /\ Len(After(m)) \in 0..Len(buffer)
         /\ \A k \in 1..Len(After(m)) : After(m)[k] = Aligned(m)[Length[m[2]] + k]
<1>1. /\ Length[m[2]] \in Nat /\ Length[m[2]] >= 4
      /\ Aligned(m) \in Seq(Bytes) /\ Len(Aligned(m)) \in 2..Len(buffer)
      /\ Len(Aligned(m)) >= Length[m[2]] /\ Len(buffer) \in Nat
  BY MatchFacts, AlignedFacts DEF Complete
<1>2. /\ Candidate(m) \in Seq(Bytes) /\ Len(Candidate(m)) = Length[m[2]]
      /\ \A k \in 1..Length[m[2]] : Candidate(m)[k] = Aligned(m)[k]
  BY <1>1 DEF Candidate
<1>3. Length[m[2]] \in 0..Len(Aligned(m))
  BY <1>1
<1>4. /\ After(m) \in Seq(Bytes)
      /\ Len(After(m)) = Len(Aligned(m)) - Length[m[2]]
      /\ \A k \in 1..(Len(Aligned(m)) - Length[m[2]]) :
           After(m)[k] = Aligned(m)[Length[m[2]] + k]
  BY <1>1, <1>3, BehindFacts DEF After
<1>5. Len(After(m)) \in 0..Len(buffer)
  BY <1>1, <1>4
<1> QED BY <1>2, <1>4, <1>5

\* What is kept of a buffer without a sync word: at most its last byte.
LEMMA WithoutSyncFacts ==
  ASSUME NEW s \in Seq(Bytes)
  PROVE  /\ WithoutSync(s) \in 0..Len(s)
         /\ Len(s) - WithoutSync(s) <= 1
BY DEF WithoutSync

\* A number of missing frames is a natural number.
LEMMA MissingFacts ==
  ASSUME NEW c \in Bytes, NEW p \in Bytes \cup {-1}
  PROVE  Missing(p, c) \in Nat
<1>1. (c - p) % Modulus \in Int
  BY TmScannerAssumption DEF TmScannerAssumption, Bytes
<1> QED BY <1>1 DEF Missing

-----------------------------------------------------------------------------
\* The scanner, the frames and the history keep their types.
THEOREM TypeCorrect == ScannerSpec => []ScannerTypeOK
<1>1. ScannerInit => ScannerTypeOK
  BY DEF ScannerInit, ScannerTypeOK, Bytes
<1>2. ScannerTypeOK /\ [ScannerNext]_scannerVars => ScannerTypeOK'
  <2> SUFFICES ASSUME ScannerTypeOK, [ScannerNext]_scannerVars
               PROVE  ScannerTypeOK'
    OBVIOUS
  <2>t. /\ buffer \in Seq(Bytes) /\ stream \in Seq(Bytes)
        /\ Len(buffer) <= Len(stream) /\ Len(buffer) \in Nat /\ Len(stream) \in Nat
        /\ frames \in Seq(Seq(Bytes)) /\ starts \in Seq(Nat \ {0})
        /\ sent \in 0..Len(frames) /\ Len(frames) \in Nat
    BY DEF ScannerTypeOK
  <2>1. ASSUME NEW chunk \in Chunks, Feed(chunk)
        PROVE  ScannerTypeOK'
    <3>1. chunk \in Seq(Bytes) /\ Len(chunk) \in Nat
      BY <2>t, ChunkFacts
    <3>2. /\ stream' \in Seq(Bytes) /\ Len(stream') = Len(stream) + Len(chunk)
          /\ buffer' \in Seq(Bytes) /\ Len(buffer') = Len(buffer) + Len(chunk)
      BY <2>1, <2>t, <3>1, ConcatFacts DEF Feed
    <3>3. Len(buffer') <= Len(stream')
      BY <2>t, <3>1, <3>2
    <3> QED BY <2>1, <2>t, <3>2, <3>3 DEF Feed, stats, output, ScannerTypeOK
  <2>2. CASE NoSync
    <3>1. WithoutSync(buffer) \in 0..Len(buffer)
      BY <2>t, WithoutSyncFacts
    <3>2. buffer' \in Seq(Bytes) /\ Len(buffer') = Len(buffer) - WithoutSync(buffer)
      BY <2>2, <2>t, <3>1, BehindFacts DEF NoSync
    <3>3. Len(buffer') <= Len(stream) /\ junk' \in Nat
      BY <2>2, <2>t, <3>1, <3>2 DEF NoSync, ScannerTypeOK
    <3> QED BY <2>2, <2>t, <3>2, <3>3 DEF NoSync, output, ScannerTypeOK
  <2>3. ASSUME NEW m \in Matches(buffer), Incomplete(m)
        PROVE  ScannerTypeOK'
    <3>1. Aligned(m) \in Seq(Bytes) /\ Len(Aligned(m)) \in 2..Len(buffer)
      BY <2>t, AlignedFacts
    <3>2. m[1] \in Nat \ {0}
      BY <2>t, MatchFacts
    <3>3. buffer' = Aligned(m) /\ junk' = junk + m[1] - 1 /\ junk \in Nat
      BY <2>3 DEF Incomplete, ScannerTypeOK
    <3>4. junk' \in Nat
      BY <3>2, <3>3, JunkIsNat
    <3>5. buffer' \in Seq(Bytes) /\ Len(buffer') <= Len(stream)
      BY <2>t, <3>1, <3>3
    <3> QED BY <2>3, <2>t, <3>4, <3>5 DEF Incomplete, output, ScannerTypeOK
  <2>4. ASSUME NEW m \in Matches(buffer), FalseSync(m)
        PROVE  ScannerTypeOK'
    <3>1. /\ Behind(Aligned(m), 2) \in Seq(Bytes)
          /\ Len(Behind(Aligned(m), 2)) \in 0..Len(buffer)
      BY <2>t, SkippedFacts
    <3>2. m[1] \in Nat \ {0}
      BY <2>t, MatchFacts
    <3>3. /\ buffer' = Behind(Aligned(m), 2)
          /\ junk' = junk + m[1] - 1 + 2 /\ junk \in Nat
      BY <2>4 DEF FalseSync, ScannerTypeOK
    <3>4. junk' \in Nat
      BY <3>2, <3>3, JunkIsNat
    <3>5. buffer' \in Seq(Bytes) /\ Len(buffer') <= Len(stream)
      BY <2>t, <3>1, <3>3
    <3> QED BY <2>4, <2>t, <3>4, <3>5 DEF FalseSync, output, ScannerTypeOK
  <2>5. ASSUME NEW m \in Matches(buffer), TakeFrame(m)
        PROVE  ScannerTypeOK'
    <3>1. Complete(m)
      BY <2>5 DEF TakeFrame
    <3>2. /\ m[1] \in Nat \ {0} /\ m[2] \in Sats
          /\ Length[m[2]] \in Nat /\ Length[m[2]] >= 4
          /\ Aligned(m) \in Seq(Bytes) /\ Len(Aligned(m)) \in 2..Len(buffer)
      BY <2>t, MatchFacts, AlignedFacts
    <3>3. /\ Candidate(m) \in Seq(Bytes) /\ Len(Candidate(m)) = Length[m[2]]
          /\ After(m) \in Seq(Bytes) /\ Len(After(m)) \in 0..Len(buffer)
      BY <2>t, <3>1, CandidateFacts
    <3>4. VcCount(Candidate(m)) \in Bytes
      BY <3>2, <3>3 DEF VcCount
    <3>5. last[m[2]] \in Bytes \cup {-1}
      BY <3>2 DEF ScannerTypeOK
    <3>6. buffer' \in Seq(Bytes) /\ Len(buffer') <= Len(stream)
      BY <2>5, <2>t, <3>3 DEF TakeFrame
    <3>7. junk' \in Nat
      <4>1. junk' = junk + m[1] - 1 /\ junk \in Nat
        BY <2>5 DEF TakeFrame, ScannerTypeOK
      <4> QED BY <3>2, <4>1
    <3>8. gaps' \in Nat
      <4>1. /\ gaps' = gaps + Missing(last[m[2]], VcCount(Candidate(m)))
            /\ gaps \in Nat
        BY <2>5 DEF TakeFrame, ScannerTypeOK
      <4>2. Missing(last[m[2]], VcCount(Candidate(m))) \in Nat
        BY <3>4, <3>5, MissingFacts
      <4> QED BY <4>1, <4>2
    <3>9. last' \in [Sats -> Bytes \cup {-1}]
      BY <2>5, <3>4 DEF TakeFrame, ScannerTypeOK
    <3>10. frames' \in Seq(Seq(Bytes)) /\ Len(frames') = Len(frames) + 1
      BY <2>5, <2>t, <3>3, AppendFacts DEF TakeFrame
    <3>11. Len(stream) - Len(Aligned(m)) + 1 \in Nat \ {0}
      BY <2>t, <3>2
    <3>12. starts' \in Seq(Nat \ {0})
      BY <2>5, <2>t, <3>11, AppendFacts DEF TakeFrame
    <3>13. stream' = stream /\ sent' = sent /\ loop' = "scan"
      BY <2>5, <3>1 DEF TakeFrame, Complete
    <3> QED BY <2>t, <3>6, <3>7, <3>8, <3>9, <3>10, <3>12, <3>13 DEF ScannerTypeOK
  <2>6. CASE Send
    BY <2>6, <2>t DEF Send, stats, ScannerTypeOK
  <2>7. CASE SendError
    BY <2>7, <2>t DEF SendError, stats, output, ScannerTypeOK
  <2>8. CASE AllSent
    BY <2>8, <2>t DEF AllSent, stats, output, ScannerTypeOK
  <2>9. CASE UNCHANGED scannerVars
    BY <2>9 DEF scannerVars, stats, output, ScannerTypeOK
  <2> QED BY <2>1, <2>2, <2>3, <2>4, <2>5, <2>6, <2>7, <2>8, <2>9
          DEF ScannerNext, ScanStep
<1> QED BY <1>1, <1>2, PTL DEF ScannerSpec

\* feed returns with at most one byte, or with the beginning of one frame.
THEOREM BufferIsBounded == ScannerSpec => []BufferBounded
<1>1. ScannerInit => BufferBounded
  BY DEF ScannerInit, BufferBounded
<1>2. ScannerTypeOK /\ BufferBounded /\ [ScannerNext]_scannerVars => BufferBounded'
  <2> SUFFICES ASSUME ScannerTypeOK, BufferBounded, [ScannerNext]_scannerVars
               PROVE  BufferBounded'
    OBVIOUS
  <2>t. buffer \in Seq(Bytes)
    BY DEF ScannerTypeOK
  <2>1. ASSUME NEW chunk \in Chunks, Feed(chunk) PROVE BufferBounded'
    BY <2>1 DEF Feed, BufferBounded
  <2>2. CASE NoSync
    <3>1. Len(buffer') <= 1
      BY <2>2, <2>t, WithoutSyncFacts, BehindFacts DEF NoSync
    <3> QED BY <3>1 DEF BufferBounded
  <2>3. ASSUME NEW m \in Matches(buffer), Incomplete(m) PROVE BufferBounded'
    <3>1. /\ m[2] \in Sats
          /\ <<Aligned(m)[1], Aligned(m)[2]>> = Sync[m[2]]
      BY <2>t, MatchFacts, AlignedFacts
    <3> QED BY <2>3, <3>1 DEF Incomplete, BufferBounded
  <2>4. ASSUME NEW m \in Matches(buffer), FalseSync(m) \/ TakeFrame(m)
        PROVE  BufferBounded'
    <3>1. loop' = "scan"
      BY <2>4 DEF FalseSync, TakeFrame, Complete
    <3> QED BY <3>1 DEF BufferBounded
  <2>5. CASE Send \/ SendError \/ AllSent \/ UNCHANGED scannerVars
    BY <2>5 DEF Send, SendError, AllSent, scannerVars, BufferBounded
  <2> QED BY <2>1, <2>2, <2>3, <2>4, <2>5 DEF ScannerNext, ScanStep
<1> QED BY <1>1, <1>2, TypeCorrect, PTL DEF ScannerSpec

-----------------------------------------------------------------------------
\* What is cut off at the front leaves the rest where it was in the stream.
LEMMA StillDelivered ==
  ASSUME ScannerTypeOK, FramesGenuine,
         stream' = stream, frames' = frames, starts' = starts,
         NEW n \in Nat, Len(buffer') = Len(buffer) - n, Len(buffer') \in Nat,
         \A k \in 1..Len(buffer') : buffer'[k] = buffer[n + k]
  PROVE  FramesGenuine'
<1>t. /\ Len(buffer) \in Nat /\ Len(stream) \in Nat
      /\ starts \in Seq(Nat \ {0}) /\ frames \in Seq(Seq(Bytes))
      /\ Len(starts) = Len(frames)
  BY DEF ScannerTypeOK, FramesGenuine
<1>1. ASSUME NEW k \in 1..Len(buffer')
      PROVE  buffer'[k] = stream[Len(stream) - Len(buffer') + 1 + k - 1]
  <2>1. n + k \in 1..Len(buffer)
    BY <1>t
  <2>2. buffer[n + k] = stream[Len(stream) - Len(buffer) + 1 + (n + k) - 1]
    BY <2>1 DEF FramesGenuine, DeliveredAt
  <2>3. Len(stream) - Len(buffer) + 1 + (n + k) - 1
          = Len(stream) - Len(buffer') + 1 + k - 1
    BY <1>t
  <2> QED BY <2>2, <2>3
<1>2. ASSUME NEW i \in 1..Len(frames)
      PROVE  starts[i] + Len(frames[i]) + Len(buffer') <= Len(stream) + 1
  <2>1. starts[i] + Len(frames[i]) + Len(buffer) <= Len(stream) + 1
    BY DEF FramesGenuine
  <2>2. starts[i] \in Nat /\ Len(frames[i]) \in Nat
    BY <1>t
  <2> QED BY <1>t, <2>1, <2>2
<1>3. \A i \in 1..Len(frames) : DeliveredAt(frames[i], starts[i])'
  BY DEF FramesGenuine, DeliveredAt
<1>4. DeliveredAt(buffer, Len(stream) - Len(buffer) + 1)'
  BY <1>1 DEF DeliveredAt
<1> QED BY <1>2, <1>3, <1>4 DEF FramesGenuine

\* A frame that is taken is the next piece of the stream.
LEMMA TakenIsGenuine ==
  ASSUME ScannerTypeOK, FramesGenuine,
         NEW m \in Matches(buffer), TakeFrame(m)
  PROVE  FramesGenuine'
<1> DEFINE n == Len(frames)
           f == Candidate(m)
           q == m[1]
           a == Len(Aligned(m))
           p == Len(stream) - a + 1
           l == Length[m[2]]
<1>t. /\ buffer \in Seq(Bytes) /\ Len(buffer) \in Nat
      /\ Len(stream) \in Nat /\ n \in Nat /\ Len(buffer) <= Len(stream)
      /\ starts \in Seq(Nat \ {0}) /\ frames \in Seq(Seq(Bytes))
      /\ Len(starts) = n
  BY DEF ScannerTypeOK, FramesGenuine
<1>c. Complete(m)
  BY DEF TakeFrame
<1>1. /\ q \in Nat \ {0} /\ m[2] \in Sats /\ l \in Nat /\ l >= 4
      /\ a = Len(buffer) - (q - 1) /\ a \in 2..Len(buffer) /\ a \in Nat
      /\ \A k \in 1..a : Aligned(m)[k] = buffer[q - 1 + k]
      /\ <<Aligned(m)[1], Aligned(m)[2]>> = Sync[m[2]]
      /\ a >= l
  BY <1>t, <1>c, MatchFacts, AlignedFacts DEF Complete
<1>2. /\ f \in Seq(Bytes) /\ Len(f) = l
      /\ \A k \in 1..l : f[k] = Aligned(m)[k]
      /\ Len(After(m)) = a - l
      /\ \A k \in 1..Len(After(m)) : After(m)[k] = Aligned(m)[l + k]
  BY <1>t, <1>c, CandidateFacts
<1>3. buffer' = After(m) /\ stream' = stream
  BY DEF TakeFrame
<1>5. frames' = Append(frames, f) /\ starts' = Append(starts, p)
  BY DEF TakeFrame
<1>6. IsFrameOf(f, m[2])
  <2>1. f[1] = Aligned(m)[1] /\ f[2] = Aligned(m)[2]
    BY <1>1, <1>2
  <2>2. Valid(f)
    BY DEF TakeFrame
  <2> QED BY <1>1, <1>2, <2>1, <2>2 DEF IsFrameOf
<1> HIDE DEF a, q, l
<1>4. Len(buffer') \in Nat /\ Len(buffer') = a - l
  BY <1>1, <1>2, <1>3
<1>7. p \in Nat \ {0} /\ p = Len(stream) - a + 1
  BY <1>t, <1>1
<1> HIDE DEF f, p
<1>8. \A k \in 1..a : Aligned(m)[k] = stream[p + k - 1]
  <2> SUFFICES ASSUME NEW k \in 1..a
               PROVE  Aligned(m)[k] = stream[p + k - 1]
    OBVIOUS
  <2>1. q - 1 + k \in 1..Len(buffer)
    BY <1>t, <1>1
  <2>2. buffer[q - 1 + k] = stream[Len(stream) - Len(buffer) + 1 + (q - 1 + k) - 1]
    BY <2>1 DEF FramesGenuine, DeliveredAt
  <2>3. Len(stream) - Len(buffer) + 1 + (q - 1 + k) - 1 = p + k - 1
    BY <1>t, <1>1, <1>7
  <2> QED BY <1>1, <2>2, <2>3
<1>9. /\ Len(frames') = n + 1 /\ Len(starts') = n + 1
      /\ \A i \in 1..n : frames'[i] = frames[i] /\ starts'[i] = starts[i]
      /\ frames'[n + 1] = f /\ starts'[n + 1] = p
  <2>1. /\ Len(frames') = n + 1 /\ frames'[n + 1] = f
        /\ \A i \in 1..n : frames'[i] = frames[i]
    BY <1>t, <1>2, <1>5, AppendFacts
  <2>2. /\ Len(starts') = n + 1 /\ starts'[n + 1] = p
        /\ \A i \in 1..n : starts'[i] = starts[i]
    BY <1>t, <1>5, <1>7, AppendFacts
  <2> QED BY <2>1, <2>2
<1>10. \A k \in 1..Len(f) : f[k] = stream'[p + k - 1]
  <2> SUFFICES ASSUME NEW k \in 1..l PROVE f[k] = stream[p + k - 1]
    BY <1>2, <1>3
  <2>1. k \in 1..a
    BY <1>1
  <2> QED BY <1>2, <1>8, <2>1
<1>11. p + l + Len(buffer') = Len(stream) + 1
  BY <1>t, <1>1, <1>4, <1>7
<1>12. ASSUME NEW i \in 1..n
       PROVE  /\ starts[i] + Len(frames[i]) <= p
              /\ starts[i] \in Nat /\ Len(frames[i]) \in Nat
  <2>1. starts[i] + Len(frames[i]) + Len(buffer) <= Len(stream) + 1
    BY DEF FramesGenuine
  <2>2. starts[i] \in Nat /\ Len(frames[i]) \in Nat
    BY <1>t
  <2>3. a \in Nat /\ a <= Len(buffer) /\ Len(buffer) \in Nat /\ Len(stream) \in Nat
    BY <1>t, <1>1
  <2>4. starts[i] + Len(frames[i]) <= Len(stream) - a + 1
    BY <2>1, <2>2, <2>3, EndsBefore
  <2> QED BY <1>7, <2>2, <2>4
<1>13. ASSUME NEW i \in 1..(n + 1)
       PROVE  /\ \E s \in Sats : IsFrameOf(frames'[i], s)
              /\ DeliveredAt(frames[i], starts[i])'
              /\ starts'[i] + Len(frames'[i]) + Len(buffer') <= Len(stream') + 1
  <2>1. CASE i = n + 1
    <3>1. frames'[i] = f /\ starts'[i] = p
      BY <1>9, <2>1
    <3>2. DeliveredAt(frames[i], starts[i])'
      BY <1>10, <3>1 DEF DeliveredAt
    <3>3. starts'[i] + Len(frames'[i]) + Len(buffer') <= Len(stream') + 1
      BY <1>t, <1>2, <1>3, <1>11, <3>1
    <3> QED BY <1>1, <1>6, <3>1, <3>2, <3>3
  <2>2. CASE i # n + 1
    <3>1. i \in 1..n
      BY <1>t, <2>2
    <3>2. frames'[i] = frames[i] /\ starts'[i] = starts[i]
      BY <1>9, <3>1
    <3>3. (\E s \in Sats : IsFrameOf(frames[i], s)) /\ DeliveredAt(frames[i], starts[i])
      BY <3>1 DEF FramesGenuine
    <3>4. DeliveredAt(frames[i], starts[i])'
      BY <1>3, <3>2, <3>3 DEF DeliveredAt
    <3>5. starts[i] + Len(frames[i]) + Len(buffer') <= Len(stream) + 1
      <4>1. starts[i] + Len(frames[i]) <= p /\ starts[i] \in Nat /\ Len(frames[i]) \in Nat
        BY <1>12, <3>1
      <4>2. p + Len(buffer') <= Len(stream) + 1
        BY <1>t, <1>1, <1>4, <1>7, <1>11
      <4>3. Len(buffer') \in Nat /\ Len(stream) \in Nat /\ p \in Nat
        BY <1>t, <1>4, <1>7
      <4> QED BY <4>1, <4>2, <4>3, FitsBehind
    <3> QED BY <1>3, <3>2, <3>3, <3>4, <3>5
  <2> QED BY <2>1, <2>2
<1>14. ASSUME NEW i \in 1..(n + 1), NEW j \in 1..(n + 1), i < j
       PROVE  starts'[i] + Len(frames'[i]) <= starts'[j]
  <2>1. i \in 1..n
    BY <1>t, <1>14
  <2>2. frames'[i] = frames[i] /\ starts'[i] = starts[i]
    BY <1>9, <2>1
  <2>3. CASE j = n + 1
    BY <1>9, <1>12, <2>1, <2>2, <2>3
  <2>4. CASE j # n + 1
    <3>1. j \in 1..n
      BY <1>t, <2>4
    <3>2. starts[i] + Len(frames[i]) <= starts[j]
      BY <1>14, <2>1, <3>1 DEF FramesGenuine
    <3> QED BY <1>9, <2>2, <3>1, <3>2
  <2> QED BY <2>3, <2>4
<1>15. DeliveredAt(buffer, Len(stream) - Len(buffer) + 1)'
  <2> SUFFICES ASSUME NEW k \in 1..Len(buffer')
               PROVE  buffer'[k] = stream'[Len(stream') - Len(buffer') + 1 + k - 1]
    BY DEF DeliveredAt
  <2>1. l + k \in 1..a
    BY <1>1, <1>4
  <2>2. buffer'[k] = Aligned(m)[l + k]
    BY <1>2, <1>3
  <2>3. Aligned(m)[l + k] = stream[p + (l + k) - 1]
    BY <1>8, <2>1
  <2>4. p + (l + k) - 1 = Len(stream) - Len(buffer') + 1 + k - 1
    BY <1>t, <1>1, <1>4, <1>7
  <2> QED BY <1>3, <2>2, <2>3, <2>4
<1> QED BY <1>9, <1>13, <1>14, <1>15 DEF FramesGenuine

\* A chunk that is fed follows what is in the buffer, as it does in the stream.
LEMMA FedIsDelivered ==
  ASSUME ScannerTypeOK, FramesGenuine, NEW chunk \in Chunks, Feed(chunk)
  PROVE  FramesGenuine'
<1>t. /\ buffer \in Seq(Bytes) /\ Len(buffer) \in Nat
      /\ stream \in Seq(Bytes) /\ Len(stream) \in Nat /\ Len(buffer) <= Len(stream)
      /\ starts \in Seq(Nat \ {0}) /\ frames \in Seq(Seq(Bytes))
      /\ Len(starts) = Len(frames)
      /\ chunk \in Seq(Bytes) /\ Len(chunk) \in Nat
  BY ChunkFacts DEF ScannerTypeOK, FramesGenuine
<1>1. stream' = stream \o chunk /\ buffer' = buffer \o chunk
  BY DEF Feed
<1>2. /\ Len(stream') = Len(stream) + Len(chunk)
      /\ \A k \in 1..Len(stream) : stream'[k] = stream[k]
      /\ \A k \in 1..Len(chunk) : stream'[Len(stream) + k] = chunk[k]
  BY <1>t, <1>1, ConcatFacts
<1>3. /\ Len(buffer') = Len(buffer) + Len(chunk)
      /\ \A k \in 1..Len(buffer) : buffer'[k] = buffer[k]
      /\ \A k \in 1..Len(chunk) : buffer'[Len(buffer) + k] = chunk[k]
  BY <1>t, <1>1, ConcatFacts
<1>4. frames' = frames /\ starts' = starts
  BY DEF Feed, output
<1>5. ASSUME NEW i \in 1..Len(frames)
      PROVE  /\ DeliveredAt(frames[i], starts[i])'
             /\ starts[i] + Len(frames[i]) + Len(buffer') <= Len(stream') + 1
  <2>1. /\ starts[i] \in Nat \ {0} /\ Len(frames[i]) \in Nat
        /\ starts[i] + Len(frames[i]) + Len(buffer) <= Len(stream) + 1
        /\ DeliveredAt(frames[i], starts[i])
    BY <1>t DEF FramesGenuine
  <2>2. \A k \in 1..Len(frames[i]) : starts[i] + k - 1 \in 1..Len(stream)
    <3>1. Len(buffer) \in Nat /\ Len(stream) \in Nat
      BY <1>t
    <3> QED BY <2>1, <3>1, InStream
  <2>3. DeliveredAt(frames[i], starts[i])'
    BY <1>2, <1>4, <2>1, <2>2 DEF DeliveredAt
  <2>4. starts[i] + Len(frames[i]) + Len(buffer') <= Len(stream') + 1
    <3>1. /\ starts[i] \in Nat /\ Len(buffer) \in Nat
          /\ Len(stream) \in Nat /\ Len(chunk) \in Nat
      BY <1>t, <2>1
    <3> QED BY <1>2, <1>3, <2>1, <3>1, StillFits
  <2> QED BY <2>3, <2>4
<1>6. ASSUME NEW k \in 1..Len(buffer')
      PROVE  buffer'[k] = stream'[Len(stream') - Len(buffer') + 1 + k - 1]
  <2>0. Len(stream') - Len(buffer') + 1 + k - 1 = Len(stream) - Len(buffer) + k
    BY <1>t, <1>2, <1>3
  <2>1. CASE k <= Len(buffer)
    <3>1. /\ k \in 1..Len(buffer)
          /\ Len(stream) - Len(buffer) + k \in 1..Len(stream)
          /\ Len(stream) - Len(buffer) + 1 + k - 1 = Len(stream) - Len(buffer) + k
      BY <1>t, <1>3, <2>1
    <3>2. buffer[k] = stream[Len(stream) - Len(buffer) + 1 + k - 1]
      BY <3>1 DEF FramesGenuine, DeliveredAt
    <3> QED BY <1>2, <1>3, <2>0, <3>1, <3>2
  <2>2. CASE k > Len(buffer)
    <3> DEFINE j == k - Len(buffer)
    <3>1. /\ j \in 1..Len(chunk) /\ Len(buffer) + j = k
          /\ Len(stream) - Len(buffer) + k = Len(stream) + j
      BY <1>t, <1>3, <2>2
    <3> HIDE DEF j
    <3>2. buffer'[k] = chunk[j] /\ stream'[Len(stream) + j] = chunk[j]
      BY <1>2, <1>3, <3>1
    <3> QED BY <2>0, <3>1, <3>2
  <2> QED BY <1>t, <1>3, <2>1, <2>2
<1>7. DeliveredAt(buffer, Len(stream) - Len(buffer) + 1)'
  BY <1>6 DEF DeliveredAt
<1> QED BY <1>4, <1>5, <1>7 DEF FramesGenuine

\* Every frame passed on was delivered by the radio as it is, in order, and no
\* byte of the stream is part of two of them.
THEOREM FramesAreGenuine == ScannerSpec => []FramesGenuine
<1>1. ScannerInit => FramesGenuine
  BY DEF ScannerInit, FramesGenuine, DeliveredAt
<1>2. ScannerTypeOK /\ FramesGenuine /\ [ScannerNext]_scannerVars => FramesGenuine'
  <2> SUFFICES ASSUME ScannerTypeOK, FramesGenuine, [ScannerNext]_scannerVars
               PROVE  FramesGenuine'
    OBVIOUS
  <2>t. buffer \in Seq(Bytes) /\ Len(buffer) \in Nat
    BY DEF ScannerTypeOK
  <2>1. ASSUME NEW chunk \in Chunks, Feed(chunk) PROVE FramesGenuine'
    BY <2>1, FedIsDelivered
  <2>2. CASE NoSync
    <3> DEFINE n == WithoutSync(buffer)
    <3>1. n \in 0..Len(buffer)
      BY <2>t, WithoutSyncFacts
    <3>2. buffer' = Behind(buffer, n)
      BY <2>2 DEF NoSync
    <3> HIDE DEF n
    <3>3. /\ Len(buffer') = Len(buffer) - n
          /\ \A k \in 1..(Len(buffer) - n) : buffer'[k] = buffer[n + k]
      BY <2>t, <3>1, <3>2, BehindFacts
    <3>4. n \in Nat /\ Len(buffer') \in Nat
      BY <2>t, <3>1, <3>3
    <3>5. stream' = stream /\ frames' = frames /\ starts' = starts
      BY <2>2 DEF NoSync, output
    <3> QED BY <3>3, <3>4, <3>5, StillDelivered
  <2>3. ASSUME NEW m \in Matches(buffer), Incomplete(m) PROVE FramesGenuine'
    <3> DEFINE n == m[1] - 1
    <3>1. /\ n \in Nat /\ Len(buffer') = Len(buffer) - n /\ Len(buffer') \in Nat
          /\ \A k \in 1..Len(buffer') : buffer'[k] = buffer[n + k]
      BY <2>3, <2>t, MatchFacts, AlignedFacts DEF Incomplete
    <3>2. stream' = stream /\ frames' = frames /\ starts' = starts
      BY <2>3 DEF Incomplete, output
    <3> HIDE DEF n
    <3> QED BY <3>1, <3>2, StillDelivered
  <2>4. ASSUME NEW m \in Matches(buffer), FalseSync(m) PROVE FramesGenuine'
    <3> DEFINE n == m[1] + 1
    <3>0. n \in Nat
      BY <2>t, MatchFacts
    <3>3. buffer' = Behind(Aligned(m), 2)
      BY <2>4 DEF FalseSync
    <3>1. /\ n \in Nat /\ Len(buffer') = Len(buffer) - n /\ Len(buffer') \in Nat
          /\ \A k \in 1..Len(buffer') : buffer'[k] = buffer[n + k]
      BY <2>t, <3>0, <3>3, SkippedFacts
    <3>2. stream' = stream /\ frames' = frames /\ starts' = starts
      BY <2>4 DEF FalseSync, output
    <3> HIDE DEF n
    <3> QED BY <3>1, <3>2, StillDelivered
  <2>5. ASSUME NEW m \in Matches(buffer), TakeFrame(m) PROVE FramesGenuine'
    BY <2>5, TakenIsGenuine
  <2>6. CASE Send \/ SendError \/ AllSent \/ UNCHANGED scannerVars
    <3>1. /\ buffer' = buffer /\ stream' = stream
          /\ frames' = frames /\ starts' = starts
      BY <2>6 DEF Send, SendError, AllSent, scannerVars, output
    <3> QED BY <3>1 DEF FramesGenuine, DeliveredAt
  <2> QED BY <2>1, <2>2, <2>3, <2>4, <2>5, <2>6 DEF ScannerNext, ScanStep
<1> QED BY <1>1, <1>2, TypeCorrect, PTL DEF ScannerSpec

-----------------------------------------------------------------------------
\* The places in frames are places of the stream, so there are finitely many.
LEMMA InFramesFinite ==
  ASSUME ScannerTypeOK
  PROVE  IsFiniteSet(InFrames) /\ Cardinality(InFrames) \in Nat
<1>1. Len(stream) \in Nat
  BY DEF ScannerTypeOK
<1>2. IsFiniteSet(1..Len(stream))
  BY <1>1, FS_Interval
<1>3. InFrames \in SUBSET (1..Len(stream))
  BY DEF InFrames
<1> QED BY <1>2, <1>3, FS_Subset, FS_CardinalityType

\* A chunk adds no place to a frame: they all end before the buffer.
LEMMA FeedTakesNothing ==
  ASSUME ScannerTypeOK, FramesGenuine, NEW chunk \in Chunks, Feed(chunk)
  PROVE  InFrames' = InFrames
<1>1. /\ chunk \in Seq(Bytes) /\ Len(chunk) \in Nat
      /\ stream \in Seq(Bytes) /\ Len(stream) \in Nat /\ Len(buffer) \in Nat
      /\ starts \in Seq(Nat \ {0}) /\ frames \in Seq(Seq(Bytes))
      /\ Len(starts) = Len(frames)
  BY ChunkFacts DEF ScannerTypeOK, FramesGenuine
<1>2. Len(stream') = Len(stream) + Len(chunk)
  BY <1>1, ConcatFacts DEF Feed
<1>3. frames' = frames /\ starts' = starts
  BY DEF Feed, output
<1>4. ASSUME NEW i \in 1..Len(frames), NEW q \in Nat, q < starts[i] + Len(frames[i])
      PROVE  q <= Len(stream)
  <2>1. starts[i] + Len(frames[i]) + Len(buffer) <= Len(stream) + 1
    BY DEF FramesGenuine
  <2>2. starts[i] \in Nat /\ Len(frames[i]) \in Nat
    BY <1>1
  <2> QED BY <1>1, <1>4, <2>1, <2>2
<1>5. ASSUME NEW q PROVE q \in InFrames' <=> q \in InFrames
  <2>1. CASE q \in InFrames
    <3>1. q \in 1..Len(stream')
      BY <1>1, <1>2, <2>1 DEF InFrames
    <3> QED BY <1>3, <2>1, <3>1 DEF InFrames
  <2>2. CASE q \in InFrames'
    <3>1. PICK i \in 1..Len(frames) : starts[i] <= q /\ q < starts[i] + Len(frames[i])
      BY <1>3, <2>2 DEF InFrames
    <3>2. q \in Nat /\ q >= 1
      BY <1>1, <1>2, <2>2 DEF InFrames
    <3>3. q \in 1..Len(stream)
      BY <1>1, <1>4, <3>1, <3>2
    <3> QED BY <2>2, <3>1, <3>3 DEF InFrames
  <2> QED BY <2>1, <2>2
<1> QED BY <1>5

\* A frame that is taken adds as many places as it has bytes.
LEMMA TakenAddsPlaces ==
  ASSUME ScannerTypeOK, FramesGenuine, FramesGenuine',
         NEW m \in Matches(buffer), TakeFrame(m)
  PROVE  Cardinality(InFrames') = Cardinality(InFrames) + Length[m[2]]
<1> DEFINE n == Len(frames)
           l == Length[m[2]]
           a == Len(Aligned(m))
           p == Len(stream) - a + 1
           New == p..(p + l - 1)
<1>1. /\ buffer \in Seq(Bytes) /\ Len(buffer) \in Nat
      /\ Len(stream) \in Nat /\ n \in Nat /\ Len(buffer) <= Len(stream)
      /\ starts \in Seq(Nat \ {0}) /\ frames \in Seq(Seq(Bytes))
      /\ Len(starts) = n /\ Complete(m)
  BY DEF ScannerTypeOK, FramesGenuine, TakeFrame
<1>2. /\ l \in Nat /\ l >= 4 /\ a \in 2..Len(buffer) /\ a >= l
      /\ Candidate(m) \in Seq(Bytes) /\ Len(Candidate(m)) = l
  BY <1>1, MatchFacts, AlignedFacts, CandidateFacts DEF Complete
<1>3. /\ frames' = Append(frames, Candidate(m))
      /\ starts' = Append(starts, p) /\ stream' = stream
  BY DEF TakeFrame
<1> HIDE DEF a, l
<1>4. p \in Nat \ {0} /\ p + l - 1 \in Nat /\ p + l - 1 <= Len(stream)
  BY <1>1, <1>2
<1>n. IsFiniteSet(New) /\ Cardinality(New) = l
  <2>1. p \in Int /\ p + l - 1 \in Int /\ ~(p > p + l - 1) /\ (p + l - 1) - p + 1 = l
    BY <1>2, <1>4
  <2> HIDE DEF p
  <2> QED BY <2>1, FS_Interval
<1> HIDE DEF p
<1>5. /\ Len(frames') = n + 1 /\ frames'[n + 1] = Candidate(m)
      /\ \A i \in 1..n : frames'[i] = frames[i] /\ starts'[i] = starts[i]
      /\ starts'[n + 1] = p
  BY <1>1, <1>2, <1>3, <1>4, AppendFacts
<1>6. ASSUME NEW i \in 1..n
      PROVE  /\ starts[i] + Len(frames[i]) <= p
             /\ starts[i] \in Nat /\ Len(frames[i]) \in Nat
  <2>1. i \in 1..(n + 1) /\ n + 1 \in 1..(n + 1) /\ i < n + 1
    BY <1>1
  <2>2. starts'[i] + Len(frames'[i]) <= starts'[n + 1]
    BY <1>5, <2>1 DEF FramesGenuine
  <2> QED BY <1>1, <1>5, <2>2
<1>7. InFrames' = InFrames \cup New
  <2>1. ASSUME NEW q \in InFrames' PROVE q \in InFrames \cup New
    <3>1. PICK i \in 1..(n + 1) : starts'[i] <= q /\ q < starts'[i] + Len(frames'[i])
      BY <1>5 DEF InFrames
    <3>2. q \in 1..Len(stream)
      BY <1>3 DEF InFrames
    <3>3. CASE i = n + 1
      BY <1>1, <1>2, <1>4, <1>5, <3>1, <3>2, <3>3
    <3>4. CASE i # n + 1
      <4>1. i \in 1..n
        BY <1>1, <3>4
      <4> QED BY <1>5, <3>1, <3>2, <4>1 DEF InFrames
    <3> QED BY <3>3, <3>4
  <2>2. ASSUME NEW q \in InFrames PROVE q \in InFrames'
    <3>1. PICK i \in 1..n : starts[i] <= q /\ q < starts[i] + Len(frames[i])
      BY DEF InFrames
    <3>2. i \in 1..(n + 1) /\ starts'[i] <= q /\ q < starts'[i] + Len(frames'[i])
      BY <1>1, <1>5, <3>1
    <3> QED BY <1>3, <1>5, <3>2 DEF InFrames
  <2>3. ASSUME NEW q \in New PROVE q \in InFrames'
    <3>1. q \in 1..Len(stream) /\ p <= q /\ q < p + l
      BY <1>1, <1>2, <1>4
    <3>2. n + 1 \in 1..(n + 1)
      BY <1>1
    <3>3. starts'[n + 1] <= q /\ q < starts'[n + 1] + Len(frames'[n + 1])
      BY <1>2, <1>5, <3>1
    <3> QED BY <1>3, <1>5, <3>1, <3>2, <3>3 DEF InFrames
  <2> QED BY <2>1, <2>2, <2>3
<1>8. InFrames \cap New = {}
  <2> SUFFICES ASSUME NEW q \in InFrames, q \in New PROVE FALSE
    OBVIOUS
  <2>1. PICK i \in 1..n : q < starts[i] + Len(frames[i])
    BY DEF InFrames
  <2>2. q \in Int /\ p <= q
    BY <1>2, <1>4
  <2> QED BY <1>4, <1>6, <2>1, <2>2
<1>9. IsFiniteSet(InFrames) /\ Cardinality(InFrames) \in Nat
  BY InFramesFinite
<1> HIDE DEF New
<1>10. Cardinality(InFrames \cup New)
         = Cardinality(InFrames) + Cardinality(New) - Cardinality(InFrames \cap New)
  BY <1>n, <1>9, FS_Union
<1>11. Cardinality(InFrames \cap New) = 0
  BY <1>8, FS_EmptySet
<1>12. Cardinality(InFrames \cup New) = Cardinality(InFrames) + l
  <2>1. ASSUME NEW c, NEW x \in Nat, NEW y \in Nat, NEW d, c = x + y - d, d = 0
        PROVE  c = x + y
    BY <2>1
  <2> QED BY <1>2, <1>n, <1>9, <1>10, <1>11, <2>1
<1> QED BY <1>7, <1>12 DEF l

\* Bytes that leave the buffer are counted as junk or belong to a frame.
LEMMA DroppedIsJunk ==
  ASSUME NEW all, NEW inside \in Nat, NEW counted \in Nat, NEW kept \in Nat,
         NEW dropped \in Nat, all = inside + counted + kept
  PROVE  all = inside + (counted + dropped) + (kept - dropped)
OBVIOUS

\* The sums of the passes, bracketed as DroppedIsJunk wants them.
LEMMA Bracketed ==
  ASSUME NEW n \in Nat, NEW p \in Nat \ {0}
  PROVE  /\ p - 1 \in Nat /\ n + p - 1 = n + (p - 1)
         /\ p + 1 \in Nat /\ n + p - 1 + 2 = n + (p + 1)
OBVIOUS

\* Every byte of the stream is in a frame, counted as junk, or in the buffer.
THEOREM BytesAreAccounted == ScannerSpec => []BytesAccounted
<1>1. ScannerInit => BytesAccounted
  <2> SUFFICES ASSUME ScannerInit PROVE BytesAccounted
    OBVIOUS
  <2>1. InFrames = {} /\ Len(stream) = 0 /\ junk = 0 /\ Len(buffer) = 0
    BY DEF ScannerInit, InFrames
  <2>2. Cardinality(InFrames) = 0
    BY <2>1, FS_EmptySet
  <2> QED BY <2>1, <2>2 DEF BytesAccounted
<1>2. /\ ScannerTypeOK /\ FramesGenuine /\ FramesGenuine' /\ BytesAccounted
      /\ [ScannerNext]_scannerVars
      => BytesAccounted'
  <2> SUFFICES ASSUME ScannerTypeOK, FramesGenuine, FramesGenuine', BytesAccounted,
                      [ScannerNext]_scannerVars
               PROVE  BytesAccounted'
    OBVIOUS
  <2> DEFINE c == Cardinality(InFrames)
  <2>t. /\ buffer \in Seq(Bytes) /\ Len(buffer) \in Nat /\ Len(stream) \in Nat
        /\ junk \in Nat /\ c \in Nat /\ Len(stream) = c + junk + Len(buffer)
    BY InFramesFinite DEF ScannerTypeOK, BytesAccounted
  <2> HIDE DEF c
  <2>1. ASSUME NEW chunk \in Chunks, Feed(chunk) PROVE BytesAccounted'
    <3>1. /\ chunk \in Seq(Bytes) /\ Len(chunk) \in Nat /\ stream \in Seq(Bytes)
          /\ stream' = stream \o chunk /\ buffer' = buffer \o chunk /\ junk' = junk
      BY <2>1, ChunkFacts DEF Feed, stats, ScannerTypeOK
    <3>2. /\ Len(stream') = Len(stream) + Len(chunk)
          /\ Len(buffer') = Len(buffer) + Len(chunk)
      BY <2>t, <3>1, ConcatFacts
    <3>3. c' = c
      BY <2>1, FeedTakesNothing DEF c
    <3>4. Len(stream') = c' + junk' + Len(buffer')
      BY <2>t, <3>1, <3>2, <3>3
    <3> QED BY <3>4 DEF BytesAccounted, c
  <2>2. ASSUME NEW d \in Nat, junk' = junk + d, Len(buffer') = Len(buffer) - d,
               stream' = stream, frames' = frames, starts' = starts
        PROVE  BytesAccounted'
    <3>1. c' = c
      BY <2>2 DEF InFrames, c
    <3>2. Len(stream') = c' + junk' + Len(buffer')
      BY <2>t, <2>2, <3>1, DroppedIsJunk
    <3> QED BY <3>2 DEF BytesAccounted, c
  <2>3. CASE NoSync
    <3> DEFINE d == WithoutSync(buffer)
    <3>1. /\ d \in 0..Len(buffer) /\ junk' = junk + d
          /\ buffer' = Behind(buffer, d)
          /\ stream' = stream /\ frames' = frames /\ starts' = starts
      BY <2>3, <2>t, WithoutSyncFacts DEF NoSync, output
    <3> HIDE DEF d
    <3>2. d \in Nat /\ Len(buffer') = Len(buffer) - d
      BY <2>t, <3>1, BehindFacts
    <3> QED BY <2>2, <3>1, <3>2
  <2>4. ASSUME NEW m \in Matches(buffer), Incomplete(m) PROVE BytesAccounted'
    <3> DEFINE d == m[1] - 1
    <3>1. m[1] \in Nat \ {0} /\ Len(Aligned(m)) = Len(buffer) - d
      BY <2>t, MatchFacts, AlignedFacts
    <3>2. /\ junk' = junk + m[1] - 1 /\ Len(buffer') = Len(buffer) - d
          /\ stream' = stream /\ frames' = frames /\ starts' = starts
      BY <2>4, <3>1 DEF Incomplete, output
    <3>3. d \in Nat /\ junk + m[1] - 1 = junk + d
      BY <2>t, <3>1, Bracketed
    <3> HIDE DEF d
    <3> QED BY <2>2, <3>2, <3>3
  <2>5. ASSUME NEW m \in Matches(buffer), FalseSync(m) PROVE BytesAccounted'
    <3> DEFINE d == m[1] + 1
    <3>1. m[1] \in Nat \ {0} /\ Len(Behind(Aligned(m), 2)) = Len(buffer) - d
      BY <2>t, MatchFacts, SkippedFacts
    <3>2. /\ junk' = junk + m[1] - 1 + 2 /\ Len(buffer') = Len(buffer) - d
          /\ stream' = stream /\ frames' = frames /\ starts' = starts
      BY <2>5, <3>1 DEF FalseSync, output
    <3>3. d \in Nat /\ junk + m[1] - 1 + 2 = junk + d
      BY <2>t, <3>1, Bracketed
    <3> HIDE DEF d
    <3> QED BY <2>2, <3>2, <3>3
  <2>6. ASSUME NEW m \in Matches(buffer), TakeFrame(m) PROVE BytesAccounted'
    <3> DEFINE d == m[1] - 1
               l == Length[m[2]]
    <3>1. /\ m[1] \in Nat \ {0} /\ l \in Nat
          /\ Len(Aligned(m)) = Len(buffer) - d
          /\ Len(After(m)) = Len(Aligned(m)) - l
      BY <2>6, <2>t, MatchFacts, AlignedFacts, CandidateFacts DEF TakeFrame
    <3>2. junk' = junk + m[1] - 1 /\ buffer' = After(m) /\ stream' = stream
      BY <2>6 DEF TakeFrame
    <3>4. d \in Nat /\ junk + m[1] - 1 = junk + d
      BY <2>t, <3>1, Bracketed
    <3>3. c' = c + l
      BY <2>6, TakenAddsPlaces DEF c, l
    <3> HIDE DEF d, l
    <3>5. Len(stream') = c' + junk' + Len(buffer')
      BY <2>t, <3>1, <3>2, <3>3, <3>4
    <3> QED BY <3>5 DEF BytesAccounted, c
  <2>7. CASE Send \/ SendError \/ AllSent \/ UNCHANGED scannerVars
    <3>1. /\ buffer' = buffer /\ stream' = stream /\ junk' = junk
          /\ frames' = frames /\ starts' = starts
      BY <2>7 DEF Send, SendError, AllSent, scannerVars, stats, output
    <3> QED BY <3>1 DEF BytesAccounted, InFrames
  <2> QED BY <2>1, <2>3, <2>4, <2>5, <2>6, <2>7 DEF ScannerNext, ScanStep
<1> QED BY <1>1, <1>2, TypeCorrect, FramesAreGenuine, PTL DEF ScannerSpec

-----------------------------------------------------------------------------
\* A set of natural numbers has a least element.
LEMMA Least ==
  ASSUME NEW T \in SUBSET Nat, T # {}
  PROVE  \E n \in T : \A m \in T : n <= m
<1> DEFINE R == OpToRel(<, Nat)
<1>1. IsWellFoundedOn(R, Nat)
  BY NatLessThanWellFounded
<1>2. \A m, n \in Nat : m < n => <<m, n>> \in R
  BY DEF OpToRel
<1> HIDE DEF R
<1>3. PICK n \in T : \A m \in T : ~ (<<m, n>> \in R)
  BY <1>1, WFMin
<1>4. \A m \in T : ~ (m < n)
  BY <1>2, <1>3
<1>5. \A m \in T : n <= m
  BY <1>4
<1> QED BY <1>5

\* Induction, for a set of natural numbers.
LEMMA AllNumbers ==
  ASSUME NEW T \in SUBSET Nat, 0 \in T, \A n \in T : n + 1 \in T
  PROVE  \A n \in Nat : n \in T
<1> SUFFICES ASSUME Nat \ T # {} PROVE FALSE
  OBVIOUS
<1>1. PICK n \in Nat \ T : \A m \in Nat \ T : n <= m
  BY Least
<1>2. n - 1 \in Nat /\ n - 1 < n
  BY <1>1
<1> QED BY <1>1, <1>2

-----------------------------------------------------------------------------
\* The function of which Returned takes a value.
Passes(st) == CHOOSE pass : pass = [n \in Nat |-> IF n = 0 THEN st ELSE Pass(pass[n - 1])]

\* f is that function up to n.
PassesUpTo(st, f, n) == f = [i \in 0..n |-> IF i = 0 THEN st ELSE Pass(f[i - 1])]

\* What such a function is at each place.
LEMMA UpToFacts ==
  ASSUME NEW st, NEW n \in Nat, NEW f, PassesUpTo(st, f, n)
  PROVE  f[0] = st /\ \A i \in 1..n : f[i] = Pass(f[i - 1])
<1>1. f = [i \in 0..n |-> IF i = 0 THEN st ELSE Pass(f[i - 1])]
  BY DEF PassesUpTo
<1>2. \A i \in 0..n : f[i] = IF i = 0 THEN st ELSE Pass(f[i - 1])
  BY <1>1, Zenon
<1>3. 0 \in 0..n
  OBVIOUS
<1>4. \A i \in 1..n : i \in 0..n /\ i # 0
  OBVIOUS
<1> QED BY <1>2, <1>3, <1>4

\* Two of them agree where both are defined.
LEMMA UpToUnique ==
  ASSUME NEW st, NEW n \in Nat, NEW f, PassesUpTo(st, f, n),
         NEW k \in Nat, NEW g, PassesUpTo(st, g, k), n <= k
  PROVE  \A i \in 0..n : f[i] = g[i]
<1> DEFINE T == {i \in Nat : i <= n => f[i] = g[i]}
<1>1. f[0] = st /\ \A i \in 1..n : f[i] = Pass(f[i - 1])
  BY UpToFacts
<1>2. g[0] = st /\ \A i \in 1..k : g[i] = Pass(g[i - 1])
  BY UpToFacts
<1>3. 0 \in T
  BY <1>1, <1>2
<1>4. ASSUME NEW i \in T PROVE i + 1 \in T
  <2> SUFFICES ASSUME i + 1 <= n PROVE f[i + 1] = g[i + 1]
    OBVIOUS
  <2>1. i \in Nat /\ i + 1 \in 1..n /\ i + 1 \in 1..k /\ (i + 1) - 1 = i /\ i <= n
    OBVIOUS
  <2>2. f[i + 1] = Pass(f[i]) /\ g[i + 1] = Pass(g[i])
    BY <1>1, <1>2, <2>1
  <2>3. f[i] = g[i]
    BY <2>1
  <2> QED BY <2>2, <2>3
<1>5. \A i \in Nat : i \in T
  <2> HIDE DEF T
  <2>1. T \in SUBSET Nat
    BY DEF T
  <2> QED BY <1>3, <1>4, <2>1, AllNumbers
<1> QED BY <1>5

\* For every n there is one.
LEMMA UpToExists ==
  ASSUME NEW st, NEW n \in Nat
  PROVE  \E f : PassesUpTo(st, f, n)
<1> DEFINE T == {k \in Nat : \E f : PassesUpTo(st, f, k)}
<1>1. 0 \in T
  <2> DEFINE f == [i \in 0..0 |-> st]
  <2>1. PassesUpTo(st, f, 0)
    BY DEF PassesUpTo
  <2> QED BY <2>1
<1>2. ASSUME NEW k \in T PROVE k + 1 \in T
  <2>1. PICK f : PassesUpTo(st, f, k)
    OBVIOUS
  <2>2. f[0] = st /\ \A i \in 1..k : f[i] = Pass(f[i - 1])
    BY <2>1, UpToFacts
  <2> DEFINE g == [i \in 0..(k + 1) |-> IF i = 0 THEN st ELSE Pass(f[i - 1])]
  <2>3. ASSUME NEW i \in 1..(k + 1) PROVE g[i - 1] = f[i - 1]
    <3>1. k \in Nat /\ i - 1 \in 0..(k + 1) /\ (i - 1 # 0 => i - 1 \in 1..k)
      OBVIOUS
    <3>2. g[i - 1] = IF i - 1 = 0 THEN st ELSE Pass(f[(i - 1) - 1])
      BY <3>1
    <3> QED BY <2>2, <3>1, <3>2
  <2>4. \A i \in 0..(k + 1) : i # 0 => i \in 1..(k + 1)
    OBVIOUS
  <2>5. g = [i \in 0..(k + 1) |-> IF i = 0 THEN st ELSE Pass(g[i - 1])]
    BY <2>3, <2>4
  <2> HIDE DEF g
  <2>6. PassesUpTo(st, g, k + 1)
    BY <2>5 DEF PassesUpTo
  <2> QED BY <2>6
<1>3. \A k \in Nat : k \in T
  <2> HIDE DEF T
  <2>1. T \in SUBSET Nat
    BY DEF T
  <2> QED BY <1>1, <1>2, <2>1, AllNumbers
<1> QED BY <1>3

\* Each value of the function is one pass after the one before.
LEMMA PassesFacts ==
  ASSUME NEW st
  PROVE  /\ Passes(st)[0] = st
         /\ \A n \in Nat : Passes(st)[n + 1] = Pass(Passes(st)[n])
<1> DEFINE Is(h) == h = [n \in Nat |-> IF n = 0 THEN st ELSE Pass(h[n - 1])]
           upTo(n) == CHOOSE f : PassesUpTo(st, f, n)
           h == [n \in Nat |-> upTo(n)[n]]
<1>1. \A n \in Nat : PassesUpTo(st, upTo(n), n)
  BY UpToExists
<1> HIDE DEF upTo
<1>2. ASSUME NEW n \in Nat, n # 0 PROVE h[n] = Pass(h[n - 1])
  <2>1. n - 1 \in Nat /\ n - 1 <= n /\ n \in 1..n /\ n - 1 \in 0..(n - 1)
    BY <1>2
  <2>2. PassesUpTo(st, upTo(n), n) /\ PassesUpTo(st, upTo(n - 1), n - 1)
    BY <1>1, <2>1
  <2>3. upTo(n)[n] = Pass(upTo(n)[n - 1])
    BY <2>1, <2>2, UpToFacts
  <2>4. upTo(n - 1)[n - 1] = upTo(n)[n - 1]
    BY <2>1, <2>2, UpToUnique
  <2>5. h[n] = upTo(n)[n] /\ h[n - 1] = upTo(n - 1)[n - 1]
    BY <2>1
  <2> QED BY <2>3, <2>4, <2>5
<1>3. h[0] = st
  <2>1. upTo(0)[0] = st
    BY <1>1, UpToFacts
  <2> QED BY <2>1
<1>4. Is(h)
  BY <1>2, <1>3
<1> HIDE DEF h
<1>5. Is(Passes(st))
  <2>1. \E p : Is(p)
    BY <1>4
  <2>2. Passes(st) = CHOOSE p : Is(p)
    BY DEF Passes
  <2> HIDE DEF Is
  <2> QED BY <2>1, <2>2
<1> DEFINE p == Passes(st)
<1>6. p = [n \in Nat |-> IF n = 0 THEN st ELSE Pass(p[n - 1])]
  BY <1>5
<1> HIDE DEF p
<1>7. \A n \in Nat : p[n] = IF n = 0 THEN st ELSE Pass(p[n - 1])
  BY <1>6, Zenon
<1>8. \A n \in Nat : n + 1 \in Nat /\ n + 1 # 0 /\ (n + 1) - 1 = n
  OBVIOUS
<1>9. p[0] = st /\ \A n \in Nat : p[n + 1] = Pass(p[n])
  BY <1>7, <1>8
<1> QED BY <1>9 DEF p

\* Returned is its value at the number of bytes of the buffer.
LEMMA ReturnedIsPasses ==
  ASSUME NEW st
  PROVE  Returned(st) = Passes(st)[Len(st.rest)]
BY DEF Returned, Passes

-----------------------------------------------------------------------------
\* The scanners that Pass is about.
Scanners == [rest : Seq(Bytes), junk : Nat, gaps : Nat,
             last : [Sats -> Bytes \cup {-1}], frames : Seq(Seq(Bytes))]

\* One of them, of its parts.
Scanner(bytes, j, g, l, f) ==
  [rest |-> bytes, junk |-> j, gaps |-> g, last |-> l, frames |-> f]

\* A sync word found in a sequence of bytes lies inside it.
LEMMA SyncFacts ==
  ASSUME NEW b \in Seq(Bytes), NEW m \in Matches(b)
  PROVE  /\ m[1] \in 1..(Len(b) - 1) /\ m[1] \in Nat \ {0} /\ m[2] \in Sats
         /\ m = <<m[1], m[2]>>
         /\ <<b[m[1]], b[m[1] + 1]>> = Sync[m[2]]
         /\ Length[m[2]] \in Nat /\ Length[m[2]] >= 4
BY TmScannerAssumption DEF TmScannerAssumption, Matches

\* Where there is a sync word, one is the earliest, and no other.
LEMMA EarliestExists ==
  ASSUME NEW b \in Seq(Bytes), Matches(b) # {}
  PROVE  \E m \in Matches(b) : Earliest(m, b)
<1> DEFINE P == {p \in Nat : \E m \in Matches(b) : m[1] = p}
<1>1. \A m \in Matches(b) : m[1] \in P
  BY SyncFacts
<1>2. P \in SUBSET Nat /\ P # {}
  BY <1>1
<1>3. PICK p \in P : \A q \in P : p <= q
  BY <1>2, Least
<1>4. PICK m \in Matches(b) : m[1] = p
  BY <1>3
<1>5. \A n \in Matches(b) : m[1] <= n[1]
  BY <1>1, <1>3, <1>4
<1> QED BY <1>5 DEF Earliest

\* No two satellites have the same sync word, so there is only one earliest.
LEMMA EarliestUnique ==
  ASSUME NEW b \in Seq(Bytes), NEW m, Earliest(m, b), NEW n, Earliest(n, b)
  PROVE  m = n
<1>1. m \in Matches(b) /\ n \in Matches(b) /\ m[1] <= n[1] /\ n[1] <= m[1]
  BY DEF Earliest
<1>2. /\ m[1] \in Nat \ {0} /\ m[2] \in Sats /\ m = <<m[1], m[2]>>
      /\ n[1] \in Nat \ {0} /\ n[2] \in Sats /\ n = <<n[1], n[2]>>
      /\ <<b[m[1]], b[m[1] + 1]>> = Sync[m[2]]
      /\ <<b[n[1]], b[n[1] + 1]>> = Sync[n[2]]
  BY <1>1, SyncFacts
<1>3. m[1] = n[1]
  BY <1>1, <1>2
<1>4. Sync[m[2]] = Sync[n[2]]
  BY <1>2, <1>3
<1>5. m[2] = n[2]
  BY <1>2, <1>4, TmScannerAssumption DEF TmScannerAssumption
<1> QED BY <1>2, <1>3, <1>5

\* Which pass it is depends on the earliest sync word.
LEMMA PassIsAt ==
  ASSUME NEW st, st.rest \in Seq(Bytes), NEW m, Earliest(m, st.rest)
  PROVE  Pass(st) = PassAt(st, m)
<1>1. m \in Matches(st.rest)
  BY DEF Earliest
<1>2. (CHOOSE n \in Matches(st.rest) : Earliest(n, st.rest)) = m
  BY <1>1, EarliestUnique
<1> QED BY <1>1, <1>2 DEF Pass

\* A pass that finds no sync word.
LEMMA PassWithout ==
  ASSUME NEW st \in Scanners, Matches(st.rest) = {}
  PROVE  Pass(st) = Scanner(Behind(st.rest, WithoutSync(st.rest)),
                            st.junk + WithoutSync(st.rest),
                            st.gaps, st.last, st.frames)
BY DEF Pass, Scanner, Scanners

\* The three ways a pass goes at a sync word.
LEMMA PassAtShort ==
  ASSUME NEW st \in Scanners, NEW m,
         Len(Behind(st.rest, m[1] - 1)) < Length[m[2]]
  PROVE  PassAt(st, m) = Scanner(Behind(st.rest, m[1] - 1), st.junk + m[1] - 1,
                                 st.gaps, st.last, st.frames)
BY DEF PassAt, Scanner, Scanners

\* The sync word starts no valid frame.
LEMMA PassAtFalse ==
  ASSUME NEW st \in Scanners, NEW m,
         ~ (Len(Behind(st.rest, m[1] - 1)) < Length[m[2]]),
         ~ Valid(SubSeq(Behind(st.rest, m[1] - 1), 1, Length[m[2]]))
  PROVE  PassAt(st, m) = Scanner(Behind(Behind(st.rest, m[1] - 1), 2),
                                 st.junk + m[1] - 1 + 2,
                                 st.gaps, st.last, st.frames)
BY DEF PassAt, Scanner, Scanners

\* It does, and the frame is taken.
LEMMA PassAtFrame ==
  ASSUME NEW st \in Scanners, NEW m,
         ~ (Len(Behind(st.rest, m[1] - 1)) < Length[m[2]]),
         NEW f, f = SubSeq(Behind(st.rest, m[1] - 1), 1, Length[m[2]]), Valid(f)
  PROVE  PassAt(st, m) = Scanner(Behind(Behind(st.rest, m[1] - 1), Length[m[2]]),
                                 st.junk + m[1] - 1,
                                 st.gaps + Missing(st.last[m[2]], VcCount(f)),
                                 [st.last EXCEPT ![m[2]] = VcCount(f)],
                                 Append(st.frames, f))
BY DEF PassAt, Scanner, Scanners

\* The fields of a scanner put together from its parts.
LEMMA ScannerFacts ==
  ASSUME NEW b, NEW j, NEW g, NEW l, NEW f
  PROVE  /\ Scanner(b, j, g, l, f).rest = b
         /\ Scanner(b, j, g, l, f).junk = j
         /\ Scanner(b, j, g, l, f).gaps = g
         /\ Scanner(b, j, g, l, f).last = l
         /\ Scanner(b, j, g, l, f).frames = f
         /\ b \in Seq(Bytes) /\ j \in Nat /\ g \in Nat
              /\ l \in [Sats -> Bytes \cup {-1}] /\ f \in Seq(Seq(Bytes))
            => Scanner(b, j, g, l, f) \in Scanners
BY DEF Scanner, Scanners

\* And of any scanner: it is its parts put together.
LEMMA ScannersFacts ==
  ASSUME NEW st \in Scanners
  PROVE  /\ st.rest \in Seq(Bytes) /\ st.junk \in Nat /\ st.gaps \in Nat
         /\ st.last \in [Sats -> Bytes \cup {-1}] /\ st.frames \in Seq(Seq(Bytes))
         /\ st = Scanner(st.rest, st.junk, st.gaps, st.last, st.frames)
BY DEF Scanner, Scanners

\* What is left when nothing is dropped.
LEMMA BehindNothing ==
  ASSUME NEW b \in Seq(Bytes)
  PROVE  Behind(b, 0) = b
BY DEF Behind

-----------------------------------------------------------------------------
\* What is known of the bytes from a sync word on.
LEMMA FromSync ==
  ASSUME NEW b \in Seq(Bytes), NEW m \in Matches(b)
  PROVE  /\ Behind(b, m[1] - 1) \in Seq(Bytes)
         /\ Len(Behind(b, m[1] - 1)) = Len(b) - (m[1] - 1)
         /\ Len(Behind(b, m[1] - 1)) \in 2..Len(b)
         /\ m[1] # 1 => Len(Behind(b, m[1] - 1)) < Len(b)
<1>1. m[1] \in 1..(Len(b) - 1) /\ Len(b) \in Nat
  BY SyncFacts
<1>2. m[1] - 1 \in 0..Len(b)
  BY <1>1
<1>3. /\ Behind(b, m[1] - 1) \in Seq(Bytes)
      /\ Len(Behind(b, m[1] - 1)) = Len(b) - (m[1] - 1)
  BY <1>2, BehindFacts
<1> QED BY <1>1, <1>3

\* A count of a frame is a byte.
LEMMA FrameFacts ==
  ASSUME NEW b \in Seq(Bytes), NEW l \in Nat, l >= 4, ~ (Len(b) < l)
  PROVE  /\ SubSeq(b, 1, l) \in Seq(Bytes) /\ Len(SubSeq(b, 1, l)) = l
         /\ \A k \in 1..l : SubSeq(b, 1, l)[k] = b[k]
         /\ VcCount(SubSeq(b, 1, l)) \in Bytes
         /\ Behind(b, l) \in Seq(Bytes) /\ Len(Behind(b, l)) = Len(b) - l
<1>1. /\ SubSeq(b, 1, l) \in Seq(Bytes) /\ Len(SubSeq(b, 1, l)) = l
      /\ \A k \in 1..l : SubSeq(b, 1, l)[k] = b[k]
  OBVIOUS
<1>2. l \in 0..Len(b)
  OBVIOUS
<1>3. VcCount(SubSeq(b, 1, l)) \in Bytes
  BY <1>1 DEF VcCount
<1> QED BY <1>1, <1>2, <1>3, BehindFacts

\* A pass leaves what the scanner had found, and is the last or takes bytes.
Continues(st, next) ==
  /\ next \in Scanners
  /\ next = st \/ Len(next.rest) < Len(st.rest)
  /\ Len(next.frames) >= Len(st.frames)
  /\ \A i \in 1..Len(st.frames) : next.frames[i] = st.frames[i]

\* Every pass is one of those.
LEMMA PassContinues ==
  ASSUME NEW st \in Scanners
  PROVE  Continues(st, Pass(st))
<1> DEFINE b == st.rest
<1>1. /\ b \in Seq(Bytes) /\ st.junk \in Nat /\ st.gaps \in Nat /\ Len(b) \in Nat
      /\ st.last \in [Sats -> Bytes \cup {-1}] /\ st.frames \in Seq(Seq(Bytes))
      /\ st = Scanner(b, st.junk, st.gaps, st.last, st.frames)
  BY ScannersFacts
<1> HIDE DEF b
<1>2. ASSUME NEW r \in Seq(Bytes), Len(r) < Len(b), NEW j \in Nat
      PROVE  Continues(st, Scanner(r, j, st.gaps, st.last, st.frames))
  BY <1>1, <1>2, ScannerFacts DEF Continues, b
<1>3. CASE Matches(b) = {}
  <2> DEFINE k == WithoutSync(b)
  <2>1. k \in 0..Len(b)
    BY <1>1, WithoutSyncFacts
  <2>2. Pass(st) = Scanner(Behind(b, k), st.junk + k, st.gaps, st.last, st.frames)
    BY <1>3, PassWithout DEF b
  <2> HIDE DEF k
  <2>3. CASE k = 0
    <3>1. Behind(b, k) = b /\ st.junk + k = st.junk
      BY <1>1, <2>3, BehindNothing
    <3>2. Pass(st) = st
      BY <1>1, <2>2, <3>1
    <3> QED BY <1>1, <3>2 DEF Continues
  <2>4. CASE k # 0
    <3>1. Behind(b, k) \in Seq(Bytes) /\ Len(Behind(b, k)) = Len(b) - k
      BY <1>1, <2>1, BehindFacts
    <3>2. Len(Behind(b, k)) < Len(b) /\ st.junk + k \in Nat
      BY <1>1, <2>1, <2>4, <3>1
    <3> QED BY <1>2, <2>2, <3>1, <3>2
  <2> QED BY <2>3, <2>4
<1>4. CASE Matches(b) # {}
  <2>1. PICK m \in Matches(b) : Earliest(m, b)
    BY <1>1, <1>4, EarliestExists
  <2>2. Pass(st) = PassAt(st, m)
    BY <1>1, <2>1, PassIsAt DEF b
  <2> DEFINE a == Behind(b, m[1] - 1)
             l == Length[m[2]]
             f == SubSeq(a, 1, l)
  <2>3. /\ m[1] \in Nat \ {0} /\ m[2] \in Sats /\ l \in Nat /\ l >= 4
        /\ a \in Seq(Bytes) /\ Len(a) \in 2..Len(b)
        /\ Len(a) = Len(b) - (m[1] - 1)
    BY <1>1, SyncFacts, FromSync
  <2>4. CASE Len(a) < l
    <3>1. Pass(st) = Scanner(a, st.junk + m[1] - 1, st.gaps, st.last, st.frames)
      BY <2>2, <2>4, PassAtShort DEF b
    <3> HIDE DEF a, l, f
    <3>2. CASE m[1] = 1
      <4>1. a = b
        BY <1>1, <3>2, BehindNothing DEF a
      <4>2. st.junk + m[1] - 1 = st.junk
        BY <1>1, <3>2
      <4>3. Pass(st) = st
        BY <1>1, <3>1, <4>1, <4>2
      <4> QED BY <1>1, <4>3 DEF Continues
    <3>3. CASE m[1] # 1
      <4>1. Len(a) < Len(b)
        BY <1>1, <2>3, <3>3
      <4>2. st.junk + m[1] - 1 \in Nat
        BY <1>1, <2>3, JunkIsNat
      <4> QED BY <1>2, <2>3, <3>1, <4>1, <4>2
    <3> QED BY <3>2, <3>3
  <2>5. CASE ~ (Len(a) < l) /\ ~ Valid(f)
    <3>1. Pass(st) = Scanner(Behind(a, 2), st.junk + m[1] - 1 + 2,
                             st.gaps, st.last, st.frames)
      BY <2>2, <2>5, PassAtFalse DEF b
    <3> HIDE DEF a, l, f
    <3>2. 2 \in 0..Len(a)
      BY <1>1, <2>3
    <3>3. Behind(a, 2) \in Seq(Bytes) /\ Len(Behind(a, 2)) = Len(a) - 2
      BY <2>3, <3>2, BehindFacts
    <3>4. Len(Behind(a, 2)) < Len(b)
      BY <1>1, <2>3, <3>3
    <3>5. st.junk + m[1] - 1 + 2 \in Nat
      BY <1>1, <2>3, JunkIsNat
    <3> QED BY <1>2, <3>1, <3>3, <3>4, <3>5
  <2>6. CASE ~ (Len(a) < l) /\ Valid(f)
    <3> DEFINE g == st.gaps + Missing(st.last[m[2]], VcCount(f))
               la == [st.last EXCEPT ![m[2]] = VcCount(f)]
    <3>1. Pass(st) = Scanner(Behind(a, l), st.junk + m[1] - 1, g, la,
                             Append(st.frames, f))
      BY <2>2, <2>6, PassAtFrame DEF b
    <3>2. /\ f \in Seq(Bytes) /\ VcCount(f) \in Bytes
          /\ Behind(a, l) \in Seq(Bytes) /\ Len(Behind(a, l)) = Len(a) - l
      BY <2>3, <2>6, FrameFacts
    <3> HIDE DEF a, l, f
    <3>3. Len(Behind(a, l)) < Len(b)
      BY <1>1, <2>3, <3>2
    <3>4. st.junk + m[1] - 1 \in Nat
      BY <1>1, <2>3, JunkIsNat
    <3>5. g \in Nat
      <4>1. st.last[m[2]] \in Bytes \cup {-1}
        BY <1>1, <2>3
      <4>2. Missing(st.last[m[2]], VcCount(f)) \in Nat
        BY <3>2, <4>1, MissingFacts
      <4> QED BY <1>1, <4>2
    <3>6. la \in [Sats -> Bytes \cup {-1}]
      BY <1>1, <2>3, <3>2
    <3>7. /\ Append(st.frames, f) \in Seq(Seq(Bytes))
          /\ Len(Append(st.frames, f)) = Len(st.frames) + 1
          /\ \A i \in 1..Len(st.frames) : Append(st.frames, f)[i] = st.frames[i]
      BY <1>1, <3>2, AppendFacts
    <3> HIDE DEF g, la
    <3> DEFINE fs == Append(st.frames, f)
    <3> HIDE DEF fs
    <3> DEFINE r == Behind(a, l)
               j == st.junk + m[1] - 1
    <3>8. Pass(st) = Scanner(r, j, g, la, fs) /\ fs \in Seq(Seq(Bytes))
      BY <3>1, <3>7 DEF fs
    <3>9. Pass(st) \in Scanners /\ Pass(st).rest = Behind(a, l) /\ Pass(st).frames = fs
      <4>1. r \in Seq(Bytes) /\ j \in Nat
        BY <3>2, <3>4
      <4> HIDE DEF r, j
      <4>2. Pass(st) \in Scanners /\ Pass(st).rest = r /\ Pass(st).frames = fs
        BY <3>5, <3>6, <3>8, <4>1, ScannerFacts
      <4> QED BY <4>2 DEF r
    <3>10. Len(st.frames) \in Nat
      BY <1>1
    <3> QED BY <3>3, <3>7, <3>9, <3>10 DEF Continues, fs, b
  <2> QED BY <2>4, <2>5, <2>6
<1> QED BY <1>3, <1>4

-----------------------------------------------------------------------------
\* After n passes: still a scanner, with the frames it had; either it is done or it
\* has n bytes less.
LEMMA PassesContinue ==
  ASSUME NEW st \in Scanners, NEW n \in Nat
  PROVE  /\ Passes(st)[n] \in Scanners
         /\ \/ Pass(Passes(st)[n]) = Passes(st)[n]
            \/ Len(Passes(st)[n].rest) <= Len(st.rest) - n
         /\ Len(Passes(st)[n].frames) >= Len(st.frames)
         /\ \A i \in 1..Len(st.frames) : Passes(st)[n].frames[i] = st.frames[i]
<1> DEFINE p == Passes(st)
           Ok(k) == /\ p[k] \in Scanners
                    /\ Pass(p[k]) = p[k] \/ Len(p[k].rest) <= Len(st.rest) - k
                    /\ Len(p[k].frames) >= Len(st.frames)
                    /\ \A i \in 1..Len(st.frames) : p[k].frames[i] = st.frames[i]
           T == {k \in Nat : Ok(k)}
<1>1. p[0] = st /\ \A k \in Nat : p[k + 1] = Pass(p[k])
  BY PassesFacts
<1> HIDE DEF p
<1>2. st.rest \in Seq(Bytes) /\ Len(st.rest) \in Nat /\ Len(st.frames) \in Nat
  BY ScannersFacts
<1>3. Ok(0)
  BY <1>1, <1>2
<1>4. ASSUME NEW k \in Nat, Ok(k) PROVE Ok(k + 1)
  <2> DEFINE s == p[k]
             t == p[k + 1]
  <2>1. t = Pass(s) /\ s \in Scanners
    BY <1>1, <1>4
  <2>2. Continues(s, t)
    BY <2>1, PassContinues
  <2>3. t \in Scanners
    BY <2>2 DEF Continues
  <2>4. /\ Len(s.rest) \in Nat /\ Len(t.rest) \in Nat
        /\ Len(s.frames) \in Nat /\ Len(t.frames) \in Nat
    <3> HIDE DEF s, t
    <3>1. s.rest \in Seq(Bytes) /\ s.frames \in Seq(Seq(Bytes))
      BY <2>1, ScannersFacts
    <3>2. t.rest \in Seq(Bytes) /\ t.frames \in Seq(Seq(Bytes))
      BY <2>3, ScannersFacts
    <3> QED BY <3>1, <3>2
  <2>5. Pass(t) = t \/ Len(t.rest) <= Len(st.rest) - (k + 1)
    <3>1. CASE t = s
      BY <2>1, <3>1
    <3>2. CASE t # s
      <4>1. Len(t.rest) < Len(s.rest)
        BY <2>2, <3>2 DEF Continues
      <4>2. Pass(s) # s
        BY <2>1, <3>2
      <4>3. Len(s.rest) <= Len(st.rest) - k
        BY <1>4, <4>2
      <4> HIDE DEF s, t
      <4> QED BY <1>2, <2>4, <4>1, <4>3
    <3> QED BY <3>1, <3>2
  <2>6. /\ Len(s.frames) >= Len(st.frames) /\ Len(t.frames) >= Len(s.frames)
        /\ \A i \in 1..Len(st.frames) : s.frames[i] = st.frames[i]
        /\ \A i \in 1..Len(s.frames) : t.frames[i] = s.frames[i]
    BY <1>4, <2>2 DEF Continues
  <2> HIDE DEF s, t
  <2>7. Len(t.frames) >= Len(st.frames)
    BY <1>2, <2>4, <2>6
  <2>8. \A i \in 1..Len(st.frames) : i \in 1..Len(s.frames)
    BY <1>2, <2>4, <2>6
  <2>9. \A i \in 1..Len(st.frames) : t.frames[i] = st.frames[i]
    BY <2>6, <2>8
  <2> QED BY <2>3, <2>5, <2>7, <2>9 DEF t
<1>5. \A k \in Nat : k \in T
  <2>1. 0 \in T /\ T \in SUBSET Nat
    BY <1>3
  <2>2. \A k \in T : k + 1 \in T
    BY <1>4
  <2> HIDE DEF T
  <2> QED BY <2>1, <2>2, AllNumbers
<1>6. Ok(n)
  BY <1>5
<1> QED BY <1>6 DEF p

-----------------------------------------------------------------------------
\* Passes that change nothing any more.
LEMMA SettledStays ==
  ASSUME NEW st, NEW k \in Nat, Pass(Passes(st)[k]) = Passes(st)[k],
         NEW n \in Nat, k <= n
  PROVE  Passes(st)[n] = Passes(st)[k]
<1> DEFINE p == Passes(st)
           T == {d \in Nat : p[k + d] = p[k]}
<1>1. \A i \in Nat : p[i + 1] = Pass(p[i])
  BY PassesFacts
<1> HIDE DEF p
<1>2. 0 \in T
  OBVIOUS
<1>3. ASSUME NEW d \in T PROVE d + 1 \in T
  <2>1. k + d \in Nat /\ k + (d + 1) = (k + d) + 1 /\ p[k + d] = p[k] /\ d + 1 \in Nat
    OBVIOUS
  <2>2. p[k + (d + 1)] = Pass(p[k + d])
    BY <1>1, <2>1
  <2>3. p[k + (d + 1)] = p[k]
    BY <2>1, <2>2 DEF p
  <2> QED BY <2>1, <2>3
<1>4. \A d \in Nat : d \in T
  <2>1. T \in SUBSET Nat
    OBVIOUS
  <2> HIDE DEF T
  <2> QED BY <1>2, <1>3, <2>1, AllNumbers
<1>5. n - k \in Nat /\ k + (n - k) = n
  OBVIOUS
<1>6. p[k + (n - k)] = p[k]
  BY <1>4, <1>5
<1>7. p[n] = p[k]
  BY <1>5, <1>6
<1> QED BY <1>7 DEF p

\* As many passes as there are bytes are enough.
LEMMA Settled ==
  ASSUME NEW st \in Scanners
  PROVE  Pass(Passes(st)[Len(st.rest)]) = Passes(st)[Len(st.rest)]
<1> DEFINE s == Passes(st)[Len(st.rest)]
<1>1. Len(st.rest) \in Nat
  BY ScannersFacts
<1>2. s \in Scanners /\ (Pass(s) = s \/ Len(s.rest) <= Len(st.rest) - Len(st.rest))
  BY <1>1, PassesContinue
<1> HIDE DEF s
<1>3. Len(s.rest) \in Nat /\ Len(Pass(s).rest) \in Nat
  <2>1. Pass(s) \in Scanners
    BY <1>2, PassContinues DEF Continues
  <2>2. s.rest \in Seq(Bytes) /\ Pass(s).rest \in Seq(Bytes)
    BY <1>2, <2>1, ScannersFacts
  <2> QED BY <2>2
<1>4. Pass(s) = s \/ Len(Pass(s).rest) < Len(s.rest)
  BY <1>2, PassContinues DEF Continues
<1>5. Pass(s) = s
  BY <1>1, <1>2, <1>3, <1>4
<1> QED BY <1>5 DEF s

\* When the first pass changes nothing, nor does feed.
LEMMA ReturnedDone ==
  ASSUME NEW st \in Scanners, Pass(st) = st
  PROVE  Returned(st) = st
<1>1. Len(st.rest) \in Nat /\ 0 <= Len(st.rest)
  BY ScannersFacts
<1>2. Passes(st)[0] = st
  BY PassesFacts
<1>3. Passes(st)[Len(st.rest)] = Passes(st)[0]
  BY <1>1, <1>2, SettledStays
<1> QED BY <1>2, <1>3, ReturnedIsPasses

\* The passes from the second on are those of the scanner after the first.
LEMMA PassesShift ==
  ASSUME NEW st, NEW n \in Nat
  PROVE  Passes(Pass(st))[n] = Passes(st)[n + 1]
<1> DEFINE p == Passes(st)
           q == Passes(Pass(st))
           T == {k \in Nat : q[k] = p[k + 1]}
<1>1. p[0] = st /\ \A k \in Nat : p[k + 1] = Pass(p[k])
  BY PassesFacts
<1>2. q[0] = Pass(st) /\ \A k \in Nat : q[k + 1] = Pass(q[k])
  BY PassesFacts
<1> HIDE DEF p, q
<1>3. 0 \in T
  <2>1. p[0 + 1] = Pass(st)
    BY <1>1
  <2> QED BY <1>2, <2>1
<1>4. ASSUME NEW k \in T PROVE k + 1 \in T
  <2>1. k \in Nat /\ k + 1 \in Nat /\ q[k] = p[k + 1]
    OBVIOUS
  <2>2. q[k + 1] = Pass(q[k]) /\ p[(k + 1) + 1] = Pass(p[k + 1])
    BY <1>1, <1>2, <2>1
  <2>3. q[k + 1] = p[(k + 1) + 1]
    BY <2>1, <2>2
  <2> QED BY <2>1, <2>3
<1>5. \A k \in Nat : k \in T
  <2>1. T \in SUBSET Nat
    OBVIOUS
  <2> HIDE DEF T
  <2> QED BY <1>3, <1>4, <2>1, AllNumbers
<1>6. q[n] = p[n + 1]
  BY <1>5
<1> QED BY <1>6 DEF p, q

\* What feed leaves is the same when its first pass has been made already.
LEMMA ReturnedAfterPass ==
  ASSUME NEW st \in Scanners
  PROVE  Returned(Pass(st)) = Returned(st)
<1>1. CASE Pass(st) = st
  BY <1>1
<1>2. CASE Pass(st) # st
  <2> DEFINE k == Len(Pass(st).rest)
             n == Len(st.rest)
  <2>1. Pass(st) \in Scanners /\ k < n
    BY <1>2, PassContinues DEF Continues
  <2>2. k \in Nat /\ n \in Nat /\ k + 1 \in Nat /\ k + 1 <= n
    <3>1. Pass(st).rest \in Seq(Bytes) /\ st.rest \in Seq(Bytes)
      BY <2>1, ScannersFacts
    <3>2. k \in Nat /\ n \in Nat
      BY <3>1
    <3> HIDE DEF k, n
    <3> QED BY <2>1, <3>2
  <2>3. Pass(Passes(Pass(st))[k]) = Passes(Pass(st))[k]
    BY <2>1, Settled
  <2>4. Passes(Pass(st))[k] = Passes(st)[k + 1]
    BY <2>2, PassesShift
  <2> HIDE DEF k, n
  <2>5. Pass(Passes(st)[k + 1]) = Passes(st)[k + 1]
    BY <2>3, <2>4
  <2>6. Passes(st)[n] = Passes(st)[k + 1]
    BY <2>2, <2>5, SettledStays
  <2>7. Returned(st) = Passes(st)[n] /\ Returned(Pass(st)) = Passes(Pass(st))[k]
    BY ReturnedIsPasses DEF k, n
  <2> QED BY <2>4, <2>6, <2>7
<1> QED BY <1>1, <1>2

-----------------------------------------------------------------------------
\* A place in the second part of a sequence, by itself.
LEMMA InSecond ==
  ASSUME NEW n \in Nat, NEW q \in Nat, NEW k \in 0..n, NEW r, r = n - k,
         NEW i \in 1..(r + q), i > r
  PROVE  i - r \in 1..q /\ k + i = n + (i - r) /\ i = r + (i - r)
OBVIOUS

\* Bytes that follow change nothing before them.
LEMMA BehindConcat ==
  ASSUME NEW b \in Seq(Bytes), NEW e \in Seq(Bytes), NEW k \in 0..Len(b)
  PROVE  Behind(b \o e, k) = Behind(b, k) \o e
<1>1. /\ b \o e \in Seq(Bytes) /\ Len(b \o e) = Len(b) + Len(e)
      /\ \A i \in 1..Len(b) : (b \o e)[i] = b[i]
      /\ \A i \in 1..Len(e) : (b \o e)[Len(b) + i] = e[i]
  BY ConcatFacts
<1> DEFINE c == b \o e
           r == Behind(b, k)
<1>2. r \in Seq(Bytes) /\ Len(r) = Len(b) - k /\ \A i \in 1..(Len(b) - k) : r[i] = b[k + i]
  BY BehindFacts
<1>3. k \in 0..Len(c) /\ Len(b) \in Nat /\ Len(e) \in Nat
  BY <1>1
<1> HIDE DEF c
<1>4. /\ Behind(c, k) \in Seq(Bytes) /\ Len(Behind(c, k)) = Len(c) - k
      /\ \A i \in 1..(Len(c) - k) : Behind(c, k)[i] = c[k + i]
  BY <1>1, <1>3, BehindFacts DEF c
<1> HIDE DEF r
<1>5. /\ r \o e \in Seq(Bytes) /\ Len(r \o e) = Len(r) + Len(e)
      /\ \A i \in 1..Len(r) : (r \o e)[i] = r[i]
      /\ \A i \in 1..Len(e) : (r \o e)[Len(r) + i] = e[i]
  <2>1. r \in Seq(Bytes)
    BY <1>2
  <2> QED BY <2>1, ConcatFacts
<1>6. Len(Behind(c, k)) = Len(r \o e)
  BY <1>1, <1>2, <1>3, <1>4, <1>5 DEF c
<1>7. ASSUME NEW i \in 1..Len(r \o e) PROVE Behind(c, k)[i] = (r \o e)[i]
  <2>1. Behind(c, k)[i] = c[k + i]
    BY <1>4, <1>6
  <2>2. CASE i <= Len(r)
    <3>1. i \in 1..Len(r) /\ i \in 1..(Len(b) - k) /\ k + i \in 1..Len(b)
      BY <1>2, <1>3, <2>2
    <3> QED BY <1>1, <1>2, <1>5, <2>1, <3>1 DEF c
  <2>3. CASE i > Len(r)
    <3>1. /\ i - Len(r) \in 1..Len(e) /\ k + i = Len(b) + (i - Len(r))
          /\ i = Len(r) + (i - Len(r))
      <4>1. i \in 1..(Len(r) + Len(e))
        BY <1>5
      <4>2. Len(r) = Len(b) - k /\ k \in 0..Len(b)
        BY <1>2
      <4> QED BY <1>3, <2>3, <4>1, <4>2, InSecond
    <3>2. (r \o e)[i] = e[i - Len(r)]
      BY <1>5, <3>1
    <3>3. c[k + i] = e[i - Len(r)]
      BY <1>1, <3>1 DEF c
    <3> QED BY <2>1, <3>2, <3>3
  <2>4. Len(r) \in Nat /\ i \in Int
    BY <1>2, <1>3, <1>5
  <2> QED BY <2>2, <2>3, <2>4
<1>8. Behind(c, k) = r \o e
  BY <1>4, <1>5, <1>6, <1>7, SeqEqual
<1> QED BY <1>8 DEF c, r

\* The same for what is cut off before bytes that follow.
LEMMA FrontConcat ==
  ASSUME NEW b \in Seq(Bytes), NEW e \in Seq(Bytes), NEW l \in 0..Len(b)
  PROVE  SubSeq(b \o e, 1, l) = SubSeq(b, 1, l)
<1>1. /\ b \o e \in Seq(Bytes) /\ Len(b \o e) = Len(b) + Len(e)
      /\ \A i \in 1..Len(b) : (b \o e)[i] = b[i]
  BY ConcatFacts
<1> DEFINE c == b \o e
<1> HIDE DEF c
<1>2. Len(b) \in Nat /\ Len(e) \in Nat /\ l \in Nat /\ l <= Len(c) /\ c \in Seq(Bytes)
  BY <1>1 DEF c
<1>3. /\ SubSeq(c, 1, l) \in Seq(Bytes) /\ Len(SubSeq(c, 1, l)) = l
      /\ \A i \in 1..l : SubSeq(c, 1, l)[i] = c[i]
  BY <1>2
<1>4. /\ SubSeq(b, 1, l) \in Seq(Bytes) /\ Len(SubSeq(b, 1, l)) = l
      /\ \A i \in 1..l : SubSeq(b, 1, l)[i] = b[i]
  BY <1>2
<1>5. \A i \in 1..l : c[i] = b[i]
  BY <1>1, <1>2 DEF c
<1>6. SubSeq(c, 1, l) = SubSeq(b, 1, l)
  BY <1>3, <1>4, <1>5, SeqEqual
<1> QED BY <1>6 DEF c

\* A sync word before others that is wholly there stays the earliest.
LEMMA SyncsOfConcat ==
  ASSUME NEW b \in Seq(Bytes), NEW e \in Seq(Bytes),
         NEW p \in 1..(Len(b) - 1), NEW s \in Sats
  PROVE  <<p, s>> \in Matches(b \o e) <=> <<p, s>> \in Matches(b)
<1>1. /\ b \o e \in Seq(Bytes) /\ Len(b \o e) = Len(b) + Len(e)
      /\ \A i \in 1..Len(b) : (b \o e)[i] = b[i]
  BY ConcatFacts
<1> DEFINE c == b \o e
<1>2. p \in 1..(Len(c) - 1) /\ p \in 1..Len(b) /\ p + 1 \in 1..Len(b)
  BY <1>1
<1>3. c[p] = b[p] /\ c[p + 1] = b[p + 1]
  BY <1>1, <1>2
<1> HIDE DEF c
<1>4. <<p, s>> \in Matches(c) <=> <<c[p], c[p + 1]>> = Sync[s]
  BY <1>2 DEF Matches
<1>5. <<p, s>> \in Matches(b) <=> <<b[p], b[p + 1]>> = Sync[s]
  BY DEF Matches
<1> QED BY <1>3, <1>4, <1>5 DEF c

\* A sync word that is the earliest stays so.
LEMMA EarliestStays ==
  ASSUME NEW b \in Seq(Bytes), NEW e \in Seq(Bytes), NEW m, Earliest(m, b)
  PROVE  Earliest(m, b \o e)
<1>1. m \in Matches(b) /\ \A n \in Matches(b) : m[1] <= n[1]
  BY DEF Earliest
<1>2. m[1] \in 1..(Len(b) - 1) /\ m[2] \in Sats /\ m = <<m[1], m[2]>> /\ Len(b) \in Nat
  BY <1>1, SyncFacts
<1>3. m \in Matches(b \o e)
  BY <1>1, <1>2, SyncsOfConcat
<1>4. ASSUME NEW n \in Matches(b \o e) PROVE m[1] <= n[1]
  <2>1. n[1] \in Nat \ {0} /\ n[2] \in Sats /\ n = <<n[1], n[2]>>
    BY SyncFacts, ConcatFacts
  <2>2. CASE n[1] < m[1]
    <3>1. n[1] \in 1..(Len(b) - 1)
      BY <1>2, <2>1, <2>2
    <3>2. n \in Matches(b)
      BY <2>1, <3>1, SyncsOfConcat
    <3> QED BY <1>1, <3>2
  <2>3. CASE ~ (n[1] < m[1])
    BY <1>2, <2>1, <2>3
  <2> QED BY <2>2, <2>3
<1> QED BY <1>3, <1>4 DEF Earliest

-----------------------------------------------------------------------------
\* Sums of what is skipped, by themselves.
LEMMA SkipSums ==
  ASSUME NEW j \in Nat, NEW k \in Nat, NEW n \in Nat
  PROVE  /\ (n - k) - j = n - (k + j)
         /\ j + k + ((n - 1) - k) = j + (n - 1)
         /\ k < n => /\ n - k \in Nat \ {0} /\ (n - k) - 1 \in Nat
                     /\ k + (n - k) = n /\ k + ((n - k) - 1) = n - 1
                     /\ (j + k) + (n - k) - 1 = j + n - 1
OBVIOUS

\* What is behind j bytes of what is behind k.
LEMMA BehindBehind ==
  ASSUME NEW b \in Seq(Bytes), NEW k \in Nat, NEW j \in Nat, k + j <= Len(b)
  PROVE  Behind(Behind(b, k), j) = Behind(b, k + j)
<1> DEFINE c == Behind(b, k)
<1>1. k \in 0..Len(b) /\ k + j \in 0..Len(b) /\ Len(b) \in Nat
  OBVIOUS
<1>2. c \in Seq(Bytes) /\ Len(c) = Len(b) - k /\ \A i \in 1..(Len(b) - k) : c[i] = b[k + i]
  BY <1>1, BehindFacts
<1> HIDE DEF c
<1>3. j \in 0..Len(c)
  BY <1>1, <1>2
<1>4. /\ Behind(c, j) \in Seq(Bytes) /\ Len(Behind(c, j)) = Len(c) - j
      /\ \A i \in 1..(Len(c) - j) : Behind(c, j)[i] = c[j + i]
  BY <1>2, <1>3, BehindFacts
<1>5. /\ Behind(b, k + j) \in Seq(Bytes) /\ Len(Behind(b, k + j)) = Len(b) - (k + j)
      /\ \A i \in 1..(Len(b) - (k + j)) : Behind(b, k + j)[i] = b[(k + j) + i]
  BY <1>1, BehindFacts
<1>6. Len(Behind(c, j)) = Len(Behind(b, k + j))
  <2>1. (Len(b) - k) - j = Len(b) - (k + j)
    BY <1>1, SkipSums
  <2> QED BY <1>2, <1>4, <1>5, <2>1
<1>7. ASSUME NEW i \in 1..Len(Behind(c, j))
      PROVE  Behind(c, j)[i] = Behind(b, k + j)[i]
  <2>1. /\ i \in 1..(Len(c) - j) /\ i \in 1..(Len(b) - (k + j))
        /\ j + i \in 1..(Len(b) - k) /\ k + (j + i) = (k + j) + i
    BY <1>1, <1>2, <1>4
  <2> QED BY <1>2, <1>4, <1>5, <2>1
<1>8. Behind(c, j) = Behind(b, k + j)
  BY <1>4, <1>5, <1>6, <1>7, SeqEqual
<1> QED BY <1>8 DEF c

\* Sync words behind the first k bytes.
LEMMA SyncsBehind ==
  ASSUME NEW b \in Seq(Bytes), NEW k \in 0..Len(b),
         NEW p \in Nat \ {0}, NEW s \in Sats
  PROVE  <<p, s>> \in Matches(Behind(b, k)) <=> <<k + p, s>> \in Matches(b)
<1> DEFINE c == Behind(b, k)
<1>1. c \in Seq(Bytes) /\ Len(c) = Len(b) - k /\ \A i \in 1..(Len(b) - k) : c[i] = b[k + i]
  BY BehindFacts
<1> HIDE DEF c
<1>2. Len(b) \in Nat /\ Len(c) \in Nat
  BY <1>1
<1>3. CASE p + 1 <= Len(c)
  <2>1. /\ p \in 1..(Len(c) - 1) /\ k + p \in 1..(Len(b) - 1)
        /\ p \in 1..(Len(b) - k) /\ p + 1 \in 1..(Len(b) - k)
        /\ k + (p + 1) = (k + p) + 1
    BY <1>1, <1>2, <1>3
  <2>2. c[p] = b[k + p] /\ c[p + 1] = b[(k + p) + 1]
    BY <1>1, <2>1
  <2>3. <<p, s>> \in Matches(c) <=> <<c[p], c[p + 1]>> = Sync[s]
    BY <2>1 DEF Matches
  <2>4. <<k + p, s>> \in Matches(b) <=> <<b[k + p], b[(k + p) + 1]>> = Sync[s]
    BY <2>1 DEF Matches
  <2> QED BY <2>2, <2>3, <2>4 DEF c
<1>4. CASE ~ (p + 1 <= Len(c))
  <2>1. ~ (p \in 1..(Len(c) - 1)) /\ ~ (k + p \in 1..(Len(b) - 1))
    BY <1>1, <1>2, <1>4
  <2>2. <<p, s>> \notin Matches(c) /\ <<k + p, s>> \notin Matches(b)
    BY <2>1 DEF Matches
  <2> QED BY <2>2 DEF c
<1> QED BY <1>3, <1>4

\* Bytes before the earliest sync word may be dropped, and counted, before the pass.
LEMMA SkipThenPass ==
  ASSUME NEW st \in Scanners, NEW k \in 0..Len(st.rest),
         k # 0 => k < Len(st.rest),
         \A m \in Matches(st.rest) : k < m[1]
  PROVE  Pass(Scanner(Behind(st.rest, k), st.junk + k, st.gaps, st.last, st.frames))
           = Pass(st)
<1> DEFINE b == st.rest
           c == Behind(b, k)
           new == Scanner(c, st.junk + k, st.gaps, st.last, st.frames)
<1>1. /\ b \in Seq(Bytes) /\ st.junk \in Nat /\ st.gaps \in Nat
      /\ st.last \in [Sats -> Bytes \cup {-1}] /\ st.frames \in Seq(Seq(Bytes))
      /\ st = Scanner(b, st.junk, st.gaps, st.last, st.frames)
      /\ Len(b) \in Nat /\ k \in Nat /\ k <= Len(b)
  BY ScannersFacts
<1>2. /\ c \in Seq(Bytes) /\ Len(c) = Len(b) - k /\ Len(c) \in Nat
      /\ st.junk + k \in Nat
  BY <1>1, BehindFacts
<1>3. CASE k = 0
  <2>1. c = b /\ st.junk + k = st.junk
    BY <1>1, <1>3, BehindNothing
  <2> QED BY <1>1, <2>1
<1>4. CASE k # 0
  <2> HIDE DEF c
  <2>0. /\ new.rest = c /\ new.junk = st.junk + k /\ new.gaps = st.gaps
        /\ new.last = st.last /\ new.frames = st.frames /\ new \in Scanners
    BY <1>1, <1>2, ScannerFacts
  <2> HIDE DEF new, b
  <2>1. CASE Matches(b) = {}
    <3>1. Matches(c) = {}
      <4> SUFFICES ASSUME NEW n \in Matches(c) PROVE FALSE
        OBVIOUS
      <4>1. n[1] \in Nat \ {0} /\ n[2] \in Sats /\ n = <<n[1], n[2]>>
        BY <1>2, SyncFacts
      <4>2. <<k + n[1], n[2]>> \in Matches(b)
        BY <1>1, <4>1, SyncsBehind DEF c, b
      <4> QED BY <2>1, <4>2
    <3>2. WithoutSync(b) = Len(b) - 1 /\ WithoutSync(c) = (Len(b) - 1) - k
      BY <1>1, <1>2, <1>4 DEF WithoutSync, b
    <3>3. Behind(c, (Len(b) - 1) - k) = Behind(b, Len(b) - 1)
      <4>1. /\ (Len(b) - 1) - k \in Nat /\ k + ((Len(b) - 1) - k) = Len(b) - 1
            /\ k + ((Len(b) - 1) - k) <= Len(b)
        BY <1>1, <1>4 DEF b
      <4> QED BY <1>1, <4>1, BehindBehind DEF c
    <3>4. st.junk + k + ((Len(b) - 1) - k) = st.junk + (Len(b) - 1)
      <4>1. st.junk \in Nat /\ k \in Nat /\ Len(b) \in Nat
        BY <1>1 DEF b
      <4> QED BY <4>1, SkipSums
    <3>5. Pass(new) = Scanner(Behind(b, Len(b) - 1), st.junk + (Len(b) - 1),
                              st.gaps, st.last, st.frames)
      BY <2>0, <3>1, <3>2, <3>3, <3>4, PassWithout
    <3>6. Pass(st) = Scanner(Behind(b, Len(b) - 1), st.junk + (Len(b) - 1),
                             st.gaps, st.last, st.frames)
      BY <2>1, <3>2, PassWithout DEF b
    <3> QED BY <3>5, <3>6 DEF new, c, b
  <2>2. CASE Matches(b) # {}
    <3>1. PICK m \in Matches(b) : Earliest(m, b)
      BY <1>1, <2>2, EarliestExists
    <3>2. m[1] \in Nat \ {0} /\ k < m[1] /\ m[2] \in Sats /\ m = <<m[1], m[2]>>
          /\ \A o \in Matches(b) : m[1] <= o[1]
      BY <1>1, <3>1, SyncFacts DEF Earliest, b
    <3> DEFINE n == <<m[1] - k, m[2]>>
    <3>3. /\ m[1] - k \in Nat \ {0} /\ k + (m[1] - k) = m[1]
          /\ k + ((m[1] - k) - 1) = m[1] - 1 /\ (m[1] - k) - 1 \in Nat
          /\ (st.junk + k) + (m[1] - k) - 1 = st.junk + m[1] - 1
      <4>1. st.junk \in Nat /\ k \in Nat /\ m[1] \in Nat /\ k < m[1]
        BY <1>1, <3>2
      <4> QED BY <4>1, SkipSums
    <3>4. n \in Matches(c)
      BY <1>1, <3>2, <3>3, SyncsBehind DEF c, b
    <3>5. ASSUME NEW o \in Matches(c) PROVE n[1] <= o[1]
      <4>1. o[1] \in Nat \ {0} /\ o[2] \in Sats /\ o = <<o[1], o[2]>>
        BY <1>2, SyncFacts
      <4>2. <<k + o[1], o[2]>> \in Matches(b)
        BY <1>1, <4>1, SyncsBehind DEF c, b
      <4>3. m[1] <= k + o[1]
        BY <3>2, <4>2
      <4> QED BY <1>1, <3>2, <4>1, <4>3
    <3>6. Earliest(n, c)
      BY <3>4, <3>5 DEF Earliest
    <3>7. Pass(new) = PassAt(new, n) /\ Pass(st) = PassAt(st, m)
      BY <1>1, <1>2, <2>0, <3>1, <3>6, PassIsAt DEF b
    <3>8. n[1] = m[1] - k /\ n[2] = m[2]
      OBVIOUS
    <3> HIDE DEF n
    <3> DEFINE a == Behind(b, m[1] - 1)
               l == Length[m[2]]
               f == SubSeq(a, 1, l)
    <3>9. Behind(c, n[1] - 1) = a
      <4>1. k + ((m[1] - k) - 1) <= Len(b)
        <5>1. m[1] \in 1..(Len(b) - 1)
          BY <1>1, SyncFacts
        <5> QED BY <1>1, <3>2, <3>3, <5>1
      <4>2. Behind(c, (m[1] - k) - 1) = Behind(b, k + ((m[1] - k) - 1))
        BY <1>1, <3>3, <4>1, BehindBehind DEF c
      <4> QED BY <3>3, <3>8, <4>2
    <3>10. new.junk + n[1] - 1 = st.junk + m[1] - 1
      BY <2>0, <3>3, <3>8
    <3> HIDE DEF a, l, f
    <3>11. CASE Len(a) < l
      <4>1. PassAt(new, n) = Scanner(a, st.junk + m[1] - 1, st.gaps, st.last, st.frames)
        BY <2>0, <3>8, <3>9, <3>10, <3>11, PassAtShort DEF l
      <4>2. PassAt(st, m) = Scanner(a, st.junk + m[1] - 1, st.gaps, st.last, st.frames)
        BY <3>11, PassAtShort DEF a, b, l
      <4> QED BY <3>7, <4>1, <4>2 DEF new, c, b
    <3>12. CASE ~ (Len(a) < l) /\ ~ Valid(f)
      <4> DEFINE r == Scanner(Behind(a, 2), st.junk + m[1] - 1 + 2,
                              st.gaps, st.last, st.frames)
      <4>1. PassAt(new, n) = r
        BY <2>0, <3>8, <3>9, <3>10, <3>12, PassAtFalse DEF l, f
      <4>2. PassAt(st, m) = r
        BY <3>12, PassAtFalse DEF a, b, l, f
      <4> QED BY <3>7, <4>1, <4>2 DEF new, c, b
    <3>13. CASE ~ (Len(a) < l) /\ Valid(f)
      <4> DEFINE r == Scanner(Behind(a, l), st.junk + m[1] - 1,
                              st.gaps + Missing(st.last[m[2]], VcCount(f)),
                              [st.last EXCEPT ![m[2]] = VcCount(f)],
                              Append(st.frames, f))
      <4>1. PassAt(new, n) = r
        <5>1. /\ ~ (Len(Behind(new.rest, n[1] - 1)) < Length[n[2]])
              /\ f = SubSeq(Behind(new.rest, n[1] - 1), 1, Length[n[2]])
          BY <2>0, <3>8, <3>9, <3>13 DEF l, f
        <5>2. PassAt(new, n) =
                Scanner(Behind(Behind(new.rest, n[1] - 1), Length[n[2]]),
                        new.junk + n[1] - 1,
                        new.gaps + Missing(new.last[n[2]], VcCount(f)),
                        [new.last EXCEPT ![n[2]] = VcCount(f)],
                        Append(new.frames, f))
          BY <2>0, <3>13, <5>1, PassAtFrame
        <5> QED BY <2>0, <3>8, <3>9, <3>10, <5>2 DEF l
      <4>2. PassAt(st, m) = r
        BY <3>13, PassAtFrame DEF a, b, l, f
      <4> QED BY <3>7, <4>1, <4>2 DEF new, c, b
    <3> QED BY <3>11, <3>12, <3>13
  <2> QED BY <2>1, <2>2
<1> QED BY <1>3, <1>4

-----------------------------------------------------------------------------
\* A pass that skips a false sync word or takes a frame does not look at the bytes
\* that follow.
LEMMA PassConcat ==
  ASSUME NEW st \in Scanners, NEW e \in Seq(Bytes), NEW m, Earliest(m, st.rest),
         ~ (Len(Behind(st.rest, m[1] - 1)) < Length[m[2]])
  PROVE  Pass(Scanner(st.rest \o e, st.junk, st.gaps, st.last, st.frames))
           = Scanner(Pass(st).rest \o e, Pass(st).junk, Pass(st).gaps,
                     Pass(st).last, Pass(st).frames)
<1> DEFINE b == st.rest
           a == Behind(b, m[1] - 1)
           l == Length[m[2]]
           f == SubSeq(a, 1, l)
           c == b \o e
           more == Scanner(c, st.junk, st.gaps, st.last, st.frames)
<1>1. /\ b \in Seq(Bytes) /\ st.junk \in Nat /\ st.gaps \in Nat
      /\ st.last \in [Sats -> Bytes \cup {-1}] /\ st.frames \in Seq(Seq(Bytes))
      /\ Len(b) \in Nat
  BY ScannersFacts
<1>2. m \in Matches(b)
  BY DEF Earliest
<1>3. /\ m[1] - 1 \in 0..Len(b) /\ l \in Nat /\ l >= 4
  <2>1. m[1] \in 1..(Len(b) - 1) /\ l \in Nat /\ l >= 4
    BY <1>1, <1>2, SyncFacts
  <2> HIDE DEF l
  <2> QED BY <1>1, <2>1
<1>4. a \in Seq(Bytes) /\ Len(a) \in Nat /\ ~ (Len(a) < l)
  <2>1. a \in Seq(Bytes)
    BY <1>1, <1>2, FromSync
  <2> QED BY <2>1
<1>5. c \in Seq(Bytes) /\ Earliest(m, c)
  BY <1>1, EarliestStays, ConcatFacts
<1>6. Behind(c, m[1] - 1) = a \o e
  BY <1>1, <1>3, BehindConcat
<1>7. a \o e \in Seq(Bytes) /\ ~ (Len(a \o e) < l)
  <2> HIDE DEF a, l
  <2>1. a \o e \in Seq(Bytes) /\ Len(a \o e) = Len(a) + Len(e) /\ Len(e) \in Nat
    BY <1>4, ConcatFacts
  <2> QED BY <1>3, <1>4, <2>1
<1>8. SubSeq(a \o e, 1, l) = f
  <2> HIDE DEF a, l
  <2>1. l \in 0..Len(a)
    BY <1>3, <1>4
  <2> QED BY <1>4, <2>1, FrontConcat
<1>9. 2 \in 0..Len(a) /\ l \in 0..Len(a)
  <2> HIDE DEF a, l
  <2> QED BY <1>3, <1>4
<1>10. /\ Behind(a \o e, 2) = Behind(a, 2) \o e
       /\ Behind(a \o e, l) = Behind(a, l) \o e
  <2> HIDE DEF a, l
  <2> QED BY <1>4, <1>9, BehindConcat
<1> HIDE DEF c
<1>11. /\ more.rest = c /\ more.junk = st.junk /\ more.gaps = st.gaps
       /\ more.last = st.last /\ more.frames = st.frames /\ more \in Scanners
  BY <1>1, <1>5, ScannerFacts
<1> HIDE DEF more, a, l, f
<1>12. Pass(more) = PassAt(more, m) /\ Pass(st) = PassAt(st, m)
  BY <1>1, <1>5, <1>11, PassIsAt DEF b
<1>13. Pass(more) = Scanner(Pass(st).rest \o e, Pass(st).junk, Pass(st).gaps,
                            Pass(st).last, Pass(st).frames)
  <2>1. CASE ~ Valid(f)
    <3>1. PassAt(st, m) = Scanner(Behind(a, 2), st.junk + m[1] - 1 + 2,
                                  st.gaps, st.last, st.frames)
      BY <1>4, <2>1, PassAtFalse DEF a, l, f, b
    <3>2. /\ ~ (Len(Behind(more.rest, m[1] - 1)) < Length[m[2]])
          /\ ~ Valid(SubSeq(Behind(more.rest, m[1] - 1), 1, Length[m[2]]))
      BY <1>6, <1>7, <1>8, <1>11, <2>1 DEF l
    <3>3. PassAt(more, m) = Scanner(Behind(a \o e, 2), st.junk + m[1] - 1 + 2,
                                    st.gaps, st.last, st.frames)
      BY <1>6, <1>11, <3>2, PassAtFalse
    <3>4. /\ Pass(st).rest = Behind(a, 2) /\ Pass(st).junk = st.junk + m[1] - 1 + 2
          /\ Pass(st).gaps = st.gaps /\ Pass(st).last = st.last
          /\ Pass(st).frames = st.frames
      BY <1>12, <3>1, ScannerFacts
    <3> QED BY <1>10, <1>12, <3>3, <3>4
  <2>2. CASE Valid(f)
    <3> DEFINE g == st.gaps + Missing(st.last[m[2]], VcCount(f))
               la == [st.last EXCEPT ![m[2]] = VcCount(f)]
               fs == Append(st.frames, f)
    <3>1. PassAt(st, m) = Scanner(Behind(a, l), st.junk + m[1] - 1, g, la, fs)
      BY <1>4, <2>2, PassAtFrame DEF a, l, f, b
    <3>2. /\ ~ (Len(Behind(more.rest, m[1] - 1)) < Length[m[2]])
          /\ f = SubSeq(Behind(more.rest, m[1] - 1), 1, Length[m[2]])
      BY <1>6, <1>7, <1>8, <1>11 DEF l
    <3>3. PassAt(more, m) =
            Scanner(Behind(Behind(more.rest, m[1] - 1), Length[m[2]]),
                    more.junk + m[1] - 1,
                    more.gaps + Missing(more.last[m[2]], VcCount(f)),
                    [more.last EXCEPT ![m[2]] = VcCount(f)],
                    Append(more.frames, f))
      BY <1>11, <2>2, <3>2, PassAtFrame
    <3>4. PassAt(more, m) = Scanner(Behind(a \o e, l), st.junk + m[1] - 1, g, la, fs)
      BY <1>6, <1>11, <3>3 DEF l
    <3> HIDE DEF g, la, fs
    <3>5. /\ Pass(st).rest = Behind(a, l) /\ Pass(st).junk = st.junk + m[1] - 1
          /\ Pass(st).gaps = g /\ Pass(st).last = la
          /\ Pass(st).frames = fs
      BY <1>12, <3>1, ScannerFacts
    <3> QED BY <1>10, <1>12, <3>4, <3>5
  <2> QED BY <2>1, <2>2
<1> QED BY <1>13 DEF more, c, b

-----------------------------------------------------------------------------
\* The scanner as it is now.
Now == Scanner(buffer, junk, gaps, last, frames)

\* It is one, of these parts.
LEMMA NowFacts ==
  ASSUME ScannerTypeOK
  PROVE  /\ Now \in Scanners
         /\ Now.rest = buffer /\ Now.junk = junk /\ Now.gaps = gaps
         /\ Now.last = last /\ Now.frames = frames
<1>1. /\ buffer \in Seq(Bytes) /\ junk \in Nat /\ gaps \in Nat
      /\ last \in [Sats -> Bytes \cup {-1}] /\ frames \in Seq(Seq(Bytes))
  BY DEF ScannerTypeOK
<1> QED BY <1>1, ScannerFacts DEF Now

\* The same scanner in the words of the model.
LEMMA HoldingIsScanner ==
  ASSUME NEW b
  PROVE  Holding(b) = Scanner(b, junk, gaps, last, frames)
  BY DEF Holding, Scanner

\* The four actions of the loop of feed are what Pass says.
LEMMA StepIsPass ==
  ASSUME ScannerTypeOK, NoSync \/ ScanStep
  PROVE  Scanner(buffer', junk', gaps', last', frames') = Pass(Now)
<1>1. /\ Now \in Scanners
      /\ Now.rest = buffer /\ Now.junk = junk /\ Now.gaps = gaps
      /\ Now.last = last /\ Now.frames = frames /\ buffer \in Seq(Bytes)
  BY NowFacts DEF ScannerTypeOK
<1>2. CASE NoSync
  <2>1. /\ Matches(buffer) = {} /\ buffer' = Behind(buffer, WithoutSync(buffer))
        /\ junk' = junk + WithoutSync(buffer)
        /\ gaps' = gaps /\ last' = last /\ frames' = frames
    BY <1>2 DEF NoSync, output
  <2>2. Pass(Now) = Scanner(Behind(buffer, WithoutSync(buffer)),
                            junk + WithoutSync(buffer), gaps, last, frames)
    BY <1>1, <2>1, PassWithout
  <2> QED BY <2>1, <2>2
<1>3. ASSUME NEW m \in Matches(buffer), Incomplete(m) \/ FalseSync(m) \/ TakeFrame(m)
      PROVE  Scanner(buffer', junk', gaps', last', frames') = Pass(Now)
  <2>1. Earliest(m, buffer)
    BY <1>3 DEF Incomplete, FalseSync, TakeFrame, Complete
  <2>2. Pass(Now) = PassAt(Now, m)
    BY <1>1, <2>1, PassIsAt
  <2>3. Behind(Now.rest, m[1] - 1) = Aligned(m)
    BY <1>1 DEF Aligned
  <2>4. CASE Incomplete(m)
    <3>1. /\ Len(Aligned(m)) < Length[m[2]]
          /\ buffer' = Aligned(m) /\ junk' = junk + m[1] - 1
          /\ gaps' = gaps /\ last' = last /\ frames' = frames
      BY <2>4 DEF Incomplete, output
    <3>2. PassAt(Now, m) = Scanner(Aligned(m), junk + m[1] - 1, gaps, last, frames)
      BY <1>1, <2>3, <3>1, PassAtShort
    <3> QED BY <2>2, <3>1, <3>2
  <2>5. ~ (Len(Aligned(m)) < Length[m[2]]) \/ Incomplete(m)
    <3>1. Len(Aligned(m)) \in Nat /\ Length[m[2]] \in Nat
      BY <1>1, AlignedFacts, MatchFacts
    <3> QED BY <1>3, <3>1 DEF FalseSync, TakeFrame, Complete
  <2>6. CASE FalseSync(m) /\ ~ (Len(Aligned(m)) < Length[m[2]])
    <3>1. /\ ~ Valid(SubSeq(Aligned(m), 1, Length[m[2]]))
          /\ buffer' = Behind(Aligned(m), 2) /\ junk' = junk + m[1] - 1 + 2
          /\ gaps' = gaps /\ last' = last /\ frames' = frames
      BY <2>6 DEF FalseSync, Candidate, output
    <3>2. PassAt(Now, m) = Scanner(Behind(Aligned(m), 2), junk + m[1] - 1 + 2,
                                   gaps, last, frames)
      BY <1>1, <2>3, <2>6, <3>1, PassAtFalse
    <3> QED BY <2>2, <3>1, <3>2
  <2>7. CASE TakeFrame(m) /\ ~ (Len(Aligned(m)) < Length[m[2]])
    <3> DEFINE f == Candidate(m)
    <3>1. /\ Valid(f)
          /\ buffer' = After(m) /\ junk' = junk + m[1] - 1
          /\ gaps' = gaps + Missing(last[m[2]], VcCount(f))
          /\ last' = [last EXCEPT ![m[2]] = VcCount(f)]
          /\ frames' = Append(frames, f)
      BY <2>7 DEF TakeFrame
    <3>2. /\ f = SubSeq(Behind(Now.rest, m[1] - 1), 1, Length[m[2]])
          /\ After(m) = Behind(Aligned(m), Length[m[2]])
      BY <2>3 DEF Candidate, After
    <3> HIDE DEF f
    <3>3. PassAt(Now, m) =
            Scanner(Behind(Behind(Now.rest, m[1] - 1), Length[m[2]]),
                    Now.junk + m[1] - 1,
                    Now.gaps + Missing(Now.last[m[2]], VcCount(f)),
                    [Now.last EXCEPT ![m[2]] = VcCount(f)],
                    Append(Now.frames, f))
      BY <1>1, <2>3, <2>7, <3>1, <3>2, PassAtFrame
    <3>4. PassAt(Now, m) = Scanner(After(m), junk + m[1] - 1,
                                   gaps + Missing(last[m[2]], VcCount(f)),
                                   [last EXCEPT ![m[2]] = VcCount(f)],
                                   Append(frames, f))
      BY <1>1, <2>3, <3>2, <3>3
    <3> QED BY <2>2, <3>1, <3>4
  <2> QED BY <1>3, <2>4, <2>5, <2>6, <2>7
<1> QED BY <1>2, <1>3 DEF ScanStep

-----------------------------------------------------------------------------
\* Bytes dropped before the earliest sync word make no difference to what feed
\* leaves.
LEMMA ReturnedAfterSkip ==
  ASSUME NEW st \in Scanners, NEW k \in 0..Len(st.rest),
         k # 0 => k < Len(st.rest),
         \A m \in Matches(st.rest) : k < m[1]
  PROVE  Returned(Scanner(Behind(st.rest, k), st.junk + k, st.gaps, st.last, st.frames))
           = Returned(st)
<1> DEFINE c == Behind(st.rest, k)
           new == Scanner(c, st.junk + k, st.gaps, st.last, st.frames)
<1>1. Pass(new) = Pass(st)
  BY SkipThenPass
<1>2. new \in Scanners
  <2>1. /\ st.rest \in Seq(Bytes) /\ st.junk \in Nat /\ st.gaps \in Nat
        /\ st.last \in [Sats -> Bytes \cup {-1}] /\ st.frames \in Seq(Seq(Bytes))
    BY ScannersFacts
  <2>2. c \in Seq(Bytes) /\ st.junk + k \in Nat
    BY <2>1, BehindFacts
  <2> HIDE DEF c
  <2> QED BY <2>1, <2>2, ScannerFacts
<1> HIDE DEF new
<1>3. Returned(new) = Returned(st)
  BY <1>1, <1>2, ReturnedAfterPass
<1> QED BY <1>3 DEF new, c

-----------------------------------------------------------------------------
\* The scanner as it would be with these bytes behind those in its buffer.
With(e) == Scanner(buffer \o e, junk, gaps, last, frames)

\* Whatever bytes are still to come: one call of feed with all of them and those of
\* the stream leaves what a call with them and those of the buffer leaves now.
AnyMore == \A e \in Seq(Bytes) :
             Returned(Fresh(stream \o e)) = Returned(With(e))

\* It is one, of these parts.
LEMMA WithFacts ==
  ASSUME ScannerTypeOK, NEW e \in Seq(Bytes)
  PROVE  /\ With(e) \in Scanners /\ With(e).rest = buffer \o e
         /\ With(e).junk = junk /\ With(e).gaps = gaps
         /\ With(e).last = last /\ With(e).frames = frames
         /\ buffer \o e \in Seq(Bytes)
<1> DEFINE c == buffer \o e
<1>1. /\ c \in Seq(Bytes) /\ junk \in Nat /\ gaps \in Nat
      /\ last \in [Sats -> Bytes \cup {-1}] /\ frames \in Seq(Seq(Bytes))
  BY ConcatFacts DEF ScannerTypeOK
<1> HIDE DEF c
<1>2. With(e) = Scanner(c, junk, gaps, last, frames)
  BY DEF With, c
<1> DEFINE w == Scanner(c, junk, gaps, last, frames)
<1>3. /\ w \in Scanners /\ w.rest = c /\ w.junk = junk /\ w.gaps = gaps
      /\ w.last = last /\ w.frames = frames
  BY <1>1, ScannerFacts
<1> HIDE DEF w
<1> QED BY <1>1, <1>2, <1>3 DEF c, w

\* Dropping k bytes of the buffer before the earliest sync word there is or will be.
LEMMA DroppedAlike ==
  ASSUME ScannerTypeOK, NEW k \in Nat, k < Len(buffer) \/ k = 0,
         buffer' = Behind(buffer, k), junk' = junk + k,
         gaps' = gaps, last' = last, frames' = frames,
         \A m \in Matches(buffer) : k < m[1],
         NEW e \in Seq(Bytes)
  PROVE  Returned(With(e)') = Returned(With(e))
<1> DEFINE c == buffer \o e
<1>1. buffer \in Seq(Bytes) /\ Len(buffer) \in Nat /\ k \in 0..Len(buffer)
  BY DEF ScannerTypeOK
<1>2. /\ c \in Seq(Bytes) /\ Len(c) = Len(buffer) + Len(e) /\ Len(e) \in Nat
      /\ With(e) \in Scanners /\ With(e).rest = c
      /\ With(e).junk = junk /\ With(e).gaps = gaps
      /\ With(e).last = last /\ With(e).frames = frames
  BY <1>1, WithFacts, ConcatFacts
<1>3. Behind(c, k) = buffer' \o e
  BY <1>1, BehindConcat
<1>4. ASSUME NEW m \in Matches(c) PROVE k < m[1]
  <2>1. m[1] \in Nat \ {0} /\ m[2] \in Sats /\ m = <<m[1], m[2]>>
    BY <1>2, SyncFacts
  <2>2. CASE m[1] <= k
    <3>1. m[1] \in 1..(Len(buffer) - 1)
      BY <1>1, <2>1, <2>2
    <3>2. m \in Matches(buffer)
      BY <1>1, <2>1, <3>1, SyncsOfConcat
    <3> QED BY <3>2
  <2> QED BY <2>1, <2>2
<1> HIDE DEF c
<1>5. k \in 0..Len(c) /\ (k # 0 => k < Len(c))
  BY <1>1, <1>2
<1>6. Returned(Scanner(Behind(c, k), junk + k, gaps, last, frames)) = Returned(With(e))
  BY <1>2, <1>4, <1>5, ReturnedAfterSkip
<1>7. With(e)' = Scanner(Behind(c, k), junk + k, gaps, last, frames)
  BY <1>3 DEF With
<1> QED BY <1>6, <1>7

\* A false sync word skipped or a frame taken is the first pass of any later call.
LEMMA TakenAlike ==
  ASSUME ScannerTypeOK, NEW m \in Matches(buffer), FalseSync(m) \/ TakeFrame(m),
         NEW e \in Seq(Bytes)
  PROVE  Returned(With(e)') = Returned(With(e))
<1>1. /\ Now \in Scanners
      /\ Now.rest = buffer /\ Now.junk = junk /\ Now.gaps = gaps
      /\ Now.last = last /\ Now.frames = frames /\ buffer \in Seq(Bytes)
  BY NowFacts DEF ScannerTypeOK
<1>2. Earliest(m, buffer) /\ ~ (Len(Behind(buffer, m[1] - 1)) < Length[m[2]])
  <2>1. Earliest(m, buffer) /\ Len(Aligned(m)) >= Length[m[2]]
    BY DEF FalseSync, TakeFrame, Complete
  <2>2. Len(Aligned(m)) \in Nat /\ Length[m[2]] \in Nat
    BY <1>1, AlignedFacts, MatchFacts
  <2> HIDE DEF Aligned
  <2>3. ~ (Len(Aligned(m)) < Length[m[2]])
    BY <2>1, <2>2
  <2> QED BY <2>1, <2>3 DEF Aligned
<1>3. Scanner(buffer', junk', gaps', last', frames') = Pass(Now)
  BY StepIsPass DEF ScanStep
<1>4. /\ Pass(Now).rest = buffer' /\ Pass(Now).junk = junk' /\ Pass(Now).gaps = gaps'
      /\ Pass(Now).last = last' /\ Pass(Now).frames = frames'
  BY <1>3, ScannerFacts
<1>5. Pass(Scanner(Now.rest \o e, Now.junk, Now.gaps, Now.last, Now.frames))
        = Scanner(Pass(Now).rest \o e, Pass(Now).junk, Pass(Now).gaps,
                  Pass(Now).last, Pass(Now).frames)
  BY <1>1, <1>2, PassConcat
<1>6. Pass(With(e)) = With(e)'
  BY <1>1, <1>4, <1>5 DEF With
<1>7. Returned(Pass(With(e))) = Returned(With(e))
  BY WithFacts, ReturnedAfterPass
<1> QED BY <1>6, <1>7

\* The bytes of a chunk are part of those still to come before it is read.
LEMMA FedAlike ==
  ASSUME ScannerTypeOK, AnyMore, NEW chunk \in Chunks, Feed(chunk),
         NEW e \in Seq(Bytes)
  PROVE  Returned(Fresh(stream' \o e)) = Returned(With(e)')
<1>1. /\ buffer \in Seq(Bytes) /\ stream \in Seq(Bytes) /\ chunk \in Seq(Bytes)
      /\ chunk \o e \in Seq(Bytes)
  BY ChunkFacts, ConcatFacts DEF ScannerTypeOK
<1>2. /\ stream' \o e = stream \o (chunk \o e)
      /\ buffer' \o e = buffer \o (chunk \o e)
  <2>1. stream' = stream \o chunk /\ buffer' = buffer \o chunk
    BY DEF Feed
  <2>2. (stream \o chunk) \o e = stream \o (chunk \o e)
    BY <1>1, ConcatAssociative
  <2>3. (buffer \o chunk) \o e = buffer \o (chunk \o e)
    BY <1>1, ConcatAssociative
  <2> QED BY <2>1, <2>2, <2>3
<1>3. Returned(Fresh(stream \o (chunk \o e))) = Returned(With(chunk \o e))
  BY <1>1 DEF AnyMore
<1>4. With(e)' = With(chunk \o e)
  BY <1>2 DEF With, Feed, stats, output
<1> QED BY <1>2, <1>3, <1>4

\* The loop of feed, chunk after chunk, keeps that.
LEMMA AnyMoreAlways == ScannerSpec => []AnyMore
<1>1. ScannerInit => AnyMore
  <2> SUFFICES ASSUME ScannerInit, NEW e \in Seq(Bytes)
               PROVE  Returned(Fresh(stream \o e)) = Returned(With(e))
    BY DEF AnyMore
  <2>1. /\ stream = buffer /\ junk = 0 /\ gaps = 0 /\ last = [s \in Sats |-> -1]
        /\ frames = <<>>
    BY DEF ScannerInit
  <2>2. Fresh(stream \o e) = With(e)
    BY <2>1 DEF Fresh, With, Scanner
  <2> QED BY <2>2
<1>2. ScannerTypeOK /\ AnyMore /\ [ScannerNext]_scannerVars => AnyMore'
  <2> SUFFICES ASSUME ScannerTypeOK, AnyMore, [ScannerNext]_scannerVars,
                      NEW e \in Seq(Bytes)
               PROVE  Returned(Fresh(stream' \o e)) = Returned(With(e)')
    BY DEF AnyMore
  <2>0. Returned(Fresh(stream \o e)) = Returned(With(e))
    BY DEF AnyMore
  <2>t. buffer \in Seq(Bytes) /\ Len(buffer) \in Nat /\ junk \in Nat
    BY DEF ScannerTypeOK
  <2>1. ASSUME NEW chunk \in Chunks, Feed(chunk)
        PROVE  Returned(Fresh(stream' \o e)) = Returned(With(e)')
    BY <2>1, FedAlike
  <2>2. CASE NoSync
    <3> DEFINE k == WithoutSync(buffer)
    <3>1. k \in Nat /\ (k < Len(buffer) \/ k = 0)
      BY <2>t DEF WithoutSync
    <3>2. /\ buffer' = Behind(buffer, k) /\ junk' = junk + k
          /\ gaps' = gaps /\ last' = last /\ frames' = frames /\ stream' = stream
          /\ Matches(buffer) = {}
      BY <2>2 DEF NoSync, output
    <3> HIDE DEF k
    <3>3. Returned(With(e)') = Returned(With(e))
      BY <3>1, <3>2, DroppedAlike
    <3> QED BY <2>0, <3>2, <3>3
  <2>3. ASSUME NEW m \in Matches(buffer), Incomplete(m)
        PROVE  Returned(Fresh(stream' \o e)) = Returned(With(e)')
    <3> DEFINE k == m[1] - 1
    <3>1. m[1] \in 1..(Len(buffer) - 1) /\ m[1] \in Nat \ {0}
      BY <2>t, SyncFacts
    <3>2. k \in Nat /\ k < Len(buffer) /\ junk + m[1] - 1 = junk + k /\ k < m[1]
      BY <2>t, <3>1
    <3>3. /\ buffer' = Behind(buffer, k) /\ junk' = junk + k
          /\ gaps' = gaps /\ last' = last /\ frames' = frames /\ stream' = stream
      BY <2>3, <3>2 DEF Incomplete, Aligned, output
    <3>4. ASSUME NEW n \in Matches(buffer) PROVE k < n[1]
      <4>1. m[1] <= n[1] /\ n[1] \in Nat
        BY <2>3, <2>t, SyncFacts DEF Incomplete, Earliest
      <4> QED BY <3>1, <4>1
    <3> HIDE DEF k
    <3>5. Returned(With(e)') = Returned(With(e))
      BY <3>2, <3>3, <3>4, DroppedAlike
    <3> QED BY <2>0, <3>3, <3>5
  <2>4. ASSUME NEW m \in Matches(buffer), FalseSync(m) \/ TakeFrame(m)
        PROVE  Returned(Fresh(stream' \o e)) = Returned(With(e)')
    <3>1. Returned(With(e)') = Returned(With(e))
      BY <2>4, TakenAlike
    <3>2. stream' = stream
      BY <2>4 DEF FalseSync, TakeFrame
    <3> QED BY <2>0, <3>1, <3>2
  <2>5. CASE Send \/ SendError \/ AllSent \/ UNCHANGED scannerVars
    <3>1. With(e)' = With(e) /\ stream' = stream
      BY <2>5 DEF Send, SendError, AllSent, scannerVars, stats, output, With
    <3> QED BY <2>0, <3>1
  <2> QED BY <2>1, <2>2, <2>3, <2>4, <2>5 DEF ScannerNext, ScanStep
<1> QED BY <1>1, <1>2, TypeCorrect, PTL DEF ScannerSpec

\* When feed has returned, another pass would change nothing.
LEMMA NothingLeft ==
  ASSUME ScannerTypeOK, BufferBounded, loop # "scan"
  PROVE  Pass(Now) = Now
<1>1. /\ Now \in Scanners /\ Now.rest = buffer /\ Now.junk = junk /\ Now.gaps = gaps
      /\ Now.last = last /\ Now.frames = frames
      /\ buffer \in Seq(Bytes) /\ junk \in Nat /\ Len(buffer) \in Nat
  BY NowFacts DEF ScannerTypeOK
<1>2. Behind(buffer, 0) = buffer /\ junk + 0 = junk
  BY <1>1, BehindNothing
<1>3. CASE Len(buffer) <= 1
  <2>1. Matches(buffer) = {}
    <3> SUFFICES ASSUME NEW m \in Matches(buffer) PROVE FALSE
      OBVIOUS
    <3>1. m[1] \in 1..(Len(buffer) - 1)
      BY <1>1, SyncFacts
    <3> QED BY <1>1, <1>3, <3>1
  <2>2. WithoutSync(buffer) = 0
    BY <1>1, <1>3 DEF WithoutSync
  <2>3. Pass(Now) = Scanner(buffer, junk, gaps, last, frames)
    BY <1>1, <1>2, <2>1, <2>2, PassWithout
  <2> QED BY <2>3 DEF Now
<1>4. CASE ~ (Len(buffer) <= 1)
  <2>1. PICK s \in Sats : /\ <<buffer[1], buffer[2]>> = Sync[s]
                          /\ Len(buffer) < Length[s]
    BY <1>4 DEF BufferBounded
  <2> DEFINE m == <<1, s>>
  <2>2. 1 \in 1..(Len(buffer) - 1)
    BY <1>1, <1>4
  <2>3. m \in Matches(buffer)
    <3>1. 1 + 1 = 2
      OBVIOUS
    <3> QED BY <2>1, <2>2, <3>1 DEF Matches
  <2>4. \A n \in Matches(buffer) : m[1] <= n[1]
    BY <1>1, SyncFacts
  <2>5. Earliest(m, buffer) /\ m[1] = 1 /\ m[2] = s
    BY <2>3, <2>4 DEF Earliest
  <2> HIDE DEF m
  <2>6. Behind(buffer, m[1] - 1) = buffer /\ junk + m[1] - 1 = junk
    <3>1. m[1] - 1 = 0 /\ junk + m[1] - 1 = junk
      BY <1>1, <2>5
    <3> QED BY <1>2, <3>1
  <2>7. PassAt(Now, m) = Scanner(buffer, junk, gaps, last, frames)
    BY <1>1, <2>1, <2>5, <2>6, PassAtShort
  <2>8. Pass(Now) = PassAt(Now, m)
    BY <1>1, <2>5, PassIsAt
  <2> QED BY <2>7, <2>8 DEF Now
<1> QED BY <1>3, <1>4

\* However the stream was cut into chunks, when feed has returned the scanner has
\* found the same frames, keeps the same bytes and counts the same junk and gaps as
\* if TMFrameScanner.feed had been called once with all the bytes.
THEOREM CuttingIsIrrelevant == ScannerSpec => []CuttingIrrelevant
<1>1. ScannerTypeOK /\ BufferBounded /\ AnyMore => CuttingIrrelevant
  <2> SUFFICES ASSUME ScannerTypeOK, BufferBounded, AnyMore, loop # "scan"
               PROVE  Returned(Fresh(stream)) = Holding(buffer)
    BY DEF CuttingIrrelevant
  <2>1. <<>> \in Seq(Bytes) /\ stream \in Seq(Bytes) /\ buffer \in Seq(Bytes)
    BY DEF ScannerTypeOK
  <2>2. stream \o <<>> = stream /\ buffer \o <<>> = buffer
    BY <2>1, ConcatEmptySeq
  <2>3. Returned(Fresh(stream \o <<>>)) = Returned(With(<<>>))
    BY <2>1 DEF AnyMore
  <2>4. With(<<>>) = Now
    BY <2>2 DEF With, Now
  <2>5. Returned(Now) = Now
    BY NowFacts, NothingLeft, ReturnedDone
  <2>6. Now = Holding(buffer)
    BY HoldingIsScanner DEF Now
  <2> QED BY <2>2, <2>3, <2>4, <2>5, <2>6
<1> QED BY <1>1, TypeCorrect, BufferIsBounded, AnyMoreAlways, PTL

-----------------------------------------------------------------------------
\* A valid frame at the front is what the next pass takes.
LEMMA FrontFrame ==
  ASSUME NEW st \in Scanners, NEW s \in Sats, Length[s] <= Len(st.rest),
         NEW f, f = SubSeq(st.rest, 1, Length[s]), IsFrameOf(f, s)
  PROVE  /\ Pass(st) \in Scanners
         /\ Pass(st).rest = Behind(st.rest, Length[s])
         /\ Pass(st).frames = Append(st.frames, f)
         /\ f \in Seq(Bytes)
<1> DEFINE b == st.rest
           l == Length[s]
           m == <<1, s>>
<1>1. /\ b \in Seq(Bytes) /\ Len(b) \in Nat /\ l \in Nat /\ l >= 4 /\ l <= Len(b)
      /\ Pass(st) \in Scanners
  <2>1. b \in Seq(Bytes) /\ Pass(st) \in Scanners
    BY ScannersFacts, PassContinues DEF Continues
  <2> QED BY <2>1, TmScannerAssumption DEF TmScannerAssumption
<1>2. Behind(b, 0) = b
  BY <1>1, BehindNothing
<1> HIDE DEF b, l
<1>3. /\ f \in Seq(Bytes) /\ f[1] = b[1] /\ f[2] = b[2]
  <2>1. ~ (Len(b) < l) /\ 1 \in 1..l /\ 2 \in 1..l
    BY <1>1
  <2>2. f = SubSeq(b, 1, l)
    BY DEF b, l
  <2>3. /\ SubSeq(b, 1, l) \in Seq(Bytes)
        /\ \A k \in 1..l : SubSeq(b, 1, l)[k] = b[k]
    BY <1>1, <2>1, FrameFacts
  <2>4. SubSeq(b, 1, l)[1] = b[1] /\ SubSeq(b, 1, l)[2] = b[2]
    BY <2>1, <2>3
  <2> QED BY <2>2, <2>3, <2>4
<1>4. <<b[1], b[1 + 1]>> = Sync[s] /\ Valid(f)
  <2>1. <<f[1], f[2]>> = Sync[s] /\ Valid(f)
    BY DEF IsFrameOf
  <2>2. 1 + 1 = 2
    OBVIOUS
  <2> QED BY <1>3, <2>1, <2>2
<1>5. 1 \in 1..(Len(b) - 1)
  BY <1>1
<1>6. m \in Matches(b)
  BY <1>4, <1>5 DEF Matches
<1>7. \A n \in Matches(b) : m[1] <= n[1]
  BY <1>1, SyncFacts
<1>8. Earliest(m, b) /\ m[1] - 1 = 0 /\ m[2] = s
  BY <1>6, <1>7 DEF Earliest
<1> HIDE DEF m
<1>9. Behind(st.rest, m[1] - 1) = b /\ Length[m[2]] = l
  BY <1>2, <1>8 DEF b, l
<1>10. Pass(st) = PassAt(st, m)
  BY <1>1, <1>8, PassIsAt DEF b
<1>11. ~ (Len(b) < l) /\ f = SubSeq(b, 1, l)
  <2>1. ~ (Len(b) < l)
    BY <1>1
  <2> QED BY <2>1 DEF b, l
<1>12. Pass(st) = Scanner(Behind(b, l), st.junk + m[1] - 1,
                          st.gaps + Missing(st.last[m[2]], VcCount(f)),
                          [st.last EXCEPT ![m[2]] = VcCount(f)],
                          Append(st.frames, f))
  <2>1. /\ ~ (Len(Behind(st.rest, m[1] - 1)) < Length[m[2]])
        /\ f = SubSeq(Behind(st.rest, m[1] - 1), 1, Length[m[2]])
    BY <1>9, <1>11
  <2> QED BY <1>4, <1>9, <1>10, <2>1, PassAtFrame
<1>13. Pass(st).rest = Behind(b, l) /\ Pass(st).frames = Append(st.frames, f)
  <2> DEFINE r == Behind(b, l)
             j == st.junk + m[1] - 1
             gp == st.gaps + Missing(st.last[m[2]], VcCount(f))
             la == [st.last EXCEPT ![m[2]] = VcCount(f)]
             fs == Append(st.frames, f)
  <2>1. Pass(st) = Scanner(r, j, gp, la, fs)
    BY <1>12
  <2> HIDE DEF r, j, gp, la, fs
  <2>2. Pass(st).rest = r /\ Pass(st).frames = fs
    BY <2>1, ScannerFacts
  <2> QED BY <2>2 DEF r, fs
<1> QED BY <1>1, <1>3, <1>13 DEF b, l

\* The front of what is left is the middle of the whole.
LEMMA FrontOfRest ==
  ASSUME NEW b \in Seq(Bytes), NEW k \in Nat, NEW l \in Nat, k + l <= Len(b)
  PROVE  SubSeq(Behind(b, k), 1, l) = SubSeq(b, k + 1, k + l)
<1> DEFINE c == Behind(b, k)
           f == SubSeq(c, 1, l)
           g == SubSeq(b, k + 1, k + l)
<1>1. k \in 0..Len(b) /\ Len(b) \in Nat
  OBVIOUS
<1>2. c \in Seq(Bytes) /\ Len(c) = Len(b) - k /\ \A i \in 1..(Len(b) - k) : c[i] = b[k + i]
  BY <1>1, BehindFacts
<1> HIDE DEF c
<1>3. l \in 0..Len(c) /\ l \in 0..(Len(b) - k)
  BY <1>1, <1>2
<1>4. f \in Seq(Bytes) /\ Len(f) = l /\ \A i \in 1..l : f[i] = c[i]
  BY <1>2, <1>3
<1>5. g \in Seq(Bytes) /\ Len(g) = l /\ \A i \in 1..l : g[i] = b[k + i]
  BY <1>1
<1> HIDE DEF f, g
<1>6. \A i \in 1..l : f[i] = g[i]
  BY <1>1, <1>2, <1>3, <1>4, <1>5
<1>7. f = g
  BY <1>4, <1>5, <1>6, SeqEqual
<1> QED BY <1>7 DEF c, f, g

\* Frames a scanner has found are still there, in their places, when feed returns.
LEMMA ReturnedKeeps ==
  ASSUME NEW st \in Scanners
  PROVE  /\ Len(Returned(st).frames) >= Len(st.frames)
         /\ \A i \in 1..Len(st.frames) : Returned(st).frames[i] = st.frames[i]
<1>1. Len(st.rest) \in Nat
  BY ScannersFacts
<1> QED BY <1>1, PassesContinue, ReturnedIsPasses

\* A list of two frames.
LEMMA TwoFrames ==
  ASSUME NEW f, NEW g, NEW two, two = Append(Append(<<>>, f), g)
  PROVE  Len(two) = 2 /\ two[1] = f /\ two[2] = g
<1>1. {f, g} # {} /\ f \in {f, g} /\ g \in {f, g} /\ <<>> \in Seq({f, g})
  OBVIOUS
<1> QED BY <1>1

\* Two valid frames at the start of the stream are the first two frames passed on,
\* and they are sent before the serial port is read again, whatever sync words there
\* are inside them and however they were cut.
THEOREM CleanStreamIsDelivered == ScannerSpec => []CleanStreamDelivered
<1>1. ScannerTypeOK /\ CuttingIrrelevant => CleanStreamDelivered
  <2> SUFFICES ASSUME ScannerTypeOK, CuttingIrrelevant, NEW s \in Sats, NEW t \in Sats,
                      loop = "read", Len(stream) >= Length[s] + Length[t],
                      IsFrameOf(SubSeq(stream, 1, Length[s]), s),
                      IsFrameOf(SubSeq(stream, Length[s] + 1,
                                       Length[s] + Length[t]), t)
               PROVE  /\ sent >= 2
                      /\ frames[1] = SubSeq(stream, 1, Length[s])
                      /\ frames[2] = SubSeq(stream, Length[s] + 1,
                                            Length[s] + Length[t])
    BY DEF CleanStreamDelivered
  <2> DEFINE f == SubSeq(stream, 1, Length[s])
             g == SubSeq(stream, Length[s] + 1, Length[s] + Length[t])
             st0 == Fresh(stream)
             st1 == Pass(st0)
             st2 == Pass(st1)
  <2>t. /\ stream \in Seq(Bytes) /\ Len(stream) \in Nat
        /\ Length[s] \in Nat /\ Length[t] \in Nat
        /\ Length[s] + Length[t] <= Len(stream) /\ Length[s] <= Len(stream)
        /\ frames \in Seq(Seq(Bytes)) /\ Len(frames) \in Nat /\ sent = Len(frames)
    BY TmScannerAssumption DEF TmScannerAssumption, ScannerTypeOK
  <2>1. st0 \in Scanners /\ st0.rest = stream /\ st0.frames = <<>>
    <3>1. [u \in Sats |-> -1] \in [Sats -> Bytes \cup {-1}]
      OBVIOUS
    <3> QED BY <2>t, <3>1 DEF Fresh, Scanners
  <2> HIDE DEF st0
  <2>2. /\ st1 \in Scanners /\ st1.rest = Behind(stream, Length[s])
        /\ st1.frames = Append(<<>>, f) /\ f \in Seq(Bytes)
    BY <2>t, <2>1, FrontFrame
  <2> HIDE DEF st1
  <2>3. Length[t] <= Len(st1.rest) /\ g = SubSeq(st1.rest, 1, Length[t])
    <3>1. Len(Behind(stream, Length[s])) = Len(stream) - Length[s]
      <4>1. Length[s] \in 0..Len(stream)
        BY <2>t
      <4> QED BY <2>t, <4>1, BehindFacts
    <3>2. Length[t] <= Len(st1.rest)
      BY <2>t, <2>2, <3>1
    <3>3. SubSeq(Behind(stream, Length[s]), 1, Length[t])
            = SubSeq(stream, Length[s] + 1, Length[s] + Length[t])
      BY <2>t, FrontOfRest
    <3> QED BY <2>2, <3>2, <3>3
  <2> HIDE DEF f, g
  <2>4. st2 \in Scanners /\ st2.frames = Append(st1.frames, g) /\ g \in Seq(Bytes)
    BY <2>2, <2>3, FrontFrame DEF g
  <2>5. Len(st2.frames) = 2 /\ st2.frames[1] = f /\ st2.frames[2] = g
    <3>1. st2.frames = Append(Append(<<>>, f), g)
      BY <2>2, <2>4
    <3> QED BY <3>1, TwoFrames
  <2>6. Returned(st2) = Holding(buffer)
    <3>1. Returned(st2) = Returned(st1)
      BY <2>2, ReturnedAfterPass
    <3>2. Returned(st1) = Returned(st0)
      BY <2>1, ReturnedAfterPass DEF st1
    <3>3. Returned(st0) = Holding(buffer)
      BY DEF CuttingIrrelevant, st0
    <3> QED BY <3>1, <3>2, <3>3
  <2> HIDE DEF st2
  <2>7. Returned(st2).frames = frames
    BY <2>6 DEF Holding
  <2>8. /\ Len(frames) >= Len(st2.frames)
        /\ \A i \in 1..Len(st2.frames) : frames[i] = st2.frames[i]
    BY <2>4, <2>7, ReturnedKeeps
  <2>9. frames[1] = f /\ frames[2] = g
    BY <2>5, <2>8
  <2>10. sent >= 2
    BY <2>t, <2>5, <2>8
  <2> QED BY <2>9, <2>10 DEF f, g
<1> QED BY <1>1, TypeCorrect, CuttingIsIrrelevant, PTL
=============================================================================
