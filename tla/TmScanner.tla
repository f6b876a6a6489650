------------------------------ MODULE TmScanner ------------------------------
(***************************************************************************)
(* TMFrameScanner of client/src/proves_gs/client.py, and the loop of       *)
(* _forward_tm_serial around it: the byte stream of the radio arrives in   *)
(* chunks cut anywhere, and the frames of several satellites, each with a  *)
(* length of its own, are found in it by sync word and checked by CRC.     *)
(* Each pass of the loop in feed is an action.                             *)
(*                                                                         *)
(* A frame is its sync word, its virtual channel count, payload and one    *)
(* symbol of CRC: the header bytes that the scanner does not look at are   *)
(* left out, and so is the 30 s reset of junk_bytes.                       *)
(***************************************************************************)
EXTENDS Integers, Sequences, FiniteSets, SequencesExt

CONSTANTS
  Modulus,    \* values of a byte: also those of a virtual channel count
  Sats,       \* satellites of the station
  Sync,       \* the two bytes a satellite's frames begin with
  Length,     \* frame_lengths: bytes of a satellite's frames
  Crc(_),     \* crc16_ccitt of a sequence of bytes
  MaxStream   \* bound: bytes the radio delivers

Bytes == 0..(Modulus - 1)

ASSUME TmScannerAssumption ==
  /\ Modulus \in Nat \ {0}
  /\ Sync \in [Sats -> Bytes \X Bytes]
  /\ \A s, t \in Sats : s # t => Sync[s] # Sync[t]
  /\ Length \in [Sats -> Nat] /\ \A s \in Sats : Length[s] >= 4
  /\ MaxStream \in Nat

VARIABLES
  \* the fields of TMFrameScanner
  buffer, junk, gaps, last,
  \* _forward_tm_serial
  loop,    \* where the thread is: reading, in the loop of feed, sending, ended
  frames,  \* frames returned by feed, in all its calls
  sent,    \* how many of them were sent as UDP datagrams
  \* history
  stream,  \* the bytes feed was called with
  starts   \* where in stream each of frames begins

stats == <<junk, gaps, last>>
output == <<frames, sent, starts>>
scannerVars == <<buffer, stats, loop, stream, output>>

VcCount(frame) == frame[3]
Valid(frame) == Crc(Front(frame)) = Last(frame)
Behind(bytes, n) == SubSeq(bytes, n + 1, Len(bytes))

\* Start positions of sync words in a sequence of bytes, with their satellites.
Matches(bytes) ==
  {m \in (1..(Len(bytes) - 1)) \X Sats : <<bytes[m[1]], bytes[m[1] + 1]>> = Sync[m[2]]}

\* Mutant: any sync word, not the first.
MutEarliest(m, bytes) == m \in Matches(bytes)

\* No two satellites have the same sync word, so there is only one.
Earliest(m, bytes) == /\ m \in Matches(bytes)
                      /\ \A n \in Matches(bytes) : m[1] <= n[1]

-----------------------------------------------------------------------------
Chunks == UNION {[1..n -> Bytes] : n \in 0..(MaxStream - Len(stream))}

\* The serial port is read and feed is called.  A read that times out returns
\* no bytes.
Feed(chunk) ==
  /\ loop = "read"
  /\ stream' = stream \o chunk
  /\ buffer' = buffer \o chunk
  /\ loop' = "scan"
  /\ UNCHANGED <<stats, output>>

\* Mutant: bytes without a sync word are kept.
MutWithoutSync(bytes) == 0

\* Mutant: a first half of a sync word at the end is dropped too.
MutWithoutSyncAll(bytes) == Len(bytes)

\* How many bytes are dropped when there is no sync word: the last one is kept.
WithoutSync(bytes) == IF Len(bytes) > 1 THEN Len(bytes) - 1 ELSE 0

\* No sync word: feed returns.
NoSync ==
  /\ loop = "scan"
  /\ Matches(buffer) = {}
  /\ buffer' = Behind(buffer, WithoutSync(buffer))
  /\ junk' = junk + WithoutSync(buffer)
  /\ loop' = "send"
  /\ UNCHANGED <<gaps, last, stream, output>>

\* The buffer once the bytes before match m are gone.
Aligned(m) == Behind(buffer, m[1] - 1)
Candidate(m) == SubSeq(Aligned(m), 1, Length[m[2]])

\* The frame at the earliest match is not complete: feed returns.
Incomplete(m) ==
  /\ loop = "scan"
  /\ Earliest(m, buffer)
  /\ Len(Aligned(m)) < Length[m[2]]
  /\ buffer' = Aligned(m)
  /\ junk' = junk + m[1] - 1
  /\ loop' = "send"
  /\ UNCHANGED <<gaps, last, stream, output>>

\* Is the frame at the earliest match in the buffer, all of it?
Complete(m) ==
  /\ loop = "scan"
  /\ Earliest(m, buffer)
  /\ Len(Aligned(m)) >= Length[m[2]]

\* Mutant: one junk byte is counted for the two of a sync word.
MutFalseSync(m) ==
  /\ Complete(m)
  /\ ~Valid(Candidate(m))
  /\ buffer' = Behind(Aligned(m), 2)
  /\ junk' = junk + m[1]
  /\ UNCHANGED <<gaps, last, loop, stream, output>>

\* A sync word that starts no valid frame: it is skipped.
FalseSync(m) ==
  /\ Complete(m)
  /\ ~Valid(Candidate(m))
  /\ buffer' = Behind(Aligned(m), 2)
  /\ junk' = junk + m[1] - 1 + 2
  /\ UNCHANGED <<gaps, last, loop, stream, output>>

\* Frames missing between two counts of a satellite, -1 before the first.
Missing(previous, count) ==
  LET distance == (count - previous) % Modulus
  IN  IF previous # -1 /\ distance > 1 THEN distance - 1 ELSE 0

\* Mutant: the CRC at the end stays in the buffer.
MutAfter(m) == Behind(Aligned(m), Length[m[2]] - 1)

\* What is left behind the frame.
After(m) == Behind(Aligned(m), Length[m[2]])

\* A valid frame is taken out of the buffer; a jump of its count is a gap.
TakeFrame(m) ==
  LET count == VcCount(Candidate(m))
  IN  /\ Complete(m)
      /\ Valid(Candidate(m))
      /\ buffer' = After(m)
      /\ junk' = junk + m[1] - 1
      /\ gaps' = gaps + Missing(last[m[2]], count)
      /\ last' = [last EXCEPT ![m[2]] = count]
      /\ frames' = Append(frames, Candidate(m))
      /\ starts' = Append(starts, Len(stream) - Len(Aligned(m)) + 1)
      /\ UNCHANGED <<loop, sent, stream>>

\* The frames feed returned are sent one by one.
Send ==
  /\ loop = "send"
  /\ sent < Len(frames)
  /\ sent' = sent + 1
  /\ UNCHANGED <<buffer, stats, loop, frames, stream, starts>>

\* sendto raises, and nothing catches it: the thread ends.
SendError ==
  /\ loop = "send"
  /\ sent < Len(frames)
  /\ loop' = "ended"
  /\ UNCHANGED <<buffer, stats, stream, output>>

\* Mutant: only the first frame of a call of feed is sent.
MutAllSent ==
  /\ loop = "send"
  /\ loop' = "read"
  /\ UNCHANGED <<buffer, stats, stream, output>>

AllSent ==
  /\ loop = "send"
  /\ sent = Len(frames)
  /\ loop' = "read"
  /\ UNCHANGED <<buffer, stats, stream, output>>

-----------------------------------------------------------------------------
ScannerInit ==
  /\ buffer = <<>>
  /\ junk = 0
  /\ gaps = 0
  /\ last = [s \in Sats |-> -1]
  /\ loop = "read"
  /\ frames = <<>>
  /\ sent = 0
  /\ stream = <<>>
  /\ starts = <<>>

ScanStep == \E m \in Matches(buffer) :
              Incomplete(m) \/ FalseSync(m) \/ TakeFrame(m)

ScannerNext == \/ \E chunk \in Chunks : Feed(chunk)
               \/ NoSync \/ ScanStep
               \/ Send \/ SendError \/ AllSent

ScannerSpec == ScannerInit /\ [][ScannerNext]_scannerVars

-----------------------------------------------------------------------------
ScannerTypeOK ==
  /\ buffer \in Seq(Bytes) /\ Len(buffer) <= Len(stream)
  /\ junk \in Nat
  /\ gaps \in Nat
  /\ last \in [Sats -> Bytes \cup {-1}]
  /\ loop \in {"read", "scan", "send", "ended"}
  /\ frames \in Seq(Seq(Bytes))
  /\ sent \in 0..Len(frames) /\ (loop = "read" => sent = Len(frames))
  /\ stream \in Seq(Bytes)
  /\ starts \in Seq(Nat \ {0})

\* The places of the stream that are part of a frame.
InFrames == {p \in 1..Len(stream) : \E i \in 1..Len(frames) :
               starts[i] <= p /\ p < starts[i] + Len(frames[i])}

\* Every byte fed has a place in a frame returned, is counted as junk, or is still
\* in the buffer: none is used twice and none is lost.
BytesAccounted == Len(stream) = Cardinality(InFrames) + junk + Len(buffer)

\* Once feed has returned the buffer is shorter than the longest frame, and there
\* is no frame in it that could be returned at once.
BufferBounded ==
  loop # "scan" =>
    \/ Len(buffer) <= 1
    \/ \E s \in Sats : <<buffer[1], buffer[2]>> = Sync[s] /\ Len(buffer) < Length[s]

\* A frame of satellite s, as the scanner tells it.
IsFrameOf(f, s) ==
  Len(f) = Length[s] /\ <<f[1], f[2]>> = Sync[s] /\ Valid(f)

\* Is f what the radio delivered from position p on?
DeliveredAt(f, p) == \A k \in 1..Len(f) : f[k] = stream[p + k - 1]

\* A frame passed on is one of a satellite of this station, whole, with a good
\* CRC, as the radio delivered it without a cut; no byte is part of two frames, and
\* frames keep their order.  What is in the buffer was delivered behind them.
FramesGenuine ==
  /\ Len(starts) = Len(frames)
  /\ \A i \in 1..Len(frames) :
       /\ \E s \in Sats : IsFrameOf(frames[i], s)
       /\ DeliveredAt(frames[i], starts[i])
       /\ starts[i] + Len(frames[i]) + Len(buffer) <= Len(stream) + 1
  /\ \A i, j \in 1..Len(frames) : i < j => starts[i] + Len(frames[i]) <= starts[j]
  /\ DeliveredAt(buffer, Len(stream) - Len(buffer) + 1)

\* Two valid frames with which the stream begins, without junk between them, are both
\* returned, in order, whatever sync words appear inside them and whatever follows, and
\* sent before the next read.
CleanStreamDelivered ==
  \A s, t \in Sats :
    LET f == SubSeq(stream, 1, Length[s])
        g == SubSeq(stream, Length[s] + 1, Length[s] + Length[t])
    IN  /\ loop = "read"
        /\ Len(stream) >= Length[s] + Length[t]
        /\ IsFrameOf(f, s) /\ IsFrameOf(g, t)
        => sent >= 2 /\ frames[1] = f /\ frames[2] = g

-----------------------------------------------------------------------------
\* The scanner and the frames it has found, when these bytes are in its buffer.
Fresh(bytes) == [rest |-> bytes, junk |-> 0, gaps |-> 0,
                 last |-> [s \in Sats |-> -1], frames |-> <<>>]
Holding(bytes) == [rest |-> bytes, junk |-> junk, gaps |-> gaps,
                   last |-> last, frames |-> frames]

\* One pass of the loop of feed, as a function: when m is the earliest match, and
\* in any case.
PassAt(st, m) ==
  LET aligned == Behind(st.rest, m[1] - 1)
      frame   == SubSeq(aligned, 1, Length[m[2]])
      before  == [st EXCEPT !.rest = aligned, !.junk = @ + m[1] - 1]
  IN  IF Len(aligned) < Length[m[2]] THEN before
      ELSE IF ~Valid(frame)
        THEN [before EXCEPT !.rest = Behind(aligned, 2), !.junk = @ + 2]
      ELSE [before EXCEPT !.rest = Behind(aligned, Length[m[2]]),
                          !.gaps = @ + Missing(st.last[m[2]], VcCount(frame)),
                          !.last[m[2]] = VcCount(frame),
                          !.frames = Append(@, frame)]

Pass(st) ==
  IF Matches(st.rest) = {}
    THEN [st EXCEPT !.rest = Behind(@, WithoutSync(@)),
                    !.junk = @ + WithoutSync(st.rest)]
    ELSE PassAt(st, CHOOSE m \in Matches(st.rest) : Earliest(m, st.rest))

\* What a call of feed leaves.  A pass that changes anything shortens the buffer,
\* so there are no more passes than bytes.
Returned(st) ==
  LET pass[n \in Nat] == IF n = 0 THEN st ELSE Pass(pass[n - 1])
  IN  pass[Len(st.rest)]

\* How the stream was cut into chunks makes no difference to the frames found, to
\* what is kept for the next chunk or to the statistics: one call of feed with all
\* the bytes would have left the scanner of client.py the same.
CuttingIrrelevant ==
  loop # "scan" => Returned(Fresh(stream)) = Holding(buffer)
=============================================================================
