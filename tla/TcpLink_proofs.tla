---------------------------- MODULE TcpLink_proofs ----------------------------
(***************************************************************************)
(* Proofs about TcpLink, for any satellites, frame lengths, telecommands,  *)
(* room in the socket, client processes and events: the types, and that in *)
(* both directions whole frames arrive in order.  Each proof follows one   *)
(* stream: what is left of it begins where the next frame begins.  Last,   *)
(* all this holds of a client in either mode, the ClientSpec of ClientTm.  *)
(***************************************************************************)
EXTENDS ClientTm, SequenceTheorems, TLAPS

-----------------------------------------------------------------------------
\* Sequences: the first n elements and the rest of them.
LEMMA FirstFacts ==
  ASSUME NEW S, NEW s \in Seq(S), NEW n \in 0..Len(s)
  PROVE  /\ First(s, n) \in Seq(S) /\ Len(First(s, n)) = n
         /\ \A k \in 1..n : First(s, n)[k] = s[k]
BY DEF First

\* What is behind the first n elements.
LEMMA RestFacts ==
  ASSUME NEW S, NEW s \in Seq(S), NEW n \in 0..Len(s)
  PROVE  /\ Rest(s, n) \in Seq(S) /\ Len(Rest(s, n)) = Len(s) - n
         /\ \A k \in 1..(Len(s) - n) : Rest(s, n)[k] = s[n + k]
BY DEF Rest

\* ... and their types.
LEMMA SplitTypes ==
  ASSUME NEW S, NEW s \in Seq(S), NEW n \in 0..Len(s)
  PROVE  /\ First(s, n) \in Seq(S) /\ Rest(s, n) \in Seq(S)
         /\ Len(Rest(s, n)) <= Len(s)
<1>1. First(s, n) \in Seq(S)
  BY FirstFacts
<1>2. Rest(s, n) \in Seq(S) /\ Len(Rest(s, n)) = Len(s) - n
  BY RestFacts
<1> QED BY <1>1, <1>2

\* One more element.
LEMMA AppendFacts ==
  ASSUME NEW S, NEW s \in Seq(S), NEW x \in S
  PROVE  /\ Append(s, x) \in Seq(S) /\ Len(Append(s, x)) = Len(s) + 1
         /\ \A i \in 1..Len(s) : Append(s, x)[i] = s[i]
         /\ Append(s, x)[Len(s) + 1] = x
OBVIOUS

\* Two sequences, one behind the other.
LEMMA ConcatFacts ==
  ASSUME NEW S, NEW s \in Seq(S), NEW t \in Seq(S)
  PROVE  /\ s \o t \in Seq(S) /\ Len(s \o t) = Len(s) + Len(t)
         /\ \A i \in 1..Len(s) : (s \o t)[i] = s[i]
         /\ \A i \in 1..Len(t) : (s \o t)[Len(s) + i] = t[i]
OBVIOUS

\* The first element is taken.
LEMMA TailFacts ==
  ASSUME NEW S, NEW s \in Seq(S), s # <<>>
  PROVE  /\ Head(s) \in S /\ Head(s) = s[1] /\ Len(s) \in Nat \ {0}
         /\ Tail(s) \in Seq(S) /\ Len(Tail(s)) = Len(s) - 1
         /\ \A i \in 1..(Len(s) - 1) : Tail(s)[i] = s[i + 1]
OBVIOUS

\* All of the first elements and the rest make the whole.
LEMMA FirstRest ==
  ASSUME NEW S, NEW s \in Seq(S), NEW n \in 0..Len(s)
  PROVE  First(s, n) \o Rest(s, n) = s
<1> DEFINE a == First(s, n)
           b == Rest(s, n)
<1>1. /\ a \in Seq(S) /\ Len(a) = n /\ \A k \in 1..n : a[k] = s[k]
      /\ b \in Seq(S) /\ Len(b) = Len(s) - n
      /\ \A k \in 1..(Len(s) - n) : b[k] = s[n + k]
  BY FirstFacts, RestFacts
<1> HIDE DEF a, b
<1>2. /\ a \o b \in Seq(S) /\ Len(a \o b) = Len(s)
      /\ \A i \in 1..Len(s) : (a \o b)[i] = IF i <= n THEN a[i] ELSE b[i - n]
  BY <1>1, ConcatProperties
<1>3. \A i \in 1..Len(s) : (a \o b)[i] = s[i]
  BY <1>1, <1>2
<1>4. a \o b = s
  BY <1>2, <1>3, SeqEqual
<1> QED BY <1>4 DEF a, b

\* The rest of the rest.
LEMMA RestRest ==
  ASSUME NEW S, NEW s \in Seq(S), NEW n \in 0..Len(s), NEW m \in 0..(Len(s) - n)
  PROVE  Rest(Rest(s, n), m) = Rest(s, n + m)
<1> DEFINE a == Rest(s, n)
<1>1. /\ a \in Seq(S) /\ Len(a) = Len(s) - n
      /\ \A k \in 1..(Len(s) - n) : a[k] = s[n + k]
  BY RestFacts
<1> HIDE DEF a
<1> DEFINE l == Len(a)
<1>2. /\ Rest(a, m) \in Seq(S) /\ Len(Rest(a, m)) = l - m
      /\ \A k \in 1..(l - m) : Rest(a, m)[k] = a[m + k]
  <2>1. m \in 0..l /\ a \in Seq(S)
    BY <1>1
  <2> QED BY <2>1, RestFacts
<1>3. n + m \in 0..Len(s)
  OBVIOUS
<1>4. /\ Rest(s, n + m) \in Seq(S) /\ Len(Rest(s, n + m)) = Len(s) - (n + m)
      /\ \A k \in 1..(Len(s) - (n + m)) : Rest(s, n + m)[k] = s[n + m + k]
  BY <1>3, RestFacts
<1>5. ASSUME NEW k \in 1..(l - m) PROVE Rest(a, m)[k] = Rest(s, n + m)[k]
  <2>1. m + k \in 1..(Len(s) - n) /\ k \in 1..(Len(s) - (n + m)) /\ n + (m + k) = n + m + k
    BY <1>1
  <2> QED BY <1>1, <1>2, <1>4, <2>1
<1>6. Len(Rest(a, m)) = Len(Rest(s, n + m)) /\ Len(Rest(a, m)) = l - m
  <2>1. Len(s) \in Nat /\ l - m = Len(s) - (n + m)
    BY <1>1
  <2> QED BY <1>2, <1>4, <2>1
<1> DEFINE x == Rest(a, m)
           y == Rest(s, n + m)
<1>7. x \in Seq(S) /\ y \in Seq(S) /\ Len(x) = Len(y) /\ \A k \in 1..Len(x) : x[k] = y[k]
  BY <1>2, <1>4, <1>5, <1>6
<1> HIDE DEF x, y
<1>8. x = y
  BY <1>7, SeqEqual
<1> QED BY <1>8 DEF a, x, y

\* The rest of a sequence that was extended.
LEMMA RestConcat ==
  ASSUME NEW S, NEW s \in Seq(S), NEW t \in Seq(S), NEW n \in 0..Len(s)
  PROVE  Rest(s \o t, n) = Rest(s, n) \o t
<1> DEFINE a == Rest(s, n)
           u == s \o t
<1>1. /\ a \in Seq(S) /\ Len(a) = Len(s) - n
      /\ \A k \in 1..(Len(s) - n) : a[k] = s[n + k]
  BY RestFacts
<1>2. /\ u \in Seq(S) /\ Len(u) = Len(s) + Len(t)
      /\ \A i \in 1..(Len(s) + Len(t)) : u[i] = IF i <= Len(s) THEN s[i] ELSE t[i - Len(s)]
  BY ConcatProperties
<1> HIDE DEF a, u
<1> DEFINE l == Len(a)
<1>3. /\ a \o t \in Seq(S) /\ Len(a \o t) = l + Len(t)
      /\ \A i \in 1..(l + Len(t)) : (a \o t)[i] = IF i <= l THEN a[i] ELSE t[i - l]
  BY <1>1, ConcatProperties
<1>4. n \in 0..Len(u)
  BY <1>2
<1>5. /\ Rest(u, n) \in Seq(S) /\ Len(Rest(u, n)) = Len(u) - n
      /\ \A k \in 1..(Len(u) - n) : Rest(u, n)[k] = u[n + k]
  BY <1>2, <1>4, RestFacts
<1>6. Len(u) - n = l + Len(t)
  BY <1>1, <1>2
<1>7. ASSUME NEW k \in 1..(l + Len(t)) PROVE Rest(u, n)[k] = (a \o t)[k]
  <2>1. Rest(u, n)[k] = IF n + k <= Len(s) THEN s[n + k] ELSE t[n + k - Len(s)]
    <3>1. k \in 1..(Len(u) - n) /\ n + k \in 1..(Len(s) + Len(t))
      BY <1>1, <1>6
    <3>2. Rest(u, n)[k] = u[n + k]
      BY <1>5, <3>1
    <3> QED BY <1>2, <3>1, <3>2
  <2>2. (a \o t)[k] = IF k <= Len(s) - n THEN s[n + k] ELSE t[k - (Len(s) - n)]
    BY <1>1, <1>3
  <2> QED BY <2>1, <2>2
<1>8. Rest(u, n) = a \o t
  BY <1>3, <1>5, <1>6, <1>7, SeqEqual
<1> QED BY <1>8 DEF a, u

\* The rest behind bytes of which no more than the first part is taken.
LEMMA EmptyFacts ==
  ASSUME NEW S, NEW s \in Seq(S)
  PROVE  <<>> \o s = s /\ s \o <<>> = s /\ Rest(s, 0) = s
<1>1. <<>> \o s = s /\ s \o <<>> = s
  BY ConcatEmptySeq
<1>2. Rest(s, 0) \in Seq(S) /\ Len(Rest(s, 0)) = Len(s) /\ \A k \in 1..Len(s) : Rest(s, 0)[k] = s[k]
  BY RestFacts
<1>3. Rest(s, 0) = s
  BY <1>2, SeqEqual
<1> QED BY <1>1, <1>3

\* The bytes of u behind the first n are held by two parts: a buffer, and what is
\* on its way.
Held(u, n, b, way) == n \in 0..Len(u) /\ Rest(u, n) = b \o way

\* The buffer is a part of the stream.
LEMMA HeldFacts ==
  ASSUME NEW S, NEW u \in Seq(S), NEW b \in Seq(S), NEW way \in Seq(S), NEW n, Held(u, n, b, way)
  PROVE  /\ n \in 0..Len(u) /\ Len(u) - n = Len(b) + Len(way)
         /\ \A k \in 1..Len(b) : b[k] = u[n + k]
<1>1. n \in 0..Len(u)
  BY DEF Held
<1>2. /\ Len(Rest(u, n)) = Len(u) - n
      /\ \A k \in 1..(Len(u) - n) : Rest(u, n)[k] = u[n + k]
  BY <1>1, RestFacts
<1>3. /\ Len(b \o way) = Len(b) + Len(way) /\ Len(b) \in Nat /\ Len(way) \in Nat
      /\ \A k \in 1..Len(b) : (b \o way)[k] = b[k]
  BY ConcatFacts
<1>4. Len(u) - n = Len(b) + Len(way)
  BY <1>2, <1>3 DEF Held
<1>5. \A k \in 1..Len(b) : k \in 1..(Len(u) - n)
  BY <1>3, <1>4
<1> QED BY <1>1, <1>2, <1>3, <1>4, <1>5 DEF Held

\* The stream starts empty, or nothing of it has been received.
LEMMA HeldAtStart ==
  ASSUME NEW S, NEW u \in Seq(S)
  PROVE  Held(u, 0, <<>>, u)
<1>1. 0 \in 0..Len(u)
  OBVIOUS
<1> QED BY <1>1, EmptyFacts DEF Held

\* Three parts of a stream.
LEMMA ConcatIsAssociative ==
  ASSUME NEW S, NEW s \in Seq(S), NEW t \in Seq(S), NEW x \in Seq(S)
  PROVE  (s \o t) \o x = s \o (t \o x)
BY ConcatAssociative

\* Bytes are received ...
LEMMA HeldMove ==
  ASSUME NEW S, NEW u \in Seq(S), NEW b \in Seq(S), NEW way \in Seq(S), NEW n, Held(u, n, b, way),
         NEW m \in 0..Len(way)
  PROVE  Held(u, n, b \o First(way, m), Rest(way, m))
<1>1. First(way, m) \in Seq(S) /\ Rest(way, m) \in Seq(S)
  BY SplitTypes
<1>2. (b \o First(way, m)) \o Rest(way, m) = b \o (First(way, m) \o Rest(way, m))
  BY <1>1, ConcatIsAssociative
<1>3. First(way, m) \o Rest(way, m) = way
  BY FirstRest
<1> QED BY <1>2, <1>3 DEF Held

\* ... sent ...
LEMMA HeldAdd ==
  ASSUME NEW S, NEW u \in Seq(S), NEW b \in Seq(S), NEW way \in Seq(S), NEW n, Held(u, n, b, way),
         NEW x \in Seq(S)
  PROVE  Held(u \o x, n, b, way \o x)
<1>1. n \in 0..Len(u)
  BY DEF Held
<1>2. (b \o way) \o x = b \o (way \o x)
  BY ConcatIsAssociative
<1>3. Rest(u \o x, n) = Rest(u, n) \o x
  BY <1>1, RestConcat
<1>4. Len(u \o x) = Len(u) + Len(x) /\ Len(u) \in Nat /\ Len(x) \in Nat
  BY ConcatFacts
<1>5. n \in 0..Len(u \o x)
  BY <1>1, <1>4
<1> QED BY <1>2, <1>3, <1>5 DEF Held

\* ... or cut from the front of the buffer.
LEMMA HeldCut ==
  ASSUME NEW S, NEW u \in Seq(S), NEW b \in Seq(S), NEW way \in Seq(S), NEW n, Held(u, n, b, way),
         NEW m \in 0..Len(b)
  PROVE  Held(u, n + m, Rest(b, m), way)
<1>1. n \in 0..Len(u) /\ Len(u) - n = Len(b) + Len(way) /\ Len(way) \in Nat /\ Len(u) \in Nat
  BY HeldFacts
<1>2. m \in 0..(Len(u) - n) /\ n + m \in 0..Len(u)
  BY <1>1
<1>3. Rest(b \o way, m) = Rest(b, m) \o way
  BY RestConcat
<1>4. Rest(Rest(u, n), m) = Rest(u, n + m)
  BY <1>1, <1>2, RestRest
<1> QED BY <1>2, <1>3, <1>4 DEF Held

-----------------------------------------------------------------------------
\* The facts about the constants that the proofs below use.
LEMMA ConstantFacts ==
  /\ TmSize \in Nat \ {0} /\ Header \in Nat \ {0} /\ Room \in Nat
  /\ \A f \in TcFrames : TcSize[f] \in Nat /\ TcSize[f] > Header
  /\ NumClients \in Nat
BY TcpLinkAssumption DEF TcpLinkAssumption

\* Spending one event of a kind leaves every count a natural number.
LEMMA SpendType ==
  ASSUME used \in [Kinds -> Nat], NEW kind \in Kinds, Spend(kind)
  PROVE  used' \in [Kinds -> Nat]
BY DEF Spend

\* The bytes of a frame.
LEMMA TmBytes ==
  ASSUME NEW f \in TmFrame
  PROVE  /\ FrameBytes(f, TmSize) \in Seq(TmByte) /\ Len(FrameBytes(f, TmSize)) = TmSize
         /\ \A k \in 1..TmSize : FrameBytes(f, TmSize)[k] = [f |-> f, k |-> k]
<1> TmSize \in Nat
  BY ConstantFacts
<1>1. \A k \in 1..TmSize : [f |-> f, k |-> k] \in TmByte
  BY DEF TmByte
<1> QED BY <1>1 DEF FrameBytes

\* A telecommand has its own length.
LEMMA TcBytes ==
  ASSUME NEW f \in TcFrames
  PROVE  /\ FrameBytes(f, TcSize[f]) \in Seq(TcByte)
         /\ Len(FrameBytes(f, TcSize[f])) = TcSize[f] /\ TcSize[f] \in Nat
         /\ \A k \in 1..TcSize[f] : FrameBytes(f, TcSize[f])[k] = [f |-> f, k |-> k]
<1> TcSize[f] \in Nat
  BY ConstantFacts
<1>1. \A k \in 1..TcSize[f] : [f |-> f, k |-> k] \in TcByte
  BY DEF TcByte
<1> QED BY <1>1 DEF FrameBytes

\* What fits is the front of a frame.
LEMMA FittingFacts ==
  ASSUME NEW bytes \in Seq(TmByte), NEW down \in Seq(TmByte), Len(down) <= Room
  PROVE  /\ Fitting(bytes, down) \in Seq(TmByte)
         /\ Len(Fitting(bytes, down)) <= Len(bytes)
         /\ \A k \in 1..Len(Fitting(bytes, down)) : Fitting(bytes, down)[k] = bytes[k]
         /\ down \o Fitting(bytes, down) \in Seq(TmByte)
         /\ Len(down \o Fitting(bytes, down)) <= Room
<1> DEFINE part == Fitting(bytes, down)
<1>1. Room \in Nat
  BY ConstantFacts
<1>2. /\ part \in Seq(TmByte) /\ Len(part) <= Len(bytes) /\ Len(down) + Len(part) <= Room
      /\ \A k \in 1..Len(part) : part[k] = bytes[k]
  <2>1. CASE Len(down) + Len(bytes) <= Room
    BY <2>1 DEF Fitting
  <2>2. CASE ~(Len(down) + Len(bytes) <= Room)
    <3>1. Room - Len(down) \in 0..Len(bytes) /\ part = First(bytes, Room - Len(down))
      BY <1>1, <2>2 DEF Fitting
    <3> HIDE DEF part
    <3>2. /\ part \in Seq(TmByte) /\ Len(part) = Room - Len(down)
          /\ \A k \in 1..(Room - Len(down)) : part[k] = bytes[k]
      BY <3>1, FirstFacts
    <3> QED BY <1>1, <3>1, <3>2
  <2> QED BY <2>1, <2>2
<1> HIDE DEF part
<1>3. down \o part \in Seq(TmByte) /\ Len(down \o part) = Len(down) + Len(part)
  BY <1>2, ConcatProperties
<1> QED BY <1>2, <1>3 DEF part

\* The frame a datagram becomes has the id of its process on the wire.
LEMMA RewriteFacts ==
  ASSUME NEW l \in Links, NEW f \in TmFrame
  PROVE  /\ RewriteTm(l, f) \in TmFrame
         /\ RewriteTm(l, f).from = f.from /\ RewriteTm(l, f).no = f.no
         /\ f.scid = Native => RewriteTm(l, f).scid = Wire[l]
BY DEF RewriteTm, TmFrame

\* The connection that is served, and that of the running client.
LEMMA ServedConn ==
  ASSUME TypeOK, serving
  PROVE  /\ accepted \in Clients /\ accepted <= cur
         /\ conn[accepted].down \in Seq(TmByte) /\ Len(conn[accepted].down) <= Room
         /\ conn[accepted].up \in Seq(TcByte)
BY ConstantFacts DEF TypeOK, BridgeType, ClientType, NetworkType, Clients

\* The connection of the client that runs.
LEMMA ClientConn ==
  ASSUME TypeOK, running
  PROVE  /\ cur \in Clients /\ cur \in Nat
         /\ conn[cur].down \in Seq(TmByte) /\ Len(conn[cur].down) <= Room
         /\ conn[cur].up \in Seq(TcByte)
BY ConstantFacts DEF TypeOK, ClientType, NetworkType, Clients

\* by_wire_scid finds a link by its id.
LEMMA LinkFacts ==
  ASSUME NEW scid, LinkFor(scid) # None
  PROVE  LinkFor(scid) \in Links /\ Wire[LinkFor(scid)] = scid
BY DEF LinkFor

\* The end of a session, as far as the connections are concerned.
LEMMA EndSessionType ==
  ASSUME TypeOK, serving, NEW down \in Seq(TmByte), Len(down) <= Room,
         NEW up \in Seq(TcByte), EndSession(down, up)
  PROVE  /\ conn' \in [Clients -> [down : Seq(TmByte), up : Seq(TcByte),
                                   clientOpen : BOOLEAN, bridgeOpen : BOOLEAN]]
         /\ \A c \in Clients : Len(conn'[c].down) <= Room
         /\ serving' = FALSE /\ popped' = <<>>
BY ServedConn DEF EndSession, TypeOK, NetworkType

\* ... and as far as the bridge is.
LEMMA SessionOver ==
  ASSUME TypeOK, serving, ~popping, NEW down, NEW up, EndSession(down, up),
         queue' \in [Links -> Seq(TmFrame)],
         UNCHANGED <<accepted, tcBuffer, popping, pops, cur>>
  PROVE  BridgeType'
<1>1. serving' = FALSE /\ popped' = <<>>
  BY DEF EndSession
<1>2. popped' \in Seq([bytes : Seq(TcByte), no : Nat])
  BY <1>1, EmptySeq
<1>3. accepted' \in 0..cur' /\ tcBuffer' \in Seq(TcByte) /\ pops' \in Nat /\ popping' = FALSE
  BY DEF TypeOK, BridgeType
<1> QED BY <1>1, <1>2, <1>3 DEF BridgeType

-----------------------------------------------------------------------------
\* Type correctness: whatever the processes, the network and the operator do, the
\* state of the bridge and of the client has its declared shape; in particular the
\* socket of the bridge never holds more than it has room for.
THEOREM TypeCorrect == Spec => []TypeOK
<1>1. Init => TypeOK
  <2> SUFFICES ASSUME Init PROVE TypeOK
    OBVIOUS
  <2>1. BridgeType /\ ClientType
    <3>1. \A S : <<>> \in Seq(S)
      BY EmptySeq
    <3>2. queue \in [Links -> Seq(TmFrame)]
      BY <3>1 DEF Init
    <3>3. /\ tcBuffer \in Seq(TcByte) /\ popped \in Seq([bytes : Seq(TcByte), no : Nat])
          /\ popped = <<>> /\ buffered \in Seq(TmByte)
      BY <3>1 DEF Init
    <3>4. /\ accepted = 0 /\ cur = 0 /\ serving = FALSE /\ popping = FALSE /\ pops = 0
          /\ running = FALSE /\ tmUp = FALSE /\ tcUp = FALSE /\ cuts = 0
      BY DEF Init
    <3>5. BridgeType
      <4>1. accepted \in 0..cur
        BY <3>4
      <4>3. serving \in BOOLEAN /\ ~serving
        BY <3>4
      <4>2. popping \in BOOLEAN /\ pops \in Nat /\ ~(popping \/ popped # <<>>)
        BY <3>3, <3>4
      <4> QED BY <3>2, <3>3, <4>1, <4>2, <4>3 DEF BridgeType
    <3>6. ClientType
      BY <3>3, <3>4 DEF ClientType
    <3> QED BY <3>5, <3>6
  <2>2. conn \in [Clients -> [down : Seq(TmByte), up : Seq(TcByte),
                             clientOpen : BOOLEAN, bridgeOpen : BOOLEAN]]
    BY DEF Init
  <2>3. \A c \in Clients : Len(conn[c].down) <= Room
    <3>1. \A c \in Clients : conn[c].down = <<>>
      BY DEF Init
    <3>2. Len(<<>>) = 0 /\ 0 <= Room
      BY ConstantFacts
    <3> QED BY <3>1, <3>2
  <2>4. NetworkType
    BY <2>2, <2>3 DEF Init, NetworkType
  <2>5. TmType /\ TcType
    BY DEF Init, TmType, TcType
  <2> QED BY <2>1, <2>4, <2>5 DEF TypeOK
<1>2. TypeOK /\ [Next]_vars => TypeOK'
  <2> SUFFICES ASSUME TypeOK, [Next]_vars PROVE TypeOK'
    OBVIOUS
  <2> USE DEF TypeOK
  <2>1. ASSUME NEW l \in Links, SendTm(l) PROVE TypeOK'
    <3> DEFINE frame == [scid |-> Native, from |-> l, no |-> emitted[l] + 1]
    <3>1. frame \in TmFrame /\ emitted[l] + 1 \in Nat
      BY DEF TmType, TmFrame
    <3>5. queue' = queue \/ queue' = [queue EXCEPT ![l] = Append(@, frame)]
      BY <2>1 DEF SendTm
    <3> HIDE DEF frame
    <3>6. queue \in [Links -> Seq(TmFrame)] /\ Append(queue[l], frame) \in Seq(TmFrame)
      BY <3>1, AppendFacts DEF BridgeType
    <3>7. queue' \in [Links -> Seq(TmFrame)]
      BY <3>5, <3>6
    <3>2. BridgeType'
      BY <2>1, <3>7 DEF SendTm, BridgeType, client
    <3>3. NetworkType'
      BY <2>1, SpendType DEF SendTm, NetworkType, Kinds
    <3>8. emitted' \in [Links -> Nat]
      BY <2>1, <3>1 DEF SendTm, TmType
    <3>4. TmType'
      BY <2>1, <3>8 DEF SendTm, TmType
    <3> QED
      BY <2>1, <3>2, <3>3, <3>4 DEF SendTm, ClientType, TcType, client, tc
  <2>2. CASE Accept
    <3>1. BridgeType'
      BY <2>2 DEF Accept, BridgeType, ClientType, client, Clients
    <3> QED
      BY <2>2, <3>1 DEF Accept, ClientType, NetworkType, TmType, TcType, client, tm, tc
  <2>3. ASSUME NEW l \in Links, RelayTm(l) PROVE TypeOK'
    <3> DEFINE frame == RewriteTm(l, Head(queue[l]))
               down  == conn[accepted].down
               part  == Fitting(FrameBytes(frame, TmSize), down)
               entry == [f |-> frame, at |-> Len(downstream[accepted])]
    <3>1. serving /\ queue[l] # <<>> /\ popped = <<>> /\ ~popping
      BY <2>3 DEF RelayTm, Selecting
    <3>2. Head(queue[l]) \in TmFrame /\ Tail(queue[l]) \in Seq(TmFrame)
      BY <3>1 DEF BridgeType
    <3>3. frame \in TmFrame
      BY <3>2, RewriteFacts
    <3> HIDE DEF frame
    <3>4. /\ accepted \in Clients /\ down \in Seq(TmByte) /\ Len(down) <= Room
          /\ conn[accepted].up \in Seq(TcByte)
      BY <3>1, ServedConn
    <3>5. /\ part \in Seq(TmByte) /\ down \o part \in Seq(TmByte)
          /\ Len(down \o part) <= Room
      BY <3>3, <3>4, TmBytes, FittingFacts
    <3>6. /\ queue' = [queue EXCEPT ![l] = Tail(@)]
          /\ \/ /\ conn' = [conn EXCEPT ![accepted].down = down \o part]
                /\ UNCHANGED <<serving, popped>>
             \/ EndSession(down \o part, conn[accepted].up)
          /\ relayed' = [relayed EXCEPT ![accepted] = Append(@, entry)]
          /\ downstream' = [downstream EXCEPT ![accepted] = @ \o part]
          /\ UNCHANGED <<accepted, tcBuffer, popping, pops, client, used, emitted, forwarded, tc>>
      BY <2>3 DEF RelayTm, frame
    <3> HIDE DEF part, down
    <3>7. BridgeType' /\ NetworkType'
      <4>1. CASE EndSession(down \o part, conn[accepted].up)
        BY <3>1, <3>2, <3>4, <3>5, <3>6, <4>1, EndSessionType DEF BridgeType, NetworkType, client
      <4>2. CASE /\ conn' = [conn EXCEPT ![accepted].down = down \o part]
                 /\ UNCHANGED <<serving, popped>>
        BY <3>2, <3>4, <3>5, <3>6, <4>2 DEF BridgeType, NetworkType, client
      <4> QED BY <3>6, <4>1, <4>2
    <3>8. TmType'
      <4>1. entry \in [f : TmFrame, at : Nat] /\ downstream[accepted] \o part \in Seq(TmByte)
        BY <3>3, <3>4, <3>5 DEF TmType
      <4> DEFINE Entry == [f : TmFrame, at : Nat]
      <4>2. relayed \in [Clients -> Seq(Entry)] /\ relayed[accepted] \in Seq(Entry)
        BY <3>4 DEF TmType
      <4>3. Append(relayed[accepted], entry) \in Seq(Entry)
        BY <4>1, <4>2, AppendFacts
      <4>4. relayed' \in [Clients -> Seq(Entry)]
        BY <3>6, <4>2, <4>3
      <4> QED BY <3>6, <4>1, <4>4 DEF TmType
    <3> QED BY <3>6, <3>7, <3>8 DEF ClientType, TcType, client, tc
  <2>4. ASSUME NEW l \in Links, RelayTmFails(l) PROVE TypeOK'
    <3>1. /\ serving /\ ~popping /\ queue[l] # <<>>
          /\ EndSession(conn[accepted].down, conn[accepted].up)
      BY <2>4 DEF RelayTmFails, Selecting
    <3>2. Tail(queue[l]) \in Seq(TmFrame)
      BY <3>1 DEF BridgeType
    <3>3. used' \in [Kinds -> Nat]
      BY <2>4, SpendType DEF RelayTmFails, Kinds, NetworkType
    <3>5. NetworkType' /\ serving' = FALSE /\ popped' = <<>>
      BY <3>1, <3>3, ServedConn, EndSessionType DEF NetworkType
    <3>6. queue' \in [Links -> Seq(TmFrame)]
      BY <2>4, <3>2 DEF RelayTmFails, BridgeType
    <3>4. BridgeType'
      BY <2>4, <3>1, <3>6, SessionOver DEF RelayTmFails, client
    <3> QED BY <2>4, <3>4, <3>5 DEF RelayTmFails, ClientType, TmType, TcType, client, tm, tc
  <2>5. ASSUME NEW n \in Nat, ReceiveTc(n) PROVE TypeOK'
    <3> DEFINE up == conn[accepted].up
    <3>1. serving /\ n \in 1..Len(up)
      BY <2>5 DEF ReceiveTc, Selecting
    <3>2. accepted \in Clients /\ up \in Seq(TcByte)
      BY <3>1, ServedConn
    <3>3. First(up, n) \in Seq(TcByte) /\ Rest(up, n) \in Seq(TcByte)
      <4> n \in 0..Len(up)
        BY <3>1
      <4> QED BY <3>2, SplitTypes
    <3>4. tcBuffer' \in Seq(TcByte)
      BY <2>5, <3>3, ConcatFacts DEF ReceiveTc, BridgeType
    <3>5. BridgeType' /\ NetworkType'
      BY <2>5, <3>1, <3>2, <3>3, <3>4 DEF ReceiveTc, BridgeType, NetworkType, client
    <3> QED BY <2>5, <3>5 DEF ReceiveTc, ClientType, TmType, TcType, client, tm, tc
  <2>6. CASE PopFrame
    <3> DEFINE total == FrameLength(tcBuffer)
    <3>1. Header \in 1..Len(tcBuffer) /\ tcBuffer \in Seq(TcByte) /\ tcBuffer # <<>>
      BY <2>6, ConstantFacts DEF PopFrame, BridgeType
    <3>2. tcBuffer[Header].f \in TcFrames
      <4>1. tcBuffer[Header] \in TcByte
        BY <3>1, ElementOfSeq
      <4> QED BY <4>1 DEF TcByte
    <3>3. total \in Nat
      BY <3>2, ConstantFacts DEF FrameLength
    <3> HIDE DEF total
    <3>4. total \in 0..Len(tcBuffer)
      BY <2>6, <3>1, <3>3 DEF PopFrame, total
    <3>5. /\ First(tcBuffer, total) \in Seq(TcByte) /\ Rest(tcBuffer, total) \in Seq(TcByte)
          /\ Tail(tcBuffer) \in Seq(TcByte)
      BY <3>1, <3>4, FirstFacts, RestFacts
    <3>9. \/ tcBuffer' = Tail(tcBuffer) /\ UNCHANGED <<popped, pops>>
          \/ /\ tcBuffer' = Rest(tcBuffer, total)
             /\ popped' = Append(popped, [bytes |-> First(tcBuffer, total), no |-> pops + 1])
             /\ pops' = pops + 1
      BY <2>6 DEF PopFrame, total
    <3>10. pops \in Nat
      BY DEF BridgeType
    <3>6. tcBuffer' \in Seq(TcByte) /\ pops' \in Nat
      <4>1. tcBuffer' = Tail(tcBuffer) \/ tcBuffer' = Rest(tcBuffer, total)
        BY <3>9
      <4>2. pops' = pops \/ pops' = pops + 1
        BY <3>9
      <4>3. tcBuffer' \in Seq(TcByte)
        BY <3>5, <4>1
      <4>4. pops' \in Nat
        BY <3>10, <4>2
      <4> QED BY <4>3, <4>4
    <3>7. popped' \in Seq([bytes : Seq(TcByte), no : Nat])
      <4> DEFINE Popped == [bytes : Seq(TcByte), no : Nat]
                 frame == [bytes |-> First(tcBuffer, total), no |-> pops + 1]
      <4>1. frame \in Popped
        BY <3>5 DEF BridgeType
      <4>2. popped \in Seq(Popped) /\ (popped' = popped \/ popped' = Append(popped, frame))
        BY <3>9 DEF BridgeType
      <4> HIDE DEF Popped, frame
      <4>3. popped' \in Seq(Popped)
        BY <4>1, <4>2, AppendFacts
      <4> QED BY <4>3 DEF Popped
    <3>8. BridgeType'
      BY <2>6, <3>6, <3>7 DEF PopFrame, BridgeType, client
    <3> QED BY <2>6, <3>8 DEF PopFrame, ClientType, NetworkType, TmType, TcType, client, tm, tc
  <2>7. CASE PopEnds
    BY <2>7 DEF PopEnds, BridgeType, ClientType, NetworkType, TmType, TcType, client, tm, tc
  <2>8. CASE SendTc
    <3> DEFINE frame == Head(popped)
               datagram == [to |-> Receiver(frame), scid |-> Native,
                         bytes |-> frame.bytes, no |-> frame.no]
               Sent  == [to : Links, scid : {Native}, bytes : Seq(TcByte), no : Nat]
    <3>1. /\ popped \in Seq([bytes : Seq(TcByte), no : Nat]) /\ popped # <<>> /\ serving
          /\ popped' = Tail(popped)
      BY <2>8 DEF SendTc, BridgeType
    <3>2. frame \in [bytes : Seq(TcByte), no : Nat] /\ popped' \in Seq([bytes : Seq(TcByte), no : Nat])
      BY <3>1, TailFacts
    <3>3. Receiver(frame) # None => datagram \in Sent
      BY <3>2, LinkFacts DEF Receiver
    <3>4. accepted \in Clients /\ delivered[accepted] \in Seq(Sent)
      BY <3>1, ServedConn DEF TcType
    <3>5. Receiver(frame) # None => Append(delivered[accepted], datagram) \in Seq(Sent)
      BY <3>3, <3>4, AppendFacts
    <3>6. \/ delivered' = delivered
          \/ /\ Receiver(frame) # None
             /\ delivered' = [delivered EXCEPT ![accepted] = Append(@, datagram)]
      BY <2>8 DEF SendTc
    <3>7. delivered' \in [Clients -> Seq(Sent)]
      BY <3>5, <3>6 DEF TcType
    <3>8. BridgeType' /\ TcType'
      BY <2>8, <3>1, <3>2, <3>7 DEF SendTc, BridgeType, TcType, client
    <3> QED BY <2>8, <3>8 DEF SendTc, ClientType, NetworkType, TmType, client, tm
  <2>9. CASE SendTcFails
    <3>1. serving /\ ~popping /\ EndSession(conn[accepted].down, conn[accepted].up)
      BY <2>9 DEF SendTcFails, BridgeType
    <3>2. used' \in [Kinds -> Nat]
      BY <2>9, SpendType DEF SendTcFails, Kinds, NetworkType
    <3>4. NetworkType' /\ serving' = FALSE /\ popped' = <<>>
      BY <3>1, <3>2, ServedConn, EndSessionType DEF NetworkType
    <3>5. queue' \in [Links -> Seq(TmFrame)]
      BY <2>9 DEF SendTcFails, BridgeType
    <3>3. BridgeType'
      BY <2>9, <3>1, <3>5, SessionOver DEF SendTcFails, client
    <3> QED BY <2>9, <3>3, <3>4 DEF SendTcFails, ClientType, TmType, TcType, client, tm, tc
  <2>10. CASE ClientGone
    <3>1. serving /\ ~popping /\ EndSession(conn[accepted].down, <<>>)
      BY <2>10 DEF ClientGone, Selecting
    <3>3. used' = used
      BY <2>10 DEF ClientGone
    <3>4. NetworkType' /\ serving' = FALSE /\ popped' = <<>>
      BY <3>1, <3>3, ServedConn, EmptySeq, EndSessionType DEF NetworkType
    <3>5. queue' \in [Links -> Seq(TmFrame)]
      BY <2>10 DEF ClientGone, BridgeType
    <3>2. BridgeType'
      BY <2>10, <3>1, <3>5, SessionOver DEF ClientGone, client
    <3> QED BY <2>10, <3>2, <3>4 DEF ClientGone, ClientType, TmType, TcType, client, tm, tc
  <2>11. CASE StartClient
    <3>1. cur + 1 \in Clients /\ accepted \in 0..(cur + 1)
      BY <2>11 DEF StartClient, BridgeType, ClientType, Clients
    <3>2. BridgeType' /\ ClientType'
      BY <2>11, <3>1 DEF StartClient, BridgeType, ClientType, Clients, bridge
    <3>3. NetworkType'
      <4>1. Len(<<>>) = 0 /\ 0 <= Room
        BY ConstantFacts
      <4> QED BY <2>11, <3>1, <4>1 DEF StartClient, NetworkType
    <3> QED BY <2>11, <3>2, <3>3 DEF StartClient, TmType, TcType, tm, tc
  <2>12. ASSUME NEW n \in Nat, ReceiveTm(n) PROVE TypeOK'
    <3> DEFINE down == conn[cur].down
    <3>1. running /\ n \in 1..Len(down)
      BY <2>12 DEF ReceiveTm
    <3>2. cur \in Clients /\ down \in Seq(TmByte) /\ Len(down) <= Room
      BY <3>1, ClientConn
    <3>3. /\ First(down, n) \in Seq(TmByte) /\ Rest(down, n) \in Seq(TmByte)
          /\ Len(Rest(down, n)) <= Room
      <4> n \in 0..Len(down)
        BY <3>1
      <4>1. /\ First(down, n) \in Seq(TmByte) /\ Rest(down, n) \in Seq(TmByte)
            /\ Len(Rest(down, n)) <= Len(down)
        BY <3>2, SplitTypes
      <4>2. Len(Rest(down, n)) \in Nat /\ Len(down) \in Nat
        BY <3>2, <4>1
      <4> QED BY <3>2, <4>1, <4>2, ConstantFacts
    <3>4. buffered' \in Seq(TmByte)
      BY <2>12, <3>3, ConcatFacts DEF ReceiveTm, ClientType
    <3>5. ClientType' /\ NetworkType'
      BY <2>12, <3>2, <3>3, <3>4 DEF ReceiveTm, ClientType, NetworkType
    <3> QED BY <2>12, <3>5 DEF ReceiveTm, BridgeType, TmType, TcType, bridge, tm, tc
  <2>13. ASSUME Cut, Len(buffered) >= TmSize
         PROVE  /\ buffered' \in Seq(TmByte) /\ cuts' \in Nat
                /\ First(buffered, TmSize) \in Seq(TmByte)
    <3>1. TmSize \in 0..Len(buffered) /\ buffered \in Seq(TmByte)
      BY <2>13, ConstantFacts DEF ClientType
    <3>2. First(buffered, TmSize) \in Seq(TmByte) /\ Rest(buffered, TmSize) \in Seq(TmByte)
      BY <3>1, SplitTypes
    <3> QED BY <2>13, <3>2 DEF Cut, ClientType
  <2>14. CASE ForwardTm
    <3>1. ClientType'
      BY <2>13, <2>14 DEF ForwardTm, ClientType
    <3>2. TmType'
      BY <2>13, <2>14, AppendFacts DEF ForwardTm, TmType
    <3> QED BY <2>14, <3>1, <3>2 DEF ForwardTm, BridgeType, NetworkType, TcType, bridge, tc
  <2>15. CASE ForwardTmFails
    <3>1. ClientType'
      BY <2>13, <2>15 DEF ForwardTmFails, ClientType
    <3>2. NetworkType'
      BY <2>15, SpendType DEF ForwardTmFails, NetworkType, Kinds
    <3> QED BY <2>15, <3>1, <3>2 DEF ForwardTmFails, BridgeType, TmType, TcType, bridge, tm, tc
  <2>16. CASE TmEnds
    BY <2>16 DEF TmEnds, BridgeType, ClientType, NetworkType, TmType, TcType, bridge, tm, tc
  <2>17. ASSUME NEW f \in TcFrames, WriteTc(f) PROVE TypeOK'
    <3> DEFINE bytes == FrameBytes(f, TcSize[f])
    <3>1. cur \in Clients /\ conn[cur].up \in Seq(TcByte)
      BY <2>17, ClientConn DEF WriteTc
    <3>2. bytes \in Seq(TcByte)
      BY TcBytes
    <3> HIDE DEF bytes
    <3>3. conn[cur].up \o bytes \in Seq(TcByte) /\ upstream[cur] \o bytes \in Seq(TcByte)
      BY <3>1, <3>2, ConcatFacts DEF TcType
    <3> DEFINE Entry == [f : TcFrames, at : Nat]
               entry == [f |-> f, at |-> Len(upstream[cur])]
    <3>9. Len(upstream[cur]) \in Nat
      BY <3>1 DEF TcType
    <3>4. /\ written \in [Clients -> Seq(Entry)] /\ written[cur] \in Seq(Entry)
          /\ entry \in Entry
      BY <3>1, <3>9 DEF TcType
    <3>7. /\ used' \in [Kinds -> Nat]
          /\ conn' = [conn EXCEPT ![cur].up = conn[cur].up \o bytes]
          /\ written' = [written EXCEPT ![cur] = Append(@, entry)]
          /\ upstream' = [upstream EXCEPT ![cur] = @ \o bytes]
          /\ UNCHANGED <<bridge, client, tm, delivered>>
      BY <2>17, SpendType DEF WriteTc, NetworkType, Kinds, bytes
    <3> HIDE DEF Entry, entry
    <3>8. written' \in [Clients -> Seq(Entry)]
      BY <3>4, <3>7, AppendFacts
    <3>5. NetworkType'
      BY <3>1, <3>3, <3>7 DEF NetworkType
    <3>6. TcType'
      BY <3>3, <3>7, <3>8 DEF TcType, Entry
    <3> QED BY <2>17, <3>5, <3>6 DEF WriteTc, BridgeType, ClientType, TmType, bridge, client, tm
  <2>18. CASE WriteTcFails
    <3>1. NetworkType'
      BY <2>18, SpendType DEF WriteTcFails, NetworkType, Kinds
    <3> QED BY <2>18, <3>1 DEF WriteTcFails, BridgeType, ClientType, TmType, TcType, bridge, tm, tc
  <2>19. CASE LeaveMain
    <3>1. used' \in [Kinds -> Nat]
      BY <2>19, SpendType DEF LeaveMain, NetworkType, Kinds
    <3>2. NetworkType'
      <4>1. cur \in Clients
        BY <2>19, ClientConn DEF LeaveMain
      <4>2. conn' = [conn EXCEPT ![cur].clientOpen = FALSE, ![cur].down = <<>>]
        BY <2>19 DEF LeaveMain
      <4>3. <<>> \in Seq(TmByte) /\ Len(<<>>) = 0 /\ 0 <= Room
        BY ConstantFacts
      <4>4. conn' \in [Clients -> [down : Seq(TmByte), up : Seq(TcByte),
                                  clientOpen : BOOLEAN, bridgeOpen : BOOLEAN]]
        BY <4>1, <4>2, <4>3 DEF NetworkType
      <4>5. \A c \in Clients : conn'[c].down = conn[c].down \/ conn'[c].down = <<>>
        BY <4>1, <4>2 DEF NetworkType
      <4>6. \A c \in Clients : Len(conn'[c].down) <= Room
        BY <4>3, <4>5 DEF NetworkType
      <4> QED BY <3>1, <4>4, <4>6 DEF NetworkType
    <3> QED BY <2>19, <3>2 DEF LeaveMain, BridgeType, ClientType, TmType, TcType, bridge, tm, tc
  <2>20. CASE UNCHANGED vars
    BY <2>20 DEF vars, bridge, client, tm, tc, BridgeType, ClientType, NetworkType, TmType, TcType
  <2> QED BY <2>1, <2>2, <2>3, <2>4, <2>5, <2>6, <2>7, <2>8, <2>9, <2>10, <2>11, <2>12, <2>14,
             <2>15, <2>16, <2>17, <2>18, <2>19, <2>20
          DEF Next, BridgeStep, TmStep, TcStep
<1> QED BY <1>1, <1>2, PTL DEF Spec

-----------------------------------------------------------------------------
(***************************************************************************)
(* Telecommands.  A client writes whole frames one behind the other, so a  *)
(* frame begins where the one before it ends.  While a session lasts, what *)
(* the bridge has not cut yet, in its buffer or on its way, is the rest of *)
(* what was written from the next frame on.                                *)
(***************************************************************************)
TcEntry == [f : TcFrames, at : Nat]

\* Where in the bytes u the i-th of the frames w begins, and that u is these frames.
Start(w, u, i) == IF i <= Len(w) THEN w[i].at ELSE Len(u)

TcWholeAt(w, u, i) ==
  /\ Start(w, u, i + 1) = Start(w, u, i) + TcSize[w[i].f]
  /\ Start(w, u, i) + TcSize[w[i].f] <= Len(u)
  /\ \A k \in 1..TcSize[w[i].f] : u[Start(w, u, i) + k] = [f |-> w[i].f, k |-> k]

TcWhole(w, u) == Start(w, u, 1) = 0 /\ \A i \in 1..Len(w) : TcWholeAt(w, u, i)

\* The types of such frames.
LEMMA TcEntryFacts ==
  ASSUME NEW w \in Seq(TcEntry), NEW u \in Seq(TcByte)
  PROVE  /\ Len(w) \in Nat /\ Len(u) \in Nat
         /\ \A i \in 1..Len(w) : /\ w[i].f \in TcFrames /\ w[i].at \in Nat
                                 /\ TcSize[w[i].f] \in Nat /\ TcSize[w[i].f] > Header
         /\ \A i \in Nat \ {0} : Start(w, u, i) \in Nat
<1>1. Len(w) \in Nat /\ Len(u) \in Nat
  OBVIOUS
<1>2. ASSUME NEW i \in 1..Len(w)
      PROVE  w[i].f \in TcFrames /\ w[i].at \in Nat
  <2>1. w[i] \in TcEntry
    BY ElementOfSeq
  <2> QED BY <2>1 DEF TcEntry
<1>3. \A i \in Nat \ {0} : Start(w, u, i) \in Nat
  BY <1>1, <1>2 DEF Start
<1> QED BY <1>1, <1>2, <1>3, ConstantFacts

\* The next frame begins inside the bytes, or at their end.
LEMMA NextStart ==
  ASSUME NEW w \in Seq(TcEntry), NEW u \in Seq(TcByte), TcWhole(w, u), NEW n \in Nat \ {0}
  PROVE  /\ Start(w, u, n) \in 0..Len(u)
         /\ n > Len(w) => Start(w, u, n) = Len(u)
<1>1. Len(w) \in Nat /\ Len(u) \in Nat /\ Start(w, u, n) \in Nat
  BY TcEntryFacts
<1>2. CASE n > Len(w)
  BY <1>1, <1>2 DEF Start
<1>3. CASE ~(n > Len(w))
  <2>1. n \in 1..Len(w)
    BY <1>1, <1>3
  <2>2. Start(w, u, n) + TcSize[w[n].f] <= Len(u) /\ TcSize[w[n].f] \in Nat
    BY <2>1, TcEntryFacts DEF TcWhole, TcWholeAt
  <2> QED BY <1>1, <1>3, <2>2
<1> QED BY <1>2, <1>3

\* Writing a frame behind the others.
LEMMA WriteFrame ==
  ASSUME NEW w \in Seq(TcEntry), NEW u \in Seq(TcByte), TcWhole(w, u), NEW f \in TcFrames
  PROVE  LET v == Append(w, [f |-> f, at |-> Len(u)])
             x == u \o FrameBytes(f, TcSize[f])
         IN  /\ TcWhole(v, x)
             /\ \A i \in 1..(Len(w) + 1) : Start(v, x, i) = Start(w, u, i)
<1> DEFINE N == Len(w)
           L == Len(u)
           bytes == FrameBytes(f, TcSize[f])
           size == TcSize[f]
           entry == [f |-> f, at |-> L]
           v == Append(w, entry)
           x == u \o bytes
<1>1. /\ N \in Nat /\ L \in Nat
      /\ \A i \in 1..N : TcSize[w[i].f] \in Nat
      /\ \A i \in Nat \ {0} : Start(w, u, i) \in Nat
  BY TcEntryFacts
<1>2. /\ bytes \in Seq(TcByte) /\ Len(bytes) = size /\ size \in Nat
      /\ \A k \in 1..size : bytes[k] = [f |-> f, k |-> k]
  BY TcBytes
<1>3. entry \in TcEntry /\ entry.f = f /\ entry.at = L
  BY <1>1 DEF TcEntry
<1> HIDE DEF bytes, size, entry
<1>4. /\ Len(v) = N + 1 /\ v[N + 1] = entry
      /\ \A i \in 1..N : v[i] = w[i]
  BY <1>3, AppendFacts
<1>5. /\ Len(x) = L + size
      /\ \A i \in 1..L : x[i] = u[i]
      /\ \A i \in 1..size : x[L + i] = bytes[i]
  <2>1. /\ Len(x) = Len(u) + Len(bytes)
        /\ \A i \in 1..Len(u) : x[i] = u[i]
        /\ \A i \in 1..Len(bytes) : x[Len(u) + i] = bytes[i]
    <3> bytes \in Seq(TcByte)
      BY <1>2
    <3> QED BY ConcatFacts
  <2> QED BY <1>2, <2>1
<1> HIDE DEF v, x
<1>6. Start(w, u, N + 1) = L
  BY <1>1 DEF Start
<1>7. ASSUME NEW i \in 1..(N + 1) PROVE Start(v, x, i) = Start(w, u, i)
  <2>1. Start(v, x, i) = v[i].at
    BY <1>1, <1>4 DEF Start
  <2>2. CASE i \in 1..N
    BY <1>1, <1>4, <2>1, <2>2 DEF Start
  <2>3. CASE i = N + 1
    BY <1>3, <1>4, <1>6, <2>1, <2>3
  <2> QED BY <1>1, <2>2, <2>3
<1>8. Start(v, x, N + 2) = L + size
  BY <1>1, <1>4, <1>5 DEF Start
<1> HIDE DEF N, L
<1>9. ASSUME NEW i \in 1..N PROVE TcWholeAt(v, x, i)
  <2> DEFINE A == Start(w, u, i)
             len == TcSize[w[i].f]
  <2>1. /\ A \in Nat /\ len \in Nat /\ A + len <= L
        /\ Start(w, u, i + 1) = A + len
        /\ \A k \in 1..len : u[A + k] = [f |-> w[i].f, k |-> k]
    BY <1>1 DEF TcWhole, TcWholeAt, N, L
  <2>2. Start(v, x, i) = A /\ Start(v, x, i + 1) = Start(w, u, i + 1) /\ v[i] = w[i]
    BY <1>1, <1>4, <1>7
  <2> HIDE DEF A, len
  <2>3. A + len <= Len(x) /\ \A k \in 1..len : A + k \in 1..L
    BY <1>1, <1>2, <1>5, <2>1
  <2>4. \A k \in 1..len : x[A + k] = [f |-> w[i].f, k |-> k]
    BY <1>5, <2>1, <2>3
  <2> QED BY <2>1, <2>2, <2>3, <2>4 DEF TcWholeAt, len
<1>10. TcWholeAt(v, x, N + 1)
  <2>1. v[N + 1].f = f /\ Start(v, x, N + 1) = L /\ Start(v, x, (N + 1) + 1) = L + size
    BY <1>1, <1>3, <1>4, <1>6, <1>7, <1>8
  <2>2. \A k \in 1..size : x[L + k] = [f |-> f, k |-> k]
    BY <1>2, <1>5
  <2> QED BY <1>1, <1>2, <1>5, <2>1, <2>2 DEF TcWholeAt, size
<1>11. Start(v, x, 1) = 0
  <2>1. Start(w, u, 1) = 0 /\ 1 \in 1..(N + 1)
    BY <1>1 DEF TcWhole
  <2> QED BY <1>7, <2>1
<1>12. \A i \in 1..Len(v) : TcWholeAt(v, x, i)
  <2>1. \A i \in 1..Len(v) : i \in 1..N \/ i = N + 1
    BY <1>1, <1>4
  <2> QED BY <1>9, <1>10, <2>1
<1> QED BY <1>7, <1>11, <1>12 DEF TcWhole, v, x, entry, bytes, L, N

\* The buffer b begins with the n-th frame, with what is on its way behind it: its
\* length is read, and if it is whole it can be cut off.
IsNext(w, u, n, b, way) ==
  /\ n \in 1..Len(w)
  /\ FrameLength(b) = TcSize[w[n].f]
  /\ Len(b) >= TcSize[w[n].f] =>
       /\ First(b, TcSize[w[n].f]) = FrameBytes(w[n].f, TcSize[w[n].f])
       /\ Held(u, Start(w, u, n + 1), Rest(b, TcSize[w[n].f]), way)

\* Once its header has come, the bridge reads the length of the frame that was
\* written: the parser is never out of step.
LEMMA NextFrame ==
  ASSUME NEW w \in Seq(TcEntry), NEW u \in Seq(TcByte), TcWhole(w, u), NEW n \in Nat \ {0},
         NEW b \in Seq(TcByte), NEW way \in Seq(TcByte),
         Held(u, Start(w, u, n), b, way), Len(b) >= Header
  PROVE  IsNext(w, u, n, b, way)
<1> DEFINE A == Start(w, u, n)
           f == w[n].f
           len == TcSize[f]
<1>1. Len(w) \in Nat /\ Len(u) \in Nat /\ A \in 0..Len(u) /\ (n > Len(w) => A = Len(u))
  BY TcEntryFacts, NextStart
<1>2. Held(u, A, b, way)
  OBVIOUS
<1> HIDE DEF A
<1>3. Len(u) - A = Len(b) + Len(way) /\ \A k \in 1..Len(b) : b[k] = u[A + k]
  BY <1>2, HeldFacts
<1>4. Len(b) \in Nat /\ Len(way) \in Nat
  OBVIOUS
<1>6. n \in 1..Len(w) /\ Header \in 1..Len(b)
  BY <1>1, <1>3, <1>4, ConstantFacts
<1>7. f \in TcFrames /\ len \in Nat /\ len > Header
  BY <1>6, TcEntryFacts
<1>8. /\ Start(w, u, n + 1) = A + len
      /\ \A k \in 1..len : u[A + k] = [f |-> f, k |-> k]
  BY <1>6 DEF TcWhole, TcWholeAt, A
<1> HIDE DEF len, f
<1>9. ASSUME NEW k \in 1..Len(b), k <= len PROVE b[k] = [f |-> f, k |-> k]
  <2>1. k \in 1..len
    BY <1>4, <1>7, <1>9
  <2> QED BY <1>3, <1>8, <2>1
<1>10. FrameLength(b) = len
  <2>1. b[Header] = [f |-> f, k |-> Header]
    BY <1>6, <1>7, <1>9, ConstantFacts
  <2> QED BY <2>1 DEF FrameLength, len
<1>11. ASSUME Len(b) >= len
       PROVE  First(b, len) = FrameBytes(f, len) /\ Held(u, A + len, Rest(b, len), way)
  <2>1. len \in 0..Len(b)
    BY <1>4, <1>7, <1>11
  <2>2. Held(u, A + len, Rest(b, len), way)
    BY <1>2, <2>1, HeldCut
  <2> DEFINE x == First(b, len)
             y == FrameBytes(f, len)
  <2>3. x \in Seq(TcByte) /\ Len(x) = len /\ \A k \in 1..len : x[k] = b[k]
    BY <2>1, FirstFacts
  <2>4. /\ y \in Seq(TcByte) /\ Len(y) = len
        /\ \A k \in 1..len : y[k] = [f |-> f, k |-> k]
    BY <1>7, TcBytes DEF len
  <2> HIDE DEF x, y
  <2>5. \A k \in 1..len : k \in 1..Len(b) /\ k <= len
    BY <1>4, <2>1
  <2>6. \A k \in 1..len : x[k] = y[k]
    BY <1>9, <2>3, <2>4, <2>5
  <2>7. x = y
    BY <2>3, <2>4, <2>6, SeqEqual
  <2> QED BY <2>2, <2>7 DEF x, y
<1> QED BY <1>6, <1>8, <1>10, <1>11 DEF IsNext, len, f, A

\* When a parser that found nothing more has all the bytes, it has cut every frame.
LEMMA NothingLeft ==
  ASSUME NEW w \in Seq(TcEntry), NEW u \in Seq(TcByte), TcWhole(w, u), NEW p \in Nat, p <= Len(w),
         NEW b \in Seq(TcByte), Held(u, Start(w, u, p + 1), b, <<>>), Exhausted(b)
  PROVE  p = Len(w)
<1> DEFINE n == p + 1
           A == Start(w, u, n)
           way == <<>>
<1>1. n \in Nat \ {0} /\ Len(w) \in Nat /\ Len(u) \in Nat /\ A \in 0..Len(u) /\ Len(b) \in Nat
  BY TcEntryFacts, NextStart
<1>2. SUFFICES ASSUME n \in 1..Len(w) PROVE FALSE
  BY <1>1
<1>3. A + TcSize[w[n].f] <= Len(u) /\ TcSize[w[n].f] \in Nat /\ TcSize[w[n].f] > Header
  BY <1>2, TcEntryFacts DEF TcWhole, TcWholeAt
<1>4. Held(u, A, b, way) /\ way \in Seq(TcByte) /\ Len(way) = 0
  OBVIOUS
<1> HIDE DEF n, A, way
<1>5. Len(u) - A = Len(b)
  <2>1. Len(u) - A = Len(b) + Len(way)
    BY <1>4, HeldFacts
  <2> QED BY <1>1, <1>4, <2>1
<1>6. Len(b) >= TcSize[w[n].f] /\ Len(b) >= Header
  BY <1>1, <1>3, <1>5, ConstantFacts
<1>7. FrameLength(b) = TcSize[w[n].f]
  <2>1. n \in Nat \ {0} /\ Len(b) >= Header /\ Held(u, Start(w, u, n), b, way)
    BY <1>1, <1>4, <1>6 DEF A
  <2>2. IsNext(w, u, n, b, way)
    BY <1>4, <2>1, NextFrame
  <2> QED BY <2>2 DEF IsNext
<1> QED BY <1>1, <1>3, <1>6, <1>7 DEF Exhausted

WrittenWhole == \A c \in Clients : TcWhole(written[c], upstream[c])

Unserved == \A c \in Clients :
  /\ c > accepted => conn[c].up = upstream[c] /\ delivered[c] = <<>>
  /\ c > cur => written[c] = <<>> /\ upstream[c] = <<>>

TcAligned == serving =>
  /\ pops <= Len(written[accepted])
  /\ Held(upstream[accepted], Start(written[accepted], upstream[accepted], pops + 1),
          tcBuffer, conn[accepted].up)
  /\ ~popping => Exhausted(tcBuffer)

TcStream == WrittenWhole /\ Unserved /\ TcAligned

\* What the types say of the telecommands of a client, and of the session.
LEMMA TcTypes ==
  ASSUME TypeOK, NEW c \in Clients
  PROVE  /\ written[c] \in Seq(TcEntry) /\ Len(written[c]) \in Nat
         /\ upstream[c] \in Seq(TcByte) /\ Len(upstream[c]) \in Nat
         /\ conn[c].up \in Seq(TcByte)
         /\ tcBuffer \in Seq(TcByte) /\ pops \in Nat /\ cur \in Nat /\ accepted \in 0..cur
<1>1. /\ written[c] \in Seq(TcEntry) /\ upstream[c] \in Seq(TcByte)
      /\ conn[c].up \in Seq(TcByte)
  BY DEF TypeOK, TcType, NetworkType, TcEntry
<1>2. tcBuffer \in Seq(TcByte) /\ pops \in Nat /\ cur \in Nat /\ accepted \in 0..cur
  BY ConstantFacts DEF TypeOK, BridgeType, ClientType, Clients
<1> QED BY <1>1, <1>2

\* Steps that do not touch the telecommands of a session but perhaps end it.
LEMMA TcStreamKept ==
  ASSUME TypeOK, TcStream, UNCHANGED <<written, upstream, delivered, accepted, cur>>,
         \A c \in Clients : c # accepted => conn'[c].up = conn[c].up,
         serving' => /\ serving /\ conn'[accepted].up = conn[accepted].up
                     /\ UNCHANGED <<tcBuffer, popping, pops>>
  PROVE  TcStream'
<1>1. WrittenWhole'
  BY DEF TcStream, WrittenWhole
<1>2. Unserved'
  <2>1. \A c \in Clients : c > accepted => c # accepted
    BY ConstantFacts DEF Clients, TypeOK, BridgeType, ClientType
  <2> QED BY <2>1 DEF TcStream, Unserved
<1>3. TcAligned'
  BY DEF TcStream, TcAligned
<1> QED BY <1>1, <1>2, <1>3 DEF TcStream

\* What NextFrame says of the bridge.
LEMMA PopFacts ==
  ASSUME TypeOK, TcStream, PopFrame
  PROVE  LET w == written[accepted]
             u == upstream[accepted]
             f == w[pops + 1].f
         IN  /\ accepted \in Clients /\ serving
             /\ pops' = pops + 1 /\ pops + 1 \in 1..Len(w)
             /\ popped' = Append(popped, [bytes |-> FrameBytes(f, TcSize[f]), no |-> pops + 1])
             /\ Held(u, Start(w, u, pops + 2), tcBuffer', conn[accepted].up)
<1> DEFINE w == written[accepted]
           u == upstream[accepted]
           way == conn[accepted].up
           n == pops + 1
           len == TcSize[w[n].f]
<1>1. serving /\ Len(tcBuffer) >= Header /\ Len(tcBuffer) >= FrameLength(tcBuffer)
  BY DEF PopFrame, TypeOK, BridgeType
<1>2. accepted \in Clients
  BY <1>1, ServedConn
<1>3. /\ w \in Seq(TcEntry) /\ u \in Seq(TcByte) /\ way \in Seq(TcByte) /\ tcBuffer \in Seq(TcByte)
      /\ n \in Nat \ {0} /\ n + 1 = pops + 2
  BY <1>2, TcTypes
<1>4. TcWhole(w, u) /\ Held(u, Start(w, u, n), tcBuffer, way)
  BY <1>1, <1>2 DEF TcStream, WrittenWhole, TcAligned
<1> HIDE DEF w, u, way, n, len
<1>5. /\ n \in 1..Len(w) /\ FrameLength(tcBuffer) = len
      /\ Len(tcBuffer) >= len =>
           /\ First(tcBuffer, len) = FrameBytes(w[n].f, len)
           /\ Held(u, Start(w, u, n + 1), Rest(tcBuffer, len), way)
  <2>1. Len(tcBuffer) >= Header
    BY <1>1
  <2>2. IsNext(w, u, n, tcBuffer, way)
    BY <1>3, <1>4, <2>1, NextFrame
  <2> QED BY <2>2 DEF IsNext, len
<1>6. len # 0
  <2>1. len \in Nat /\ len > Header
    BY <1>3, <1>5, TcEntryFacts DEF len
  <2> QED BY <2>1, ConstantFacts
<1>7. /\ tcBuffer' = Rest(tcBuffer, len) /\ pops' = n
      /\ popped' = Append(popped, [bytes |-> First(tcBuffer, len), no |-> n])
  BY <1>5, <1>6 DEF PopFrame, n
<1> QED BY <1>1, <1>2, <1>3, <1>5, <1>7 DEF w, u, way, n, len

\* The two ends of a stream stay together, whatever the cuts: what the bridge has
\* not popped is what the client wrote from the next frame on.
LEMMA TcStreamHolds == Spec => []TcStream
<1>1. Init => TcStream
  <2> SUFFICES ASSUME Init PROVE TcStream
    OBVIOUS
  <2>1. \A c \in Clients : written[c] = <<>> /\ upstream[c] = <<>> /\ conn[c].up = <<>> /\ delivered[c] = <<>>
    BY DEF Init
  <2>2. WrittenWhole
    <3>1. Len(<<>>) = 0
      OBVIOUS
    <3> QED BY <2>1, <3>1 DEF WrittenWhole, TcWhole, Start
  <2>3. Unserved
    BY <2>1 DEF Unserved
  <2>4. TcAligned
    BY DEF Init, TcAligned
  <2> QED BY <2>2, <2>3, <2>4 DEF TcStream
<1>2. TypeOK /\ TcStream /\ [Next]_vars => TcStream'
  <2> SUFFICES ASSUME TypeOK, TcStream, [Next]_vars PROVE TcStream'
    OBVIOUS
  <2>1. ASSUME NEW l \in Links, SendTm(l) PROVE TcStream'
    BY <2>1, TcStreamKept DEF SendTm, client, tc
  <2>2. CASE Accept
    <3> DEFINE c == accepted + 1
               w == written[c]
               u == upstream[c]
               way == conn[c].up
    <3>1. /\ c \in Clients /\ c <= cur /\ ~popping /\ accepted \in Nat
      BY <2>2, ConstantFacts DEF Accept, TypeOK, BridgeType, ClientType, Clients
    <3>2. /\ accepted' = c /\ tcBuffer' = <<>> /\ pops' = 0 /\ serving'
          /\ UNCHANGED <<popping, conn, written, upstream, delivered, cur>>
      BY <2>2 DEF Accept, client, tc
    <3>3. WrittenWhole' /\ Unserved'
      BY <3>1, <3>2 DEF TcStream, WrittenWhole, Unserved, Clients
    <3>4. /\ u \in Seq(TcByte) /\ Len(w) \in Nat /\ way = u /\ Start(w, u, 1) = 0
      BY <3>1, TcTypes DEF TcStream, Unserved, WrittenWhole, TcWhole
    <3> HIDE DEF w, u, way
    <3>5. Held(u, Start(w, u, 0 + 1), <<>>, way)
      BY <3>4, HeldAtStart
    <3>6. Exhausted(<<>>)
      BY ConstantFacts DEF Exhausted
    <3>7. TcAligned'
      BY <3>2, <3>4, <3>5, <3>6 DEF TcAligned, w, u, way
    <3> QED BY <3>3, <3>7 DEF TcStream
  <2>3. ASSUME NEW l \in Links, RelayTm(l) PROVE TcStream'
    <3>1. serving /\ accepted \in Clients
      BY <2>3, ServedConn DEF RelayTm, Selecting
    <3>2. /\ \A c \in Clients : c # accepted => conn'[c].up = conn[c].up
          /\ serving' => conn'[accepted].up = conn[accepted].up
      BY <2>3, <3>1 DEF RelayTm, EndSession, TypeOK, NetworkType
    <3> QED BY <2>3, <3>1, <3>2, TcStreamKept DEF RelayTm, client, tc
  <2>4. ASSUME serving, NEW down, NEW up, EndSession(down, up),
               UNCHANGED <<written, upstream, delivered, accepted, cur>>
        PROVE  TcStream'
    <3>1. /\ \A c \in Clients : c # accepted => conn'[c].up = conn[c].up
          /\ serving' = FALSE
      BY <2>4, ServedConn DEF EndSession, TypeOK, NetworkType
    <3> QED BY <2>4, <3>1, TcStreamKept
  <2>5. ASSUME NEW l \in Links, RelayTmFails(l) PROVE TcStream'
    BY <2>4, <2>5 DEF RelayTmFails, Selecting, client, tc
  <2>6. CASE SendTcFails
    BY <2>4, <2>6 DEF SendTcFails, TypeOK, BridgeType, client, tc
  <2>7. CASE ClientGone
    BY <2>4, <2>7 DEF ClientGone, Selecting, client, tc
  <2>8. ASSUME NEW n \in Nat, ReceiveTc(n) PROVE TcStream'
    <3> DEFINE c == accepted
               u == upstream[c]
               start == Start(written[c], u, pops + 1)
               way == conn[c].up
    <3>1. serving /\ n \in 1..Len(way) /\ c \in Clients
      BY <2>8, ServedConn DEF ReceiveTc, Selecting
    <3>2. way \in Seq(TcByte) /\ tcBuffer \in Seq(TcByte) /\ u \in Seq(TcByte)
      BY <3>1, TcTypes
    <3>3. /\ tcBuffer' = tcBuffer \o First(way, n) /\ popping' = TRUE
          /\ conn' = [conn EXCEPT ![c].up = Rest(way, n)]
          /\ UNCHANGED <<accepted, cur, pops, serving, written, upstream, delivered>>
      BY <2>8 DEF ReceiveTc, client, tc
    <3>4. /\ conn'[c].up = Rest(way, n)
          /\ \A d \in Clients : d # c => conn'[d].up = conn[d].up
      BY <3>1, <3>3 DEF TypeOK, NetworkType
    <3>5. Held(u, start, tcBuffer, way) /\ n \in 0..Len(way)
      BY <3>1, <3>2 DEF TcStream, TcAligned
    <3> HIDE DEF u, start, way
    <3>6. Held(u, start, tcBuffer \o First(way, n), Rest(way, n))
      BY <3>2, <3>5, HeldMove
    <3>7. WrittenWhole'
      BY <3>3 DEF TcStream, WrittenWhole
    <3>8. Unserved'
      <4>1. \A d \in Clients : d > c => d # c
        BY <3>1 DEF Clients
      <4> QED BY <3>3, <3>4, <4>1 DEF TcStream, Unserved
    <3>9. TcAligned'
      BY <3>1, <3>3, <3>4, <3>6 DEF TcStream, TcAligned, u, start
    <3> QED BY <3>7, <3>8, <3>9 DEF TcStream
  <2>9. CASE PopFrame
    <3> DEFINE w == written[accepted]
               u == upstream[accepted]
    <3>1. /\ accepted \in Clients /\ serving /\ pops' = pops + 1 /\ pops + 1 \in 1..Len(w)
          /\ Held(u, Start(w, u, pops + 2), tcBuffer', conn[accepted].up)
      BY <2>9, PopFacts
    <3>2. /\ popping /\ pops \in Nat /\ pops' + 1 = pops + 2
          /\ UNCHANGED <<accepted, serving, popping, conn, cur, written, upstream, delivered>>
      BY <2>9, <3>1, TcTypes DEF PopFrame, client, tc
    <3>3. WrittenWhole' /\ Unserved'
      BY <3>2 DEF TcStream, WrittenWhole, Unserved
    <3>4. TcAligned'
      BY <3>1, <3>2 DEF TcAligned
    <3> QED BY <3>3, <3>4 DEF TcStream
  <2>10. CASE PopEnds
    <3>1. /\ serving /\ Exhausted(tcBuffer)
          /\ UNCHANGED <<accepted, serving, tcBuffer, pops, conn, cur, written, upstream, delivered>>
      BY <2>10 DEF PopEnds, TypeOK, BridgeType, client, tc
    <3>2. WrittenWhole' /\ Unserved'
      BY <3>1 DEF TcStream, WrittenWhole, Unserved
    <3>3. TcAligned'
      BY <3>1 DEF TcStream, TcAligned
    <3> QED BY <3>2, <3>3 DEF TcStream
  <2>11. CASE SendTc
    <3>1. /\ serving /\ accepted \in Clients
          /\ UNCHANGED <<accepted, serving, popping, tcBuffer, pops, conn, cur, written, upstream>>
          /\ \A c \in Clients : c # accepted => delivered'[c] = delivered[c]
      <4>1. serving /\ accepted \in Clients
        BY <2>11, ServedConn DEF SendTc, TypeOK, BridgeType
      <4> QED BY <2>11, <4>1 DEF SendTc, TypeOK, TcType, client
    <3>2. WrittenWhole'
      BY <3>1 DEF TcStream, WrittenWhole
    <3>3. Unserved'
      <4>1. \A d \in Clients : d > accepted => d # accepted
        BY <3>1 DEF Clients
      <4> QED BY <3>1, <4>1 DEF TcStream, Unserved
    <3>4. TcAligned'
      BY <3>1 DEF TcStream, TcAligned
    <3> QED BY <3>2, <3>3, <3>4 DEF TcStream
  <2>12. CASE StartClient
    <3> DEFINE c == cur + 1
    <3>1. /\ c \in Clients /\ cur \in Nat /\ accepted \in 0..cur
          /\ cur' = c /\ UNCHANGED <<bridge, written, upstream, delivered>>
      BY <2>12, ConstantFacts DEF StartClient, TypeOK, BridgeType, ClientType, Clients, tc
    <3>2. conn'[c].up = <<>> /\ \A d \in Clients : d # c => conn'[d] = conn[d]
      BY <2>12, <3>1 DEF StartClient, TypeOK, NetworkType
    <3>3. WrittenWhole'
      BY <3>1 DEF TcStream, WrittenWhole
    <3>4. upstream[c] = <<>>
      BY <3>1 DEF TcStream, Unserved
    <3>5. Unserved'
      <4>1. \A d \in Clients : d > c => d > cur
        BY <3>1 DEF Clients
      <4> QED BY <3>1, <3>2, <3>4, <4>1 DEF TcStream, Unserved, bridge
    <3>6. TcAligned'
      <4>1. serving => accepted \in Clients /\ accepted # c
        BY <3>1, ServedConn
      <4>2. serving => conn'[accepted] = conn[accepted]
        BY <3>2, <4>1
      <4> QED BY <3>1, <4>2 DEF TcStream, TcAligned, bridge
    <3> QED BY <3>3, <3>5, <3>6 DEF TcStream
  <2>13. ASSUME running, UNCHANGED <<written, upstream, delivered, accepted, cur, serving,
                                     tcBuffer, popping, pops>>,
                \A c \in Clients : conn'[c].up = conn[c].up
         PROVE  TcStream'
    <3>1. serving => accepted \in Clients
      BY ServedConn
    <3> QED BY <2>13, <3>1, TcStreamKept
  <2>14. ASSUME NEW n \in Nat, ReceiveTm(n) PROVE TcStream'
    <3>1. \A c \in Clients : conn'[c].up = conn[c].up
      BY <2>14, ClientConn DEF ReceiveTm, TypeOK, NetworkType
    <3> QED BY <2>13, <2>14, <3>1 DEF ReceiveTm, bridge, tc
  <2>15. CASE ForwardTm
    BY <2>13, <2>15 DEF ForwardTm, bridge, tc
  <2>16. CASE ForwardTmFails
    BY <2>13, <2>16 DEF ForwardTmFails, bridge, tc
  <2>17. CASE TmEnds
    BY <2>13, <2>17 DEF TmEnds, bridge, tc
  <2>18. CASE WriteTcFails
    BY <2>13, <2>18 DEF WriteTcFails, bridge, tc
  <2>19. CASE LeaveMain
    <3>1. \A c \in Clients : conn'[c].up = conn[c].up
      BY <2>19, ClientConn DEF LeaveMain, TypeOK, NetworkType
    <3> QED BY <2>13, <2>19, <3>1 DEF LeaveMain, bridge, tc
  <2>20. ASSUME NEW f \in TcFrames, WriteTc(f) PROVE TcStream'
    <3> DEFINE w == written[cur]
               u == upstream[cur]
               way == conn[cur].up
               bytes == FrameBytes(f, TcSize[f])
               entry == [f |-> f, at |-> Len(u)]
    <3>1. cur \in Clients
      BY <2>20, ClientConn DEF WriteTc
    <3>2. /\ w \in Seq(TcEntry) /\ u \in Seq(TcByte) /\ way \in Seq(TcByte) /\ bytes \in Seq(TcByte)
          /\ tcBuffer \in Seq(TcByte) /\ pops \in Nat /\ entry \in TcEntry /\ Len(w) \in Nat
      BY <3>1, TcTypes, TcBytes DEF TcEntry
    <3>3. /\ conn' = [conn EXCEPT ![cur].up = way \o bytes]
          /\ written' = [written EXCEPT ![cur] = Append(w, entry)]
          /\ upstream' = [upstream EXCEPT ![cur] = u \o bytes]
          /\ UNCHANGED <<bridge, client, delivered>>
      BY <2>20 DEF WriteTc
    <3>4. TcWhole(w, u)
      BY <3>1 DEF TcStream, WrittenWhole
    <3>5. /\ TcWhole(Append(w, entry), u \o bytes)
          /\ \A i \in 1..(Len(w) + 1) :
               Start(Append(w, entry), u \o bytes, i) = Start(w, u, i)
      BY <3>2, <3>4, WriteFrame
    <3> HIDE DEF way, bytes, entry
    <3>6. /\ written'[cur] = Append(w, entry) /\ upstream'[cur] = u \o bytes
          /\ conn'[cur].up = way \o bytes
          /\ \A d \in Clients : d # cur => /\ written'[d] = written[d]
                                           /\ upstream'[d] = upstream[d]
                                           /\ conn'[d] = conn[d]
          /\ UNCHANGED <<accepted, serving, tcBuffer, popping, pops, cur, delivered>>
      BY <3>1, <3>3 DEF bridge, client, TypeOK, NetworkType, TcType
    <3> HIDE DEF w, u
    <3>7. WrittenWhole'
      <4>1. \A d \in Clients : d # cur => TcWhole(written'[d], upstream'[d])
        BY <3>6 DEF TcStream, WrittenWhole
      <4>2. TcWhole(written'[cur], upstream'[cur])
        BY <3>5, <3>6
      <4> QED BY <4>1, <4>2 DEF WrittenWhole
    <3>8. Unserved'
      <4>1. \A d \in Clients : d > cur => d # cur
        BY <3>1 DEF Clients
      <4> QED BY <3>1, <3>6, <4>1 DEF TcStream, Unserved, u, way
    <3>9. TcAligned'
      <4>1. SUFFICES ASSUME serving PROVE TcAligned'
        BY <3>6 DEF TcAligned
      <4>2. accepted \in Clients
        BY <4>1, ServedConn
      <4>3. CASE accepted # cur
        BY <3>6, <4>1, <4>2, <4>3 DEF TcStream, TcAligned
      <4>4. CASE accepted = cur
        <5> DEFINE start == Start(w, u, pops + 1)
        <5>1. /\ pops <= Len(w) /\ Held(u, start, tcBuffer, way)
              /\ ~popping => Exhausted(tcBuffer)
          BY <4>1, <4>4 DEF TcStream, TcAligned, w, u, way
        <5>2. Start(Append(w, entry), u \o bytes, pops + 1) = start
          BY <3>2, <3>5, <5>1
        <5> HIDE DEF start
        <5>3. Held(u \o bytes, start, tcBuffer, way \o bytes)
          BY <3>2, <5>1, HeldAdd
        <5>4. pops <= Len(Append(w, entry))
          BY <3>2, <5>1
        <5> QED BY <3>6, <4>1, <4>4, <5>1, <5>2, <5>3, <5>4 DEF TcAligned
      <4> QED BY <4>3, <4>4
    <3> QED BY <3>7, <3>8, <3>9 DEF TcStream
  <2>21. CASE UNCHANGED vars
    BY <2>21, TcStreamKept DEF vars, bridge, client, tc
  <2> QED BY <2>1, <2>2, <2>3, <2>5, <2>6, <2>7, <2>8, <2>9, <2>10, <2>11, <2>12, <2>14, <2>15,
             <2>16, <2>17, <2>18, <2>19, <2>20, <2>21
          DEF Next, BridgeStep, TmStep, TcStep, TypeOK, BridgeType
<1> QED BY <1>1, <1>2, TypeCorrect, PTL DEF Spec

-----------------------------------------------------------------------------
\* Is this, a frame popped or a datagram, one of the frames w and whole?
IsWritten(w, d) ==
  /\ d.no \in 1..Len(w)
  /\ d.bytes = FrameBytes(w[d.no].f, TcSize[w[d.no].f])

\* The frames q that wait to be sent are the last of the p that were popped ...
PoppedFrom(w, p, q) ==
  /\ Len(q) <= p
  /\ \A i \in 1..Len(q) : q[i].no = p - Len(q) + i /\ IsWritten(w, q[i])

\* ... the datagrams d are frames in order, each at the process it names ...
DeliveredFrom(w, d) ==
  /\ \A i \in 1..Len(d) : /\ IsWritten(w, d[i])
                          /\ Wire[d[i].to] = TcScid[w[d[i].no].f] /\ d[i].scid = Native
  /\ \A i, j \in 1..Len(d) : i < j => d[i].no < d[j].no

\* ... and of the first frames none is missing that the bridge can route.
NoneMissing(w, done, d) ==
  /\ \A i \in 1..Len(d) : d[i].no <= done
  /\ \A n \in 1..done : Known(w[n].f) => \E i \in 1..Len(d) : d[i].no = n

TcOrder ==
  /\ \A c \in Clients : DeliveredFrom(written[c], delivered[c])
  /\ serving => /\ PoppedFrom(written[accepted], pops, popped)
                /\ NoneMissing(written[accepted], pops - Len(popped), delivered[accepted])

PoppedFrame == [bytes : Seq(TcByte), no : Nat]
TcDatagram == [to : Links, scid : {Native}, bytes : Seq(TcByte), no : Nat]

\* A session begins with nothing popped.
LEMMA NonePopped ==
  ASSUME NEW w
  PROVE  /\ PoppedFrom(w, 0, <<>>) /\ NoneMissing(w, 0 - Len(<<>>), <<>>)
         /\ DeliveredFrom(w, <<>>)
<1>1. Len(<<>>) = 0 /\ 0 - 0 = 0 /\ \A i \in 1..0 : FALSE
  <2>1. Len(<<>>) = 0
    OBVIOUS
  <2> QED BY <2>1
<1> QED BY <1>1 DEF PoppedFrom, NoneMissing, DeliveredFrom

\* One more frame is popped.
LEMMA PopOne ==
  ASSUME NEW w \in Seq(TcEntry), NEW p \in Nat, NEW q \in Seq(PoppedFrame), PoppedFrom(w, p, q),
         NEW x \in PoppedFrame, x.no = p + 1, IsWritten(w, x)
  PROVE  PoppedFrom(w, p + 1, Append(q, x)) /\ (p + 1) - Len(Append(q, x)) = p - Len(q)
<1> DEFINE r == Append(q, x)
           L == Len(q)
<1>1. /\ L \in Nat /\ Len(r) = L + 1 /\ r[L + 1] = x
      /\ \A i \in 1..L : r[i] = q[i]
  BY AppendFacts
<1>2. L <= p /\ \A i \in 1..L : q[i].no = p - L + i /\ IsWritten(w, q[i])
  BY DEF PoppedFrom
<1> HIDE DEF r, L
<1>3. ASSUME NEW i \in 1..(L + 1) PROVE r[i].no = p - L + i /\ IsWritten(w, r[i])
  <2>1. CASE i \in 1..L
    BY <1>1, <1>2, <2>1
  <2>2. CASE i = L + 1
    BY <1>1, <1>2, <2>2
  <2> QED BY <1>1, <2>1, <2>2
<1>4. (p + 1) - Len(r) = p - L /\ Len(r) <= p + 1
  BY <1>1, <1>2
<1> QED BY <1>1, <1>3, <1>4 DEF PoppedFrom, r, L

\* The first frame that waits leaves the queue.
LEMMA SendOne ==
  ASSUME NEW w, NEW p \in Nat, NEW q \in Seq(PoppedFrame), PoppedFrom(w, p, q), q # <<>>
  PROVE  /\ PoppedFrom(w, p, Tail(q))
         /\ p - Len(q) \in Nat /\ p - Len(Tail(q)) = (p - Len(q)) + 1
         /\ Head(q) \in PoppedFrame /\ Head(q).no = (p - Len(q)) + 1 /\ IsWritten(w, Head(q))
<1> DEFINE r == Tail(q)
           L == Len(q)
<1>1. /\ L \in Nat \ {0} /\ Len(r) = L - 1 /\ Head(q) = q[1] /\ Head(q) \in PoppedFrame
      /\ \A i \in 1..(L - 1) : r[i] = q[i + 1]
  BY TailFacts
<1>2. L <= p /\ \A i \in 1..L : q[i].no = p - L + i /\ IsWritten(w, q[i])
  BY DEF PoppedFrom
<1> HIDE DEF r, L
<1>3. ASSUME NEW i \in 1..(L - 1) PROVE r[i].no = p - (L - 1) + i /\ IsWritten(w, r[i])
  <2>1. i + 1 \in 1..L /\ p - L + (i + 1) = p - (L - 1) + i
    BY <1>1
  <2> QED BY <1>1, <1>2, <2>1
<1>4. PoppedFrom(w, p, r)
  BY <1>1, <1>2, <1>3 DEF PoppedFrom
<1>5. p - L \in Nat /\ p - Len(r) = (p - L) + 1 /\ 1 \in 1..L
  BY <1>1, <1>2
<1> QED BY <1>1, <1>2, <1>4, <1>5 DEF r, L

\* A frame is sent to the process it names ...
LEMMA DeliverOne ==
  ASSUME NEW w, NEW d \in Seq(TcDatagram), NEW done \in Nat,
         DeliveredFrom(w, d), NoneMissing(w, done, d),
         NEW e \in TcDatagram, e.no = done + 1, IsWritten(w, e), Wire[e.to] = TcScid[w[e.no].f]
  PROVE  DeliveredFrom(w, Append(d, e)) /\ NoneMissing(w, done + 1, Append(d, e))
<1> DEFINE r == Append(d, e)
           L == Len(d)
<1>1. /\ L \in Nat /\ Len(r) = L + 1 /\ r[L + 1] = e
      /\ \A i \in 1..L : r[i] = d[i]
  BY AppendFacts
<1>2. \A i \in 1..L : d[i].no \in Nat /\ d[i].no <= done
  <2>1. \A i \in 1..L : d[i] \in TcDatagram
    BY ElementOfSeq
  <2> QED BY <2>1 DEF NoneMissing, TcDatagram
<1> HIDE DEF r
<1>3. \A i \in 1..(L + 1) : i \in 1..L \/ i = L + 1
  BY <1>1
<1>4. \A i \in 1..(L + 1) : /\ IsWritten(w, r[i])
                            /\ Wire[r[i].to] = TcScid[w[r[i].no].f] /\ r[i].scid = Native
  <2>1. e.scid = Native
    BY DEF TcDatagram
  <2>2. ASSUME NEW i \in 1..L
        PROVE  IsWritten(w, r[i]) /\ Wire[r[i].to] = TcScid[w[r[i].no].f] /\ r[i].scid = Native
    BY <1>1 DEF DeliveredFrom
  <2> QED BY <1>1, <1>3, <2>1, <2>2
<1>5. ASSUME NEW i \in 1..(L + 1), NEW j \in 1..(L + 1), i < j PROVE r[i].no < r[j].no
  <2>1. i \in 1..L
    BY <1>1, <1>5
  <2>2. CASE j \in 1..L
    BY <1>1, <1>5, <2>1, <2>2 DEF DeliveredFrom
  <2>3. CASE j = L + 1
    BY <1>1, <1>2, <2>1, <2>3
  <2> QED BY <1>3, <2>2, <2>3
<1>6. DeliveredFrom(w, r)
  BY <1>1, <1>4, <1>5 DEF DeliveredFrom
<1>7. \A i \in 1..(L + 1) : r[i].no <= done + 1
  BY <1>1, <1>2, <1>3
<1>8. ASSUME NEW n \in 1..(done + 1), Known(w[n].f) PROVE \E i \in 1..(L + 1) : r[i].no = n
  <2>1. CASE n = done + 1
    BY <1>1, <2>1
  <2>2. CASE n \in 1..done
    <3>1. PICK i \in 1..L : d[i].no = n
      BY <1>8, <2>2 DEF NoneMissing
    <3>2. i \in 1..(L + 1) /\ r[i].no = n
      BY <1>1, <3>1
    <3> QED BY <3>2
  <2> QED BY <2>1, <2>2
<1>9. NoneMissing(w, done + 1, r)
  BY <1>1, <1>7, <1>8 DEF NoneMissing
<1> QED BY <1>6, <1>9 DEF r

\* ... or names none.
LEMMA DropOne ==
  ASSUME NEW w, NEW d \in Seq(TcDatagram), NEW done \in Nat, NoneMissing(w, done, d),
         ~Known(w[done + 1].f)
  PROVE  NoneMissing(w, done + 1, d)
<1>1. \A i \in 1..Len(d) : d[i].no \in Nat /\ d[i].no <= done
  <2>1. \A i \in 1..Len(d) : d[i] \in TcDatagram
    BY ElementOfSeq
  <2> QED BY <2>1 DEF NoneMissing, TcDatagram
<1>2. \A n \in 1..(done + 1) : n \in 1..done \/ n = done + 1
  OBVIOUS
<1> QED BY <1>1, <1>2 DEF NoneMissing

\* What was written stays when more is written.
LEMMA WriteKeeps ==
  ASSUME NEW w \in Seq(TcEntry), NEW entry \in TcEntry
  PROVE  LET v == Append(w, entry)
         IN  /\ \A d : IsWritten(w, d) => IsWritten(v, d)
             /\ \A p, q : PoppedFrom(w, p, q) => PoppedFrom(v, p, q)
             /\ \A d : DeliveredFrom(w, d) => DeliveredFrom(v, d)
             /\ \A d : \A done \in 0..Len(w) : NoneMissing(w, done, d) => NoneMissing(v, done, d)
<1> DEFINE v == Append(w, entry)
           L == Len(w)
<1>1. L \in Nat /\ Len(v) = L + 1 /\ \A i \in 1..L : v[i] = w[i] /\ i \in 1..Len(v)
  <2>1. L \in Nat /\ Len(v) = L + 1 /\ \A i \in 1..L : v[i] = w[i]
    BY AppendFacts
  <2> QED BY <2>1
<1> HIDE DEF v
<1>2. \A d : IsWritten(w, d) => IsWritten(v, d) /\ v[d.no] = w[d.no]
  BY <1>1 DEF IsWritten
<1>3. \A p, q : PoppedFrom(w, p, q) => PoppedFrom(v, p, q)
  BY <1>2 DEF PoppedFrom
<1>4. \A d : DeliveredFrom(w, d) => DeliveredFrom(v, d)
  BY <1>2 DEF DeliveredFrom
<1>5. \A d : \A done \in 0..L : NoneMissing(w, done, d) => NoneMissing(v, done, d)
  <2>1. \A done \in 0..L : \A n \in 1..done : n \in 1..L
    BY <1>1
  <2> QED BY <1>1, <2>1 DEF NoneMissing
<1> QED BY <1>2, <1>3, <1>4, <1>5 DEF v

\* The bridge routes a frame exactly if it knows the spacecraft.
LEMMA ReceiverFacts ==
  ASSUME NEW w \in Seq(TcEntry), NEW d, IsWritten(w, d)
  PROVE  /\ Receiver(d) # None => /\ Receiver(d) \in Links
                                  /\ Wire[Receiver(d)] = TcScid[w[d.no].f]
         /\ Receiver(d) = None => ~Known(w[d.no].f)
<1> DEFINE f == w[d.no].f
<1>1. f \in TcFrames
  <2>1. w[d.no] \in TcEntry
    BY ElementOfSeq DEF IsWritten
  <2> QED BY <2>1 DEF TcEntry
<1>2. 1 \in 1..TcSize[f]
  BY <1>1, ConstantFacts
<1>3. d.bytes[1].f = f
  <2>1. d.bytes = FrameBytes(f, TcSize[f])
    BY DEF IsWritten
  <2>2. FrameBytes(f, TcSize[f])[1] = [f |-> f, k |-> 1]
    BY <1>1, <1>2, TcBytes
  <2> QED BY <2>1, <2>2
<1> HIDE DEF f
<1>4. Receiver(d) = LinkFor(TcScid[f])
  BY <1>3 DEF Receiver
<1>5. None \notin Links
  BY TcpLinkAssumption DEF TcpLinkAssumption
<1>6. LinkFor(TcScid[f]) = None => ~Known(f)
  BY <1>5 DEF LinkFor, Known
<1> QED BY <1>4, <1>6, LinkFacts DEF f

\* The types of what the bridge pops and sends.
LEMMA SessionTypes ==
  ASSUME TypeOK
  PROVE  /\ popped \in Seq(PoppedFrame) /\ Len(popped) \in Nat
         /\ \A c \in Clients : delivered[c] \in Seq(TcDatagram)
         /\ ~serving => popped = <<>> /\ ~popping
<1>1. popped \in Seq(PoppedFrame) /\ (~serving => popped = <<>> /\ ~popping)
  BY DEF TypeOK, BridgeType, PoppedFrame
<1>2. \A c \in Clients : delivered[c] \in Seq(TcDatagram)
  BY DEF TypeOK, TcType, TcDatagram
<1> QED BY <1>1, <1>2

\* Steps that pop nothing, send nothing and write nothing but perhaps end a session.
LEMMA TcOrderKept ==
  ASSUME TypeOK, TcOrder, UNCHANGED <<written, delivered, accepted>>,
         serving' => serving /\ UNCHANGED <<pops, popped>>
  PROVE  TcOrder'
BY DEF TcOrder

\* What was written arrives whole and in order.
LEMMA TcOrderHolds == Spec => []TcOrder
<1>1. Init => TcOrder
  <2> SUFFICES ASSUME Init PROVE TcOrder
    OBVIOUS
  <2>1. ~serving /\ \A c \in Clients : delivered[c] = <<>>
    BY DEF Init
  <2> QED BY <2>1, NonePopped DEF TcOrder
<1>2. TypeOK /\ TcStream /\ TcOrder /\ [Next]_vars => TcOrder'
  <2> SUFFICES ASSUME TypeOK, TcStream, TcOrder, [Next]_vars PROVE TcOrder'
    OBVIOUS
  <2>1. ASSUME UNCHANGED <<written, delivered, accepted>>,
               serving' => serving /\ UNCHANGED <<pops, popped>>
        PROVE  TcOrder'
    BY <2>1, TcOrderKept
  <2>2. ASSUME NEW l \in Links, SendTm(l) \/ RelayTm(l) \/ RelayTmFails(l) PROVE TcOrder'
    <3>1. CASE SendTm(l)
      BY <2>1, <3>1 DEF SendTm, tc
    <3>2. CASE RelayTm(l)
      BY <2>1, <3>2 DEF RelayTm, EndSession, Selecting, tc
    <3>3. CASE RelayTmFails(l)
      BY <2>1, <3>3 DEF RelayTmFails, EndSession, tc
    <3> QED BY <2>2, <3>1, <3>2, <3>3
  <2>3. CASE Accept
    <3> DEFINE c == accepted + 1
    <3>1. /\ c \in Clients /\ ~serving /\ c > accepted
      BY <2>3, ConstantFacts DEF Accept, TypeOK, BridgeType, ClientType, Clients
    <3>2. popped = <<>> /\ delivered[c] = <<>>
      BY <3>1, SessionTypes DEF TcStream, Unserved
    <3>3. /\ accepted' = c /\ pops' = 0 /\ popped' = <<>>
          /\ UNCHANGED <<written, delivered>>
      BY <2>3, <3>2 DEF Accept, tc
    <3> HIDE DEF c
    <3>4. /\ PoppedFrom(written'[c], pops', popped')
          /\ NoneMissing(written'[c], pops' - Len(popped'), delivered'[c])
      BY <3>2, <3>3, NonePopped
    <3> QED BY <3>3, <3>4 DEF TcOrder
  <2>4. CASE SendTcFails
    BY <2>1, <2>4 DEF SendTcFails, EndSession, tc
  <2>5. CASE ClientGone
    BY <2>1, <2>5 DEF ClientGone, EndSession, tc
  <2>6. ASSUME NEW n \in Nat, ReceiveTc(n) PROVE TcOrder'
    BY <2>1, <2>6 DEF ReceiveTc, tc
  <2>7. CASE PopFrame
    <3> DEFINE w == written[accepted]
               n == pops + 1
               x == [bytes |-> FrameBytes(w[n].f, TcSize[w[n].f]), no |-> n]
    <3>1. /\ accepted \in Clients /\ serving /\ pops' = n /\ n \in 1..Len(w)
          /\ popped' = Append(popped, x)
      BY <2>7, PopFacts
    <3>2. /\ w \in Seq(TcEntry) /\ pops \in Nat /\ popped \in Seq(PoppedFrame)
          /\ PoppedFrom(w, pops, popped)
      BY <3>1, TcTypes, SessionTypes DEF TcOrder
    <3>3. x \in PoppedFrame /\ x.no = n /\ IsWritten(w, x)
      <4>1. w[n].f \in TcFrames
        <5>1. w[n] \in TcEntry
          BY <3>1, <3>2, ElementOfSeq
        <5> QED BY <5>1 DEF TcEntry
      <4>2. FrameBytes(w[n].f, TcSize[w[n].f]) \in Seq(TcByte)
        BY <4>1, TcBytes
      <4> QED BY <3>1, <3>2, <4>2 DEF PoppedFrame, IsWritten
    <3> HIDE DEF w, x
    <3>4. PoppedFrom(w, pops', popped') /\ pops' - Len(popped') = pops - Len(popped)
      BY <3>1, <3>2, <3>3, PopOne
    <3>5. UNCHANGED <<written, delivered, accepted, serving>>
      BY <2>7 DEF PopFrame, tc
    <3> QED BY <3>1, <3>4, <3>5 DEF TcOrder, w
  <2>8. CASE PopEnds
    BY <2>1, <2>8 DEF PopEnds, tc
  <2>9. CASE SendTc
    <3> DEFINE c == accepted
               w == written[c]
               d == delivered[c]
               frame == Head(popped)
               done == pops - Len(popped)
               e == [to |-> Receiver(frame), scid |-> Native, bytes |-> frame.bytes, no |-> frame.no]
    <3>1. serving /\ c \in Clients /\ popped # <<>>
      BY <2>9, ServedConn DEF SendTc, TypeOK, BridgeType
    <3>2. /\ w \in Seq(TcEntry) /\ d \in Seq(TcDatagram) /\ popped \in Seq(PoppedFrame)
          /\ pops \in Nat
      BY <3>1, TcTypes, SessionTypes
    <3>3. /\ DeliveredFrom(w, d) /\ PoppedFrom(w, pops, popped) /\ NoneMissing(w, done, d)
      BY <3>1 DEF TcOrder
    <3>4. /\ popped' = Tail(popped)
          /\ UNCHANGED <<accepted, serving, pops, written>>
          /\ \/ Receiver(frame) = None /\ UNCHANGED delivered
             \/ Receiver(frame) # None /\ delivered' = [delivered EXCEPT ![c] = Append(d, e)]
      BY <2>9 DEF SendTc
    <3>5. /\ \A b \in Clients : b # c => delivered'[b] = delivered[b]
          /\ \/ Receiver(frame) = None /\ delivered'[c] = d
             \/ Receiver(frame) # None /\ delivered'[c] = Append(d, e)
      BY <3>1, <3>4 DEF TypeOK, TcType
    <3> HIDE DEF w, d, frame, e
    <3>6. /\ PoppedFrom(w, pops, Tail(popped))
          /\ done \in Nat /\ pops - Len(Tail(popped)) = done + 1
          /\ frame \in PoppedFrame /\ frame.no = done + 1 /\ IsWritten(w, frame)
      BY <3>1, <3>2, <3>3, SendOne DEF frame
    <3> HIDE DEF done
    <3>7. DeliveredFrom(w, delivered'[c]) /\ NoneMissing(w, done + 1, delivered'[c])
      <4>1. CASE Receiver(frame) = None
        <5>1. ~Known(w[done + 1].f) /\ delivered'[c] = d
          BY <3>2, <3>5, <3>6, <4>1, ReceiverFacts
        <5>2. NoneMissing(w, done + 1, d)
          BY <3>2, <3>3, <3>6, <5>1, DropOne
        <5> QED BY <3>3, <5>1, <5>2
      <4>2. CASE Receiver(frame) # None
        <5>1. /\ Receiver(frame) \in Links /\ delivered'[c] = Append(d, e)
              /\ Wire[Receiver(frame)] = TcScid[w[frame.no].f]
          BY <3>2, <3>5, <3>6, <4>2, ReceiverFacts
        <5>2. /\ e \in TcDatagram /\ e.no = done + 1 /\ IsWritten(w, e)
              /\ Wire[e.to] = TcScid[w[e.no].f]
          BY <3>6, <5>1 DEF e, TcDatagram, PoppedFrame, IsWritten
        <5>3. DeliveredFrom(w, Append(d, e)) /\ NoneMissing(w, done + 1, Append(d, e))
          BY <3>2, <3>3, <3>6, <5>2, DeliverOne
        <5> QED BY <5>1, <5>3
      <4> QED BY <4>1, <4>2
    <3>8. \A b \in Clients : DeliveredFrom(written'[b], delivered'[b])
      <4>1. ASSUME NEW b \in Clients, b # c PROVE DeliveredFrom(written'[b], delivered'[b])
        <5>1. DeliveredFrom(written[b], delivered[b])
          BY DEF TcOrder
        <5> QED BY <3>4, <3>5, <4>1, <5>1
      <4> QED BY <3>4, <3>7, <4>1 DEF w
    <3>9. /\ PoppedFrom(written'[c], pops', popped')
          /\ NoneMissing(written'[c], pops' - Len(popped'), delivered'[c])
      BY <3>4, <3>6, <3>7 DEF w
    <3> QED BY <3>4, <3>8, <3>9 DEF TcOrder
  <2>10. CASE StartClient
    BY <2>1, <2>10 DEF StartClient, bridge, tc
  <2>11. ASSUME NEW n \in Nat, ReceiveTm(n) PROVE TcOrder'
    BY <2>1, <2>11 DEF ReceiveTm, bridge, tc
  <2>12. CASE ForwardTm
    BY <2>1, <2>12 DEF ForwardTm, bridge, tc
  <2>13. CASE ForwardTmFails
    BY <2>1, <2>13 DEF ForwardTmFails, bridge, tc
  <2>14. CASE TmEnds
    BY <2>1, <2>14 DEF TmEnds, bridge, tc
  <2>15. CASE WriteTcFails
    BY <2>1, <2>15 DEF WriteTcFails, bridge, tc
  <2>16. CASE LeaveMain
    BY <2>1, <2>16 DEF LeaveMain, bridge, tc
  <2>17. ASSUME NEW f \in TcFrames, WriteTc(f) PROVE TcOrder'
    <3> DEFINE w == written[cur]
               entry == [f |-> f, at |-> Len(upstream[cur])]
               v == Append(w, entry)
    <3>1. cur \in Clients
      BY <2>17, ClientConn DEF WriteTc
    <3>2. w \in Seq(TcEntry) /\ entry \in TcEntry
      BY <3>1, TcTypes DEF TcEntry
    <3>3. /\ written' = [written EXCEPT ![cur] = v]
          /\ UNCHANGED <<accepted, serving, pops, popped, delivered>>
      BY <2>17 DEF WriteTc, bridge
    <3>4. written'[cur] = v /\ \A b \in Clients : b # cur => written'[b] = written[b]
      BY <3>1, <3>3 DEF TypeOK, TcType
    <3> HIDE DEF entry
    <3>5. /\ \A p, q : PoppedFrom(w, p, q) => PoppedFrom(v, p, q)
          /\ \A d : DeliveredFrom(w, d) => DeliveredFrom(v, d)
          /\ \A d : \A done \in 0..Len(w) : NoneMissing(w, done, d) => NoneMissing(v, done, d)
      BY <3>2, WriteKeeps
    <3> HIDE DEF w, v
    <3>6. \A b \in Clients : DeliveredFrom(written'[b], delivered'[b])
      <4>1. ASSUME NEW b \in Clients PROVE DeliveredFrom(written'[b], delivered[b])
        <5>1. DeliveredFrom(written[b], delivered[b])
          BY DEF TcOrder
        <5>2. CASE b = cur
          BY <3>4, <3>5, <5>1, <5>2 DEF w
        <5>3. CASE b # cur
          BY <3>4, <5>1, <5>3
        <5> QED BY <5>2, <5>3
      <4> QED BY <3>3, <4>1
    <3>7. ASSUME serving
          PROVE  /\ PoppedFrom(written'[accepted], pops, popped)
                 /\ NoneMissing(written'[accepted], pops - Len(popped), delivered[accepted])
      <4>1. /\ PoppedFrom(written[accepted], pops, popped)
            /\ NoneMissing(written[accepted], pops - Len(popped), delivered[accepted])
        BY <3>7 DEF TcOrder
      <4>2. accepted \in Clients
        BY <3>7, ServedConn
      <4>3. CASE accepted # cur
        BY <3>4, <4>1, <4>2, <4>3
      <4>4. CASE accepted = cur
        <5>1. pops - Len(popped) \in 0..Len(w)
          <6>1. pops <= Len(w) /\ Len(popped) <= pops
            BY <3>7, <4>1, <4>4 DEF TcStream, TcAligned, PoppedFrom, w
          <6>2. pops \in Nat /\ Len(popped) \in Nat /\ Len(w) \in Nat
            BY <3>1, <3>2, TcTypes, SessionTypes
          <6> QED BY <6>1, <6>2
        <5> QED BY <3>4, <3>5, <4>1, <4>4, <5>1 DEF w
      <4> QED BY <4>3, <4>4
    <3> QED BY <3>3, <3>6, <3>7 DEF TcOrder
  <2>18. CASE UNCHANGED vars
    BY <2>1, <2>18 DEF vars, bridge, tc
  <2> QED BY <2>2, <2>3, <2>4, <2>5, <2>6, <2>7, <2>8, <2>9, <2>10, <2>11, <2>12, <2>13, <2>14,
             <2>15, <2>16, <2>17, <2>18
          DEF Next, BridgeStep, TmStep, TcStep, TypeOK, BridgeType
<1> QED BY <1>1, <1>2, TypeCorrect, TcStreamHolds, PTL DEF Spec

\* Telecommands reach F Prime whole, in order and at the process they name, and while
\* a session lasts none that can be routed is missing but those still on their way:
\* for any lengths of frames and headers, any cuts of the stream and any clients.
THEOREM TcFaithfulHolds == Spec => []TcFaithful
<1>1. TypeOK /\ TcStream /\ TcOrder => TcFaithful
  <2> SUFFICES ASSUME TypeOK, TcStream, TcOrder, NEW c \in Clients
               PROVE  /\ DeliveredFrom(written[c], delivered[c])
                      /\ Selecting /\ accepted = c /\ conn[c].up = <<>> =>
                           \A n \in 1..Len(written[c]) : Known(written[c][n].f) =>
                             \E i \in 1..Len(delivered[c]) : delivered[c][i].no = n
    BY DEF TcFaithful, DeliveredFrom, IsWritten
  <2>1. DeliveredFrom(written[c], delivered[c])
    BY DEF TcOrder
  <2>2. ASSUME Selecting, accepted = c, conn[c].up = <<>>
        PROVE  \A n \in 1..Len(written[c]) : Known(written[c][n].f) =>
                 \E i \in 1..Len(delivered[c]) : delivered[c][i].no = n
    <3> DEFINE w == written[c]
               u == upstream[c]
    <3>1. /\ w \in Seq(TcEntry) /\ u \in Seq(TcByte) /\ tcBuffer \in Seq(TcByte)
          /\ pops \in Nat
      BY TcTypes
    <3>2. /\ TcWhole(w, u) /\ pops <= Len(w) /\ Exhausted(tcBuffer)
          /\ Held(u, Start(w, u, pops + 1), tcBuffer, <<>>)
      BY <2>2 DEF Selecting, TcStream, WrittenWhole, TcAligned
    <3>3. NoneMissing(w, pops - Len(popped), delivered[c]) /\ popped = <<>>
      BY <2>2 DEF Selecting, TcOrder
    <3> HIDE DEF w, u
    <3>4. pops = Len(w)
      BY <3>1, <3>2, NothingLeft
    <3>5. pops - Len(popped) = Len(w)
      BY <3>1, <3>3, <3>4
    <3> QED BY <3>3, <3>5 DEF NoneMissing, w
  <2> QED BY <2>1, <2>2
<1> QED BY <1>1, TypeCorrect, TcStreamHolds, TcOrderHolds, PTL

-----------------------------------------------------------------------------
(***************************************************************************)
(* Telemetry.  The frames r relayed on a connection follow one another in  *)
(* the bytes d; only the last may be incomplete, and then the session is   *)
(* over.                                                                   *)
(***************************************************************************)
TmEntry == [f : TmFrame, at : Nat]

TmWholeAt(r, d, i) ==
  /\ r[i].at <= Len(d)
  /\ \A k \in 1..TmSize : r[i].at + k <= Len(d) => d[r[i].at + k] = [f |-> r[i].f, k |-> k]
  /\ i < Len(r) => r[i + 1].at = r[i].at + TmSize
  /\ i = Len(r) => Len(d) <= r[i].at + TmSize

TmWhole(r, d) == Start(r, d, 1) = 0 /\ \A i \in 1..Len(r) : TmWholeAt(r, d, i)

\* Is the last frame complete?
Full(r, d) == r # <<>> => Len(d) = r[Len(r)].at + TmSize

\* The types of such frames.
LEMMA TmEntryFacts ==
  ASSUME NEW r \in Seq(TmEntry), NEW d \in Seq(TmByte)
  PROVE  /\ Len(r) \in Nat /\ Len(d) \in Nat
         /\ \A i \in 1..Len(r) : r[i].f \in TmFrame /\ r[i].at \in Nat
         /\ \A i \in Nat \ {0} : Start(r, d, i) \in Nat
<1>1. Len(r) \in Nat /\ Len(d) \in Nat
  OBVIOUS
<1>2. ASSUME NEW i \in 1..Len(r)
      PROVE  r[i].f \in TmFrame /\ r[i].at \in Nat
  <2>1. r[i] \in TmEntry
    BY ElementOfSeq
  <2> QED BY <2>1 DEF TmEntry
<1>3. \A i \in Nat \ {0} : Start(r, d, i) \in Nat
  BY <1>1, <1>2 DEF Start
<1> QED BY <1>1, <1>2, <1>3

\* Relaying a frame, or the part of it that fits, behind others that are complete.
LEMMA RelayFrame ==
  ASSUME NEW r \in Seq(TmEntry), NEW d \in Seq(TmByte), TmWhole(r, d), Full(r, d),
         NEW f \in TmFrame, NEW part \in Seq(TmByte), Len(part) <= TmSize,
         \A k \in 1..Len(part) : part[k] = [f |-> f, k |-> k]
  PROVE  LET v == Append(r, [f |-> f, at |-> Len(d)])
             x == d \o part
         IN  /\ TmWhole(v, x) /\ (Len(part) = TmSize => Full(v, x))
             /\ \A i \in 1..(Len(r) + 1) : Start(v, x, i) = Start(r, d, i)
<1> DEFINE N == Len(r)
           L == Len(d)
           P == Len(part)
           entry == [f |-> f, at |-> L]
           v == Append(r, entry)
           x == d \o part
<1>1. /\ N \in Nat /\ L \in Nat /\ P \in Nat /\ P <= TmSize /\ TmSize \in Nat
      /\ \A i \in 1..N : r[i].at \in Nat
      /\ \A i \in Nat \ {0} : Start(r, d, i) \in Nat
  BY TmEntryFacts, ConstantFacts
<1>2. entry \in TmEntry /\ entry.f = f /\ entry.at = L
  BY <1>1 DEF TmEntry
<1> HIDE DEF entry
<1>3. /\ Len(v) = N + 1 /\ v[N + 1] = entry
      /\ \A i \in 1..N : v[i] = r[i]
  BY <1>2, AppendFacts
<1>4. /\ Len(x) = L + P
      /\ \A i \in 1..L : x[i] = d[i]
      /\ \A i \in 1..P : x[L + i] = part[i]
  BY ConcatFacts
<1>5. \A k \in 1..P : part[k] = [f |-> f, k |-> k]
  OBVIOUS
<1> HIDE DEF v, x, P
<1>6. Start(r, d, N + 1) = L
  BY <1>1 DEF Start
<1>7. ASSUME NEW i \in 1..(N + 1) PROVE Start(v, x, i) = Start(r, d, i)
  <2>1. Start(v, x, i) = v[i].at
    BY <1>1, <1>3 DEF Start
  <2>2. CASE i \in 1..N
    BY <1>1, <1>3, <2>1, <2>2 DEF Start
  <2>3. CASE i = N + 1
    BY <1>2, <1>3, <1>6, <2>1, <2>3
  <2> QED BY <1>1, <2>2, <2>3
<1>8. r # <<>> => N \in 1..N /\ L = r[N].at + TmSize
  BY <1>1 DEF Full
<1>9. ASSUME NEW i \in 1..N PROVE TmWholeAt(v, x, i)
  <2> DEFINE A == r[i].at
             g == r[i].f
  <2>1. /\ A \in Nat /\ A <= L
        /\ \A k \in 1..TmSize : A + k <= L => d[A + k] = [f |-> g, k |-> k]
        /\ i < N => r[i + 1].at = A + TmSize
        /\ i = N => L = A + TmSize
    <3>1. TmWholeAt(r, d, i)
      BY DEF TmWhole
    <3>2. i = N => L = A + TmSize
      <4>1. N \in 1..N => r # <<>>
        BY EmptySeq
      <4> QED BY <1>8, <4>1
    <3>3. A \in Nat /\ A <= L /\ (i < N => r[i + 1].at = A + TmSize)
      BY <1>1, <3>1 DEF TmWholeAt
    <3>4. \A k \in 1..TmSize : A + k <= L => d[A + k] = [f |-> g, k |-> k]
      BY <3>1 DEF TmWholeAt
    <3> QED BY <3>2, <3>3, <3>4
  <2>2. v[i] = r[i] /\ v[i].at = A /\ v[i].f = g
    BY <1>3
  <2> HIDE DEF A, g
  <2>3. v[i + 1].at = A + TmSize
    <3>1. CASE i < N
      <4>1. i + 1 \in 1..N
        BY <1>1, <3>1
      <4> QED BY <1>3, <2>1, <3>1, <4>1
    <3>2. CASE i = N
      BY <1>2, <1>3, <2>1, <3>2
    <3> QED BY <1>1, <3>1, <3>2
  <2>4. A + TmSize <= L
    <3>1. CASE i < N
      <4>1. i + 1 \in 1..N
        BY <1>1, <3>1
      <4>2. r[i + 1].at <= L
        BY <4>1 DEF TmWhole, TmWholeAt
      <4> QED BY <2>1, <3>1, <4>2
    <3>2. CASE i = N
      BY <1>1, <2>1, <3>2
    <3> QED BY <1>1, <3>1, <3>2
  <2>5. \A k \in 1..TmSize : x[A + k] = [f |-> g, k |-> k]
    <3>1. \A k \in 1..TmSize : A + k \in 1..L /\ A + k <= L
      BY <1>1, <2>1, <2>4
    <3> QED BY <1>4, <2>1, <3>1
  <2>6. A <= Len(x) /\ i # Len(v) /\ Len(v) \in Nat
    BY <1>1, <1>3, <1>4, <2>1
  <2> QED BY <2>2, <2>3, <2>5, <2>6 DEF TmWholeAt
<1>10. TmWholeAt(v, x, N + 1)
  <2>1. v[N + 1].f = f /\ v[N + 1].at = L
    BY <1>2, <1>3
  <2>2. ASSUME NEW k \in 1..TmSize, L + k <= Len(x) PROVE x[L + k] = [f |-> f, k |-> k]
    <3>1. k \in 1..P
      BY <1>1, <1>4, <2>2
    <3> QED BY <1>4, <1>5, <3>1
  <2>3. L <= Len(x) /\ Len(x) <= L + TmSize /\ ~(N + 1 < Len(v))
    BY <1>1, <1>3, <1>4
  <2> QED BY <2>1, <2>2, <2>3 DEF TmWholeAt
<1>11. TmWhole(v, x)
  <2>1. Start(r, d, 1) = 0 /\ 1 \in 1..(N + 1)
    BY <1>1 DEF TmWhole
  <2>2. \A i \in 1..Len(v) : i \in 1..N \/ i = N + 1
    BY <1>1, <1>3
  <2>3. Start(v, x, 1) = 0
    BY <1>7, <2>1
  <2>4. \A i \in 1..Len(v) : TmWholeAt(v, x, i)
    BY <1>9, <1>10, <2>2
  <2> QED BY <2>3, <2>4 DEF TmWhole
<1>12. P = TmSize => Full(v, x)
  <2>1. v[Len(v)].at = L
    BY <1>2, <1>3
  <2> QED BY <1>4, <2>1 DEF Full
<1> QED BY <1>7, <1>11, <1>12 DEF v, x, entry, N, L, P

\* The buffer b begins with the n-th frame, which can be cut off.
TmNext(r, d, n, b, way) ==
  /\ n \in 1..Len(r)
  /\ First(b, TmSize) = FrameBytes(r[n].f, TmSize)
  /\ Held(d, Start(r, d, n + 1), Rest(b, TmSize), way)

\* As many bytes as a frame has are the frame that was relayed: the client never
\* cuts across two frames.
LEMMA NextTm ==
  ASSUME NEW r \in Seq(TmEntry), NEW d \in Seq(TmByte), TmWhole(r, d), NEW n \in Nat \ {0},
         NEW b \in Seq(TmByte), NEW way \in Seq(TmByte),
         Held(d, Start(r, d, n), b, way), Len(b) >= TmSize
  PROVE  TmNext(r, d, n, b, way)
<1> DEFINE A == Start(r, d, n)
           f == r[n].f
<1>1. Len(r) \in Nat /\ Len(d) \in Nat /\ A \in Nat /\ TmSize \in Nat \ {0}
  BY TmEntryFacts, ConstantFacts
<1>2. n > Len(r) => A = Len(d)
  BY <1>1 DEF Start
<1>3. Held(d, A, b, way)
  OBVIOUS
<1>4. n <= Len(r) => A = r[n].at
  BY DEF Start
<1> HIDE DEF A
<1>5. Len(d) - A = Len(b) + Len(way) /\ \A k \in 1..Len(b) : b[k] = d[A + k]
  BY <1>3, HeldFacts
<1>6. Len(b) \in Nat /\ Len(way) \in Nat
  OBVIOUS
<1>7. n \in 1..Len(r) /\ A + TmSize <= Len(d)
  BY <1>1, <1>2, <1>5, <1>6
<1>8. f \in TmFrame
  BY <1>7, TmEntryFacts
<1>9. /\ \A k \in 1..TmSize : A + k <= Len(d) => d[A + k] = [f |-> f, k |-> k]
      /\ n < Len(r) => r[n + 1].at = A + TmSize
      /\ n = Len(r) => Len(d) <= A + TmSize
  BY <1>4, <1>7 DEF TmWhole, TmWholeAt
<1>10. Start(r, d, n + 1) = A + TmSize
  BY <1>1, <1>7, <1>9 DEF Start
<1> HIDE DEF f
<1>11. TmSize \in 0..Len(b)
  BY <1>1, <1>6
<1>12. Held(d, A + TmSize, Rest(b, TmSize), way)
  BY <1>3, <1>11, HeldCut
<1> DEFINE x == First(b, TmSize)
           y == FrameBytes(f, TmSize)
<1>13. x \in Seq(TmByte) /\ Len(x) = TmSize /\ \A k \in 1..TmSize : x[k] = b[k]
  BY <1>11, FirstFacts
<1>14. /\ y \in Seq(TmByte) /\ Len(y) = TmSize
       /\ \A k \in 1..TmSize : y[k] = [f |-> f, k |-> k]
  BY <1>8, TmBytes
<1> HIDE DEF x, y
<1>15. \A k \in 1..TmSize : k \in 1..Len(b) /\ A + k <= Len(d)
  BY <1>1, <1>7, <1>11
<1>16. ASSUME NEW k \in 1..TmSize PROVE x[k] = y[k]
  <2>1. x[k] = b[k] /\ y[k] = [f |-> f, k |-> k]
    BY <1>13, <1>14
  <2>2. b[k] = d[A + k]
    BY <1>5, <1>15
  <2>3. d[A + k] = [f |-> f, k |-> k]
    BY <1>9, <1>15
  <2> QED BY <2>1, <2>2, <2>3
<1>17. x = y
  BY <1>13, <1>14, <1>16, SeqEqual
<1> QED BY <1>7, <1>10, <1>12, <1>17 DEF TmNext, x, y, f

RelayedWhole ==
  /\ \A c \in Clients : /\ TmWhole(relayed[c], downstream[c])
                        /\ c > accepted => relayed[c] = <<>> /\ downstream[c] = <<>>
  /\ serving => Full(relayed[accepted], downstream[accepted])

TmAligned == running =>
  /\ cuts <= Len(relayed[cur])
  /\ Held(downstream[cur], Start(relayed[cur], downstream[cur], cuts + 1),
          buffered, conn[cur].down)

TmStream == RelayedWhole /\ TmAligned

\* What the types say of the telemetry of a connection, and of the client.
LEMMA TmTypes ==
  ASSUME TypeOK, NEW c \in Clients
  PROVE  /\ relayed[c] \in Seq(TmEntry) /\ Len(relayed[c]) \in Nat
         /\ downstream[c] \in Seq(TmByte) /\ conn[c].down \in Seq(TmByte)
         /\ buffered \in Seq(TmByte) /\ cuts \in Nat
<1>1. relayed[c] \in Seq(TmEntry) /\ downstream[c] \in Seq(TmByte)
  BY DEF TypeOK, TmType, TmEntry
<1>2. conn[c].down \in Seq(TmByte) /\ buffered \in Seq(TmByte) /\ cuts \in Nat
  BY DEF TypeOK, NetworkType, ClientType
<1> QED BY <1>1, <1>2

\* Steps that do not touch the telemetry but perhaps end a session or the client.
LEMMA TmStreamKept ==
  ASSUME TypeOK, TmStream, UNCHANGED <<relayed, downstream, accepted>>,
         serving' => serving,
         running' => /\ running /\ conn'[cur].down = conn[cur].down
                     /\ UNCHANGED <<cur, buffered, cuts>>
  PROVE  TmStream'
<1>1. RelayedWhole'
  BY DEF TmStream, RelayedWhole
<1>2. TmAligned'
  BY DEF TmStream, TmAligned
<1> QED BY <1>1, <1>2 DEF TmStream

\* The frame that the client cuts next.
LEMMA CutFacts ==
  ASSUME TypeOK, TmStream, running, Len(buffered) >= TmSize
  PROVE  /\ cur \in Clients /\ cuts + 1 \in 1..Len(relayed[cur])
         /\ First(buffered, TmSize) = FrameBytes(relayed[cur][cuts + 1].f, TmSize)
         /\ Held(downstream[cur], Start(relayed[cur], downstream[cur], cuts + 2),
                 Rest(buffered, TmSize), conn[cur].down)
<1> DEFINE r == relayed[cur]
           d == downstream[cur]
           way == conn[cur].down
           n == cuts + 1
<1>1. cur \in Clients
  BY ClientConn
<1>2. /\ r \in Seq(TmEntry) /\ d \in Seq(TmByte) /\ way \in Seq(TmByte) /\ buffered \in Seq(TmByte)
      /\ n \in Nat \ {0} /\ n + 1 = cuts + 2
  BY <1>1, TmTypes
<1>3. TmWhole(r, d) /\ Held(d, Start(r, d, n), buffered, way)
  BY <1>1 DEF TmStream, RelayedWhole, TmAligned
<1> HIDE DEF r, d, way, n
<1>4. TmNext(r, d, n, buffered, way)
  BY <1>2, <1>3, NextTm
<1> QED BY <1>1, <1>2, <1>4 DEF TmNext, r, d, way, n

\* A cut takes exactly one frame from the stream.
LEMMA CutKeeps ==
  ASSUME TypeOK, TmStream, running, Len(buffered) >= TmSize, Cut,
         UNCHANGED <<relayed, downstream, accepted, serving, running, cur, conn>>
  PROVE  TmStream'
<1>1. RelayedWhole'
  BY DEF TmStream, RelayedWhole
<1>2. cuts' = cuts + 1 /\ buffered' = Rest(buffered, TmSize) /\ cuts \in Nat
  BY DEF Cut, TypeOK, ClientType
<1>3. /\ cuts + 1 <= Len(relayed[cur]) /\ cuts' + 1 = cuts + 2
      /\ Held(downstream[cur], Start(relayed[cur], downstream[cur], cuts + 2),
              Rest(buffered, TmSize), conn[cur].down)
  BY <1>2, CutFacts
<1>4. TmAligned'
  BY <1>2, <1>3 DEF TmAligned
<1> QED BY <1>1, <1>4 DEF TmStream

\* The part of a frame that is written.
LEMMA RelayedPart ==
  ASSUME NEW frame \in TmFrame, NEW down \in Seq(TmByte), Len(down) <= Room
  PROVE  LET part == Fitting(FrameBytes(frame, TmSize), down)
         IN  /\ part \in Seq(TmByte) /\ Len(part) <= TmSize
             /\ \A k \in 1..Len(part) : part[k] = [f |-> frame, k |-> k]
<1> DEFINE bytes == FrameBytes(frame, TmSize)
           part == Fitting(bytes, down)
<1>1. /\ bytes \in Seq(TmByte) /\ Len(bytes) = TmSize
      /\ \A k \in 1..TmSize : bytes[k] = [f |-> frame, k |-> k]
  BY TmBytes
<1> HIDE DEF bytes
<1>2. /\ part \in Seq(TmByte) /\ Len(part) <= TmSize
      /\ \A k \in 1..Len(part) : part[k] = bytes[k]
  BY <1>1, FittingFacts
<1> HIDE DEF part
<1>3. \A k \in 1..Len(part) : k \in 1..TmSize
  BY <1>2, ConstantFacts
<1> QED BY <1>1, <1>2, <1>3 DEF part, bytes

\* The two ends of the telemetry of a connection stay together: what the client has
\* not cut off is what the bridge relayed from the next frame on.
LEMMA TmStreamHolds == Spec => []TmStream
<1>1. Init => TmStream
  <2> SUFFICES ASSUME Init PROVE TmStream
    OBVIOUS
  <2>1. /\ \A c \in Clients : relayed[c] = <<>> /\ downstream[c] = <<>>
        /\ ~serving /\ ~running
    BY DEF Init
  <2>2. Len(<<>>) = 0
    OBVIOUS
  <2> QED BY <2>1, <2>2 DEF TmStream, RelayedWhole, TmAligned, TmWhole, Start
<1>2. TypeOK /\ TmStream /\ [Next]_vars => TmStream'
  <2> SUFFICES ASSUME TypeOK, TmStream, [Next]_vars PROVE TmStream'
    OBVIOUS
  <2>1. ASSUME UNCHANGED <<relayed, downstream, accepted, running, cur, buffered, cuts>>,
               serving' => serving, running => conn'[cur].down = conn[cur].down
        PROVE  TmStream'
    BY <2>1, TmStreamKept
  <2>2. ASSUME NEW l \in Links, SendTm(l) PROVE TmStream'
    BY <2>1, <2>2 DEF SendTm, client
  <2>3. CASE Accept
    <3> DEFINE c == accepted + 1
    <3>1. c \in Clients /\ accepted \in Nat
      BY <2>3, ConstantFacts DEF Accept, TypeOK, BridgeType, ClientType, Clients
    <3>2. accepted' = c /\ UNCHANGED <<relayed, downstream, running, cur, buffered, cuts, conn>>
      BY <2>3 DEF Accept, tm, client
    <3>3. relayed[c] = <<>>
      BY <3>1 DEF TmStream, RelayedWhole
    <3>4. \A b \in Clients : b > c => b > accepted
      BY <3>1 DEF Clients
    <3>5. RelayedWhole'
      BY <3>2, <3>3, <3>4 DEF TmStream, RelayedWhole, Full
    <3>6. TmAligned'
      BY <3>2 DEF TmStream, TmAligned
    <3> QED BY <3>5, <3>6 DEF TmStream
  <2>4. ASSUME NEW l \in Links, RelayTm(l) PROVE TmStream'
    <3> DEFINE c == accepted
               r == relayed[c]
               d == downstream[c]
               frame == RewriteTm(l, Head(queue[l]))
               way == conn[c].down
               part == Fitting(FrameBytes(frame, TmSize), way)
               entry == [f |-> frame, at |-> Len(d)]
    <3>1. serving /\ c \in Clients /\ way \in Seq(TmByte) /\ Len(way) <= Room
      BY <2>4, ServedConn DEF RelayTm, Selecting
    <3>2. frame \in TmFrame
      <4>1. queue[l] \in Seq(TmFrame) /\ queue[l] # <<>>
        BY <2>4 DEF RelayTm, TypeOK, BridgeType
      <4>2. Head(queue[l]) \in TmFrame
        BY <4>1, TailFacts
      <4> QED BY <4>2, RewriteFacts
    <3>3. /\ part \in Seq(TmByte) /\ Len(part) <= TmSize
          /\ \A k \in 1..Len(part) : part[k] = [f |-> frame, k |-> k]
      BY <3>1, <3>2, RelayedPart
    <3>4. /\ r \in Seq(TmEntry) /\ d \in Seq(TmByte) /\ Len(r) \in Nat
          /\ buffered \in Seq(TmByte) /\ cuts \in Nat
          /\ TmWhole(r, d) /\ Full(r, d)
      BY <3>1, TmTypes DEF TmStream, RelayedWhole
    <3>5. /\ relayed' = [relayed EXCEPT ![c] = Append(r, entry)]
          /\ downstream' = [downstream EXCEPT ![c] = d \o part]
          /\ UNCHANGED <<accepted, running, cur, buffered, cuts>>
      BY <2>4 DEF RelayTm, client
    <3>6. /\ conn'[c].down = way \o part
          /\ \A b \in Clients : b # c => conn'[b] = conn[b]
          /\ serving' => Len(part) = TmSize
      BY <2>4, <3>1 DEF RelayTm, EndSession, TypeOK, NetworkType
    <3>7. /\ relayed'[c] = Append(r, entry) /\ downstream'[c] = d \o part
          /\ \A b \in Clients : b # c => relayed'[b] = relayed[b] /\ downstream'[b] = downstream[b]
      BY <3>1, <3>5 DEF TypeOK, TmType
    <3>8. entry \in TmEntry
      BY <3>2, <3>4 DEF TmEntry
    <3> HIDE DEF frame, part, way
    <3>9. /\ TmWhole(Append(r, entry), d \o part)
          /\ Len(part) = TmSize => Full(Append(r, entry), d \o part)
          /\ \A i \in 1..(Len(r) + 1) : Start(Append(r, entry), d \o part, i) = Start(r, d, i)
      BY <3>2, <3>3, <3>4, RelayFrame
    <3> HIDE DEF r, d, entry
    <3>10. RelayedWhole'
      <4>1. TmWhole(relayed'[c], downstream'[c])
        BY <3>7, <3>9
      <4>2. ASSUME NEW b \in Clients, b # c
            PROVE  /\ TmWhole(relayed'[b], downstream'[b])
                   /\ b > c => relayed'[b] = <<>> /\ downstream'[b] = <<>>
        BY <3>7, <4>2 DEF TmStream, RelayedWhole
      <4>3. serving' => Full(relayed'[c], downstream'[c])
        BY <3>6, <3>7, <3>9
      <4>4. ~(c > c)
        BY <3>1 DEF Clients
      <4> QED BY <3>5, <4>1, <4>2, <4>3, <4>4 DEF RelayedWhole
    <3>11. TmAligned'
      <4> SUFFICES ASSUME running PROVE TmAligned'
        BY <3>5 DEF TmAligned
      <4>1. cur \in Clients
        BY ClientConn
      <4>2. CASE cur # c
        BY <3>5, <3>6, <3>7, <4>1, <4>2 DEF TmStream, TmAligned
      <4>3. CASE cur = c
        <5> DEFINE start == Start(r, d, cuts + 1)
        <5>1. cuts <= Len(r) /\ Held(d, start, buffered, way)
          BY <4>3 DEF TmStream, TmAligned, r, d, way
        <5>2. Start(Append(r, entry), d \o part, cuts + 1) = start
          BY <3>4, <3>9, <5>1
        <5> HIDE DEF start
        <5>3. Held(d \o part, start, buffered, way \o part)
          <6> way \in Seq(TmByte)
            BY <3>1
          <6> QED BY <3>3, <3>4, <5>1, HeldAdd
        <5>4. cuts <= Len(Append(r, entry))
          BY <3>4, <3>8, <5>1
        <5> QED BY <3>5, <3>6, <3>7, <4>3, <5>2, <5>3, <5>4 DEF TmAligned
      <4> QED BY <4>2, <4>3
    <3> QED BY <3>10, <3>11 DEF TmStream
  <2>5. ASSUME serving, NEW up, EndSession(conn[accepted].down, up),
               UNCHANGED <<relayed, downstream, accepted, running, cur, buffered, cuts>>
        PROVE  TmStream'
    <3>1. \A c \in Clients : conn'[c].down = conn[c].down
      BY <2>5, ServedConn DEF EndSession, TypeOK, NetworkType
    <3> QED BY <2>1, <2>5, <3>1, ClientConn
  <2>6. ASSUME NEW l \in Links, RelayTmFails(l) PROVE TmStream'
    BY <2>5, <2>6 DEF RelayTmFails, Selecting, client, tm
  <2>7. CASE SendTcFails
    BY <2>5, <2>7 DEF SendTcFails, TypeOK, BridgeType, client, tm
  <2>8. CASE ClientGone
    BY <2>5, <2>8 DEF ClientGone, Selecting, client, tm
  <2>9. ASSUME NEW n \in Nat, ReceiveTc(n) PROVE TmStream'
    <3>1. \A c \in Clients : conn'[c].down = conn[c].down
      BY <2>9, ServedConn DEF ReceiveTc, Selecting, TypeOK, NetworkType
    <3> QED BY <2>1, <2>9, <3>1, ClientConn DEF ReceiveTc, client, tm
  <2>10. CASE PopFrame
    BY <2>1, <2>10 DEF PopFrame, client, tm
  <2>11. CASE PopEnds
    BY <2>1, <2>11 DEF PopEnds, client, tm
  <2>12. CASE SendTc
    BY <2>1, <2>12 DEF SendTc, client, tm
  <2>13. CASE StartClient
    <3> DEFINE c == cur + 1
    <3>1. c \in Clients /\ c > accepted
      BY <2>13, ConstantFacts DEF StartClient, TypeOK, BridgeType, ClientType, Clients
    <3>2. /\ cur' = c /\ cuts' = 0 /\ buffered' = <<>>
          /\ UNCHANGED <<accepted, serving, relayed, downstream>>
      BY <2>13 DEF StartClient, bridge, tm
    <3>3. conn'[c].down = <<>>
      BY <2>13, <3>1 DEF StartClient, TypeOK, NetworkType
    <3>4. relayed[c] = <<>> /\ downstream[c] = <<>>
      BY <3>1 DEF TmStream, RelayedWhole
    <3> HIDE DEF c
    <3>5. RelayedWhole'
      BY <3>2 DEF TmStream, RelayedWhole
    <3>6. Len(<<>>) = 0 /\ Start(<<>>, <<>>, 0 + 1) = 0
      BY DEF Start
    <3>7. Held(<<>>, 0, <<>>, <<>>)
      <4>1. <<>> \in Seq(TmByte)
        BY EmptySeq
      <4> QED BY <4>1, HeldAtStart
    <3>8. TmAligned'
      BY <3>2, <3>3, <3>4, <3>6, <3>7 DEF TmAligned
    <3> QED BY <3>5, <3>8 DEF TmStream
  <2>14. ASSUME NEW n \in Nat, ReceiveTm(n) PROVE TmStream'
    <3> DEFINE d == downstream[cur]
               start == Start(relayed[cur], d, cuts + 1)
               way == conn[cur].down
    <3>1. running /\ n \in 1..Len(way) /\ cur \in Clients
      BY <2>14, ClientConn DEF ReceiveTm
    <3>2. way \in Seq(TmByte) /\ buffered \in Seq(TmByte) /\ d \in Seq(TmByte)
      BY <3>1, TmTypes
    <3>3. /\ buffered' = buffered \o First(way, n)
          /\ conn' = [conn EXCEPT ![cur].down = Rest(way, n)]
          /\ UNCHANGED <<accepted, serving, running, cur, cuts, relayed, downstream>>
      BY <2>14 DEF ReceiveTm, bridge, tm
    <3>4. conn'[cur].down = Rest(way, n)
      BY <3>1, <3>3 DEF TypeOK, NetworkType
    <3>5. Held(d, start, buffered, way) /\ n \in 0..Len(way)
      BY <3>1, <3>2 DEF TmStream, TmAligned
    <3> HIDE DEF d, start, way
    <3>6. Held(d, start, buffered \o First(way, n), Rest(way, n))
      BY <3>2, <3>5, HeldMove
    <3>7. RelayedWhole'
      BY <3>3 DEF TmStream, RelayedWhole
    <3>8. TmAligned'
      BY <3>3, <3>4, <3>6 DEF TmStream, TmAligned, d, start
    <3> QED BY <3>7, <3>8 DEF TmStream
  <2>15. CASE ForwardTm
    BY <2>15, CutKeeps DEF ForwardTm, bridge
  <2>16. CASE ForwardTmFails
    BY <2>16, CutKeeps DEF ForwardTmFails, bridge, tm
  <2>17. CASE TmEnds
    BY <2>1, <2>17 DEF TmEnds, bridge, tm
  <2>18. CASE WriteTcFails
    BY <2>1, <2>18 DEF WriteTcFails, bridge, tm
  <2>19. CASE LeaveMain
    BY <2>19, TmStreamKept DEF LeaveMain, bridge, tm
  <2>20. ASSUME NEW f \in TcFrames, WriteTc(f) PROVE TmStream'
    <3>1. running /\ conn'[cur].down = conn[cur].down
      BY <2>20, ClientConn DEF WriteTc, TypeOK, NetworkType
    <3> QED BY <2>1, <2>20, <3>1 DEF WriteTc, bridge, client, tm
  <2>21. CASE UNCHANGED vars
    BY <2>1, <2>21 DEF vars, bridge, client, tm
  <2> QED BY <2>2, <2>3, <2>4, <2>6, <2>7, <2>8, <2>9, <2>10, <2>11, <2>12, <2>13, <2>14, <2>15,
             <2>16, <2>17, <2>18, <2>19, <2>20, <2>21
          DEF Next, BridgeStep, TmStep, TcStep, TypeOK, BridgeType
<1> QED BY <1>1, <1>2, TypeCorrect, PTL DEF Spec

-----------------------------------------------------------------------------
(***************************************************************************)
(* The order of telemetry.  The frames of a process are numbered as it     *)
(* sends them; what was relayed is older than what still waits, and what   *)
(* was forwarded is older than what the client has not cut yet.            *)
(***************************************************************************)
Before(f, g) == f.from = g.from => f.no < g.no

\* The datagrams q that wait at link l, whose process has sent e frames.
Waiting(q, l, e) ==
  /\ \A i \in 1..Len(q) : q[i].from = l /\ q[i].scid = Native /\ q[i].no <= e
  /\ \A i, j \in 1..Len(q) : i < j => q[i].no < q[j].no

\* A frame that was taken from them, and has the id of its process on the wire.
IsTaken(f, q, e) ==
  /\ f.scid = Wire[f.from] /\ f.no <= e
  /\ \A i \in 1..Len(q) : f.no < q[i].no

Taken(f) == IsTaken(f, queue[f.from], emitted[f.from])

Queued == \A l \in Links : Waiting(queue[l], l, emitted[l])

\* The frames of a connection.
InOrder(r) ==
  /\ \A i \in 1..Len(r) : Taken(r[i].f)
  /\ \A i, j \in 1..Len(r) : i < j => Before(r[i].f, r[j].f)

\* A datagram that was sent to the gateway.
IsForwarded(s) ==
  LET f == s[1].f
  IN  f \in TmFrame /\ Taken(f) /\ s = FrameBytes(f, TmSize)

ForwardedInOrder ==
  /\ \A i \in 1..Len(forwarded) : IsForwarded(forwarded[i])
  /\ \A i, j \in 1..Len(forwarded) : i < j => Before(forwarded[i][1].f, forwarded[j][1].f)
  /\ running => \A i \in 1..Len(forwarded) : \A j \in (cuts + 1)..Len(relayed[cur]) :
                  Before(forwarded[i][1].f, relayed[cur][j].f)

TmOrder == Queued /\ (\A c \in Clients : InOrder(relayed[c])) /\ ForwardedInOrder

\* A process sends its next frame, which joins the queue or is lost.
LEMMA EmitOne ==
  ASSUME NEW l \in Links, NEW q \in Seq(TmFrame), NEW e \in Nat, Waiting(q, l, e),
         NEW x \in TmFrame, x.from = l, x.scid = Native, x.no = e + 1
  PROVE  /\ Waiting(q, l, e + 1) /\ Waiting(Append(q, x), l, e + 1)
         /\ \A f \in TmFrame : IsTaken(f, q, e) =>
              IsTaken(f, q, e + 1) /\ IsTaken(f, Append(q, x), e + 1)
<1> DEFINE r == Append(q, x)
           L == Len(q)
<1>1. /\ L \in Nat /\ Len(r) = L + 1 /\ r[L + 1] = x
      /\ \A i \in 1..L : r[i] = q[i]
  BY AppendFacts
<1>2. \A i \in 1..L : q[i].from = l /\ q[i].scid = Native /\ q[i].no <= e /\ q[i].no \in Nat
  <2>1. \A i \in 1..L : q[i] \in TmFrame
    BY ElementOfSeq
  <2> QED BY <2>1 DEF Waiting, TmFrame
<1>3. \A i, j \in 1..L : i < j => q[i].no < q[j].no
  BY DEF Waiting
<1>4. Waiting(q, l, e + 1)
  <2>1. \A i \in 1..L : q[i].no <= e + 1
    BY <1>2
  <2> QED BY <1>2, <1>3, <2>1 DEF Waiting
<1> HIDE DEF r
<1>5. \A i \in 1..(L + 1) : i \in 1..L \/ i = L + 1
  BY <1>1
<1>6. \A i \in 1..(L + 1) : r[i].from = l /\ r[i].scid = Native /\ r[i].no <= e + 1
  BY <1>1, <1>2, <1>5
<1>7. ASSUME NEW i \in 1..(L + 1), NEW j \in 1..(L + 1), i < j PROVE r[i].no < r[j].no
  <2>1. i \in 1..L
    BY <1>1, <1>7
  <2>2. CASE j \in 1..L
    BY <1>1, <1>3, <1>7, <2>1, <2>2
  <2>3. CASE j = L + 1
    BY <1>1, <1>2, <2>1, <2>3
  <2> QED BY <1>5, <2>2, <2>3
<1>8. Waiting(r, l, e + 1)
  BY <1>1, <1>6, <1>7 DEF Waiting
<1>9. ASSUME NEW f \in TmFrame, IsTaken(f, q, e)
      PROVE  IsTaken(f, q, e + 1) /\ IsTaken(f, r, e + 1)
  <2>1. /\ f.no \in Nat /\ f.no <= e /\ f.scid = Wire[f.from]
        /\ \A i \in 1..L : f.no < q[i].no
    BY <1>9 DEF IsTaken, TmFrame
  <2>2. \A i \in 1..(L + 1) : f.no < r[i].no
    BY <1>1, <1>5, <2>1
  <2> QED BY <1>1, <2>1, <2>2 DEF IsTaken
<1> QED BY <1>4, <1>8, <1>9 DEF r

\* The bridge takes the first datagram from the queue.
LEMMA TakeOne ==
  ASSUME NEW l \in Links, NEW q \in Seq(TmFrame), q # <<>>, NEW e \in Nat, Waiting(q, l, e)
  PROVE  /\ Waiting(Tail(q), l, e)
         /\ \A f \in TmFrame : IsTaken(f, q, e) => IsTaken(f, Tail(q), e) /\ f.no < Head(q).no
         /\ Head(q) \in TmFrame
         /\ RewriteTm(l, Head(q)) \in TmFrame
         /\ RewriteTm(l, Head(q)).from = l /\ RewriteTm(l, Head(q)).no = Head(q).no
         /\ IsTaken(RewriteTm(l, Head(q)), Tail(q), e)
<1> DEFINE r == Tail(q)
           L == Len(q)
           g == RewriteTm(l, Head(q))
<1>1. /\ L \in Nat \ {0} /\ Len(r) = L - 1 /\ Head(q) = q[1] /\ Head(q) \in TmFrame
      /\ \A i \in 1..(L - 1) : r[i] = q[i + 1]
  BY TailFacts
<1>2. /\ \A i \in 1..L : q[i].from = l /\ q[i].scid = Native /\ q[i].no <= e
      /\ \A i, j \in 1..L : i < j => q[i].no < q[j].no
  BY DEF Waiting
<1> HIDE DEF r, L
<1>3. 1 \in 1..L /\ \A i \in 1..(L - 1) : i + 1 \in 1..L /\ 1 < i + 1
  BY <1>1
<1>4. Waiting(r, l, e)
  <2>1. \A i, j \in 1..(L - 1) : i < j => i + 1 < j + 1
    BY <1>1
  <2>2. \A i, j \in 1..(L - 1) : i < j => r[i].no < r[j].no
    BY <1>1, <1>2, <1>3, <2>1
  <2> QED BY <1>1, <1>2, <1>3, <2>2 DEF Waiting
<1>5. \A f \in TmFrame : IsTaken(f, q, e) => IsTaken(f, r, e) /\ f.no < Head(q).no
  BY <1>1, <1>3 DEF IsTaken, L
<1>6. Head(q).from = l /\ Head(q).scid = Native /\ Head(q).no <= e
  BY <1>1, <1>2, <1>3
<1>7. g \in TmFrame /\ g.from = l /\ g.no = Head(q).no /\ g.scid = Wire[l]
  BY <1>1, <1>6, RewriteFacts
<1> HIDE DEF g
<1>8. IsTaken(g, r, e)
  BY <1>1, <1>2, <1>3, <1>6, <1>7 DEF IsTaken
<1> QED BY <1>1, <1>4, <1>5, <1>7, <1>8 DEF r, g

\* What was relayed and forwarded stays behind the queue ...
TakenKept == \A f \in TmFrame : Taken(f) => Taken(f)'

\* The frames of each connection stay in order ...
LEMMA InOrderKept ==
  ASSUME TypeOK, TmOrder, TakenKept, UNCHANGED relayed
  PROVE  \A c \in Clients : InOrder(relayed[c])'
<1> SUFFICES ASSUME NEW c \in Clients PROVE InOrder(relayed[c])'
  OBVIOUS
<1>1. relayed[c] \in Seq(TmEntry) /\ InOrder(relayed[c])
  BY TmTypes DEF TmOrder
<1>2. \A i \in 1..Len(relayed[c]) : relayed[c][i].f \in TmFrame
  BY <1>1, TmEntryFacts, EmptySeq
<1> QED BY <1>1, <1>2 DEF InOrder, TakenKept

\* ... and so do those that were forwarded.
LEMMA ForwardedKept ==
  ASSUME TmOrder, TakenKept, NEW i \in 1..Len(forwarded), forwarded'[i] = forwarded[i]
  PROVE  IsForwarded(forwarded[i])'
<1>1. IsForwarded(forwarded[i])
  BY DEF TmOrder, ForwardedInOrder
<1> QED BY <1>1 DEF IsForwarded, TakenKept

\* ... and steps that neither relay nor forward keep the order, though they may end
\* the client or lose what it has cut.
LEMMA TmOrderKept ==
  ASSUME TypeOK, TmOrder, Queued', TakenKept, UNCHANGED <<relayed, forwarded>>,
         running' => running /\ cur' = cur /\ cuts' \in {cuts, cuts + 1}
  PROVE  TmOrder'
<1>1. \A c \in Clients : InOrder(relayed[c])'
  BY InOrderKept
<1>2. \A i \in 1..Len(forwarded') : IsForwarded(forwarded[i])'
  BY ForwardedKept
<1>3. \A i, j \in 1..Len(forwarded') : i < j => Before(forwarded'[i][1].f, forwarded'[j][1].f)
  BY DEF TmOrder, ForwardedInOrder
<1>4. ASSUME running', NEW i \in 1..Len(forwarded'), NEW j \in (cuts' + 1)..Len(relayed'[cur'])
      PROVE  Before(forwarded'[i][1].f, relayed'[cur'][j].f)
  <2>1. running /\ cur' = cur /\ cuts \in Nat /\ cuts' \in {cuts, cuts + 1} /\ Len(relayed[cur]) \in Nat
    BY <1>4, ClientConn, TmTypes
  <2>2. j \in (cuts + 1)..Len(relayed[cur])
    <3>1. Len(relayed'[cur']) = Len(relayed[cur])
      BY <2>1
    <3>2. j \in (cuts' + 1)..Len(relayed[cur])
      BY <3>1
    <3>3. cuts' = cuts \/ cuts' = cuts + 1
      BY <2>1
    <3>4. CASE cuts' = cuts
      BY <3>2, <3>4
    <3>5. CASE cuts' = cuts + 1
      BY <2>1, <3>2, <3>5
    <3> QED BY <3>3, <3>4, <3>5
  <2> QED BY <1>4, <2>1, <2>2 DEF TmOrder, ForwardedInOrder
<1>5. ForwardedInOrder'
  BY <1>2, <1>3, <1>4 DEF ForwardedInOrder
<1> QED BY <1>1, <1>5 DEF TmOrder

\* Nothing changes in the queues.
LEMMA QueuesKept ==
  ASSUME TmOrder, UNCHANGED <<queue, emitted>>
  PROVE  Queued' /\ TakenKept
BY DEF TmOrder, Queued, TakenKept, Taken

\* A datagram is taken from a queue.
LEMMA QueueTaken ==
  ASSUME TypeOK, TmOrder, NEW l \in Links, queue[l] # <<>>,
         queue' = [queue EXCEPT ![l] = Tail(@)], UNCHANGED emitted
  PROVE  LET g == RewriteTm(l, Head(queue[l]))
         IN  /\ Queued' /\ TakenKept
             /\ g \in TmFrame /\ IsTaken(g, queue'[g.from], emitted'[g.from])
             /\ \A f \in TmFrame : Taken(f) => Before(f, g)
<1> DEFINE q == queue[l]
           e == emitted[l]
           g == RewriteTm(l, Head(q))
<1>1. q \in Seq(TmFrame) /\ q # <<>> /\ e \in Nat /\ Waiting(q, l, e)
  BY DEF TypeOK, BridgeType, TmType, TmOrder, Queued
<1>2. queue'[l] = Tail(q) /\ \A k \in Links : k # l => queue'[k] = queue[k]
  BY DEF TypeOK, BridgeType
<1> HIDE DEF q, g
<1>3. /\ Waiting(Tail(q), l, e)
      /\ \A f \in TmFrame : IsTaken(f, q, e) => IsTaken(f, Tail(q), e) /\ f.no < Head(q).no
      /\ g \in TmFrame /\ g.from = l /\ g.no = Head(q).no /\ IsTaken(g, Tail(q), e)
  BY <1>1, TakeOne DEF g
<1>4. Queued'
  <2>1. \A k \in Links : Waiting(queue'[k], k, emitted[k])
    <3>1. ASSUME NEW k \in Links, k # l PROVE Waiting(queue'[k], k, emitted[k])
      BY <1>2, <3>1 DEF TmOrder, Queued
    <3> QED BY <1>2, <1>3, <3>1
  <2> QED BY <2>1 DEF Queued
<1>5. TakenKept
  <2> SUFFICES ASSUME NEW f \in TmFrame, Taken(f)
               PROVE  IsTaken(f, queue'[f.from], emitted'[f.from])
    BY DEF TakenKept, Taken
  <2>1. f.from \in Links /\ IsTaken(f, queue[f.from], emitted[f.from])
    BY DEF TmFrame, Taken
  <2>2. CASE f.from = l
    BY <1>2, <1>3, <2>1, <2>2 DEF q
  <2>3. CASE f.from # l
    BY <1>2, <2>1, <2>3
  <2> QED BY <2>2, <2>3
<1>6. IsTaken(g, queue'[g.from], emitted'[g.from])
  BY <1>2, <1>3
<1>7. \A f \in TmFrame : Taken(f) => Before(f, g)
  BY <1>3 DEF Taken, Before, q
<1> QED BY <1>3, <1>4, <1>5, <1>6, <1>7 DEF g, q

\* Telemetry stays in order on its way from the processes to the gateway.
LEMMA TmOrderHolds == Spec => []TmOrder
<1>1. Init => TmOrder
  <2> SUFFICES ASSUME Init PROVE TmOrder
    OBVIOUS
  <2>1. /\ \A c \in Clients : relayed[c] = <<>>
        /\ \A l \in Links : queue[l] = <<>>
        /\ forwarded = <<>> /\ ~running
    BY DEF Init
  <2>2. Len(<<>>) = 0 /\ \A i \in 1..0 : FALSE
    OBVIOUS
  <2>3. Queued
    BY <2>1, <2>2 DEF Queued, Waiting
  <2>4. \A c \in Clients : InOrder(relayed[c])
    BY <2>1, <2>2 DEF InOrder
  <2>5. ForwardedInOrder
    BY <2>1, <2>2 DEF ForwardedInOrder
  <2> QED BY <2>3, <2>4, <2>5 DEF TmOrder
<1>2. TypeOK /\ TmStream /\ TmOrder /\ [Next]_vars => TmOrder'
  <2> SUFFICES ASSUME TypeOK, TmStream, TmOrder, [Next]_vars PROVE TmOrder'
    OBVIOUS
  <2>1. ASSUME UNCHANGED <<queue, emitted, relayed, forwarded>>,
               running' => running /\ cur' = cur /\ cuts' \in {cuts, cuts + 1}
        PROVE  TmOrder'
    <3>1. Queued' /\ TakenKept
      BY <2>1, QueuesKept
    <3> QED BY <2>1, <3>1, TmOrderKept
  <2>2. ASSUME NEW l \in Links, SendTm(l) PROVE TmOrder'
    <3> DEFINE q == queue[l]
               e == emitted[l]
               x == [scid |-> Native, from |-> l, no |-> e + 1]
    <3>1. q \in Seq(TmFrame) /\ e \in Nat /\ Waiting(q, l, e)
      BY DEF TypeOK, BridgeType, TmType, TmOrder, Queued
    <3>2. x \in TmFrame /\ x.from = l /\ x.scid = Native /\ x.no = e + 1
      BY <3>1 DEF TmFrame
    <3>3. /\ emitted' = [emitted EXCEPT ![l] = e + 1]
          /\ queue' = [queue EXCEPT ![l] = Append(q, x)] \/ queue' = queue
          /\ UNCHANGED <<relayed, forwarded, running, cur, cuts>>
      BY <2>2 DEF SendTm, client
    <3>4. /\ emitted'[l] = e + 1 /\ queue'[l] \in {q, Append(q, x)}
          /\ \A k \in Links : k # l => queue'[k] = queue[k] /\ emitted'[k] = emitted[k]
      BY <3>3 DEF TypeOK, BridgeType, TmType
    <3> HIDE DEF q, e, x
    <3>5. /\ Waiting(q, l, e + 1) /\ Waiting(Append(q, x), l, e + 1)
          /\ \A f \in TmFrame : IsTaken(f, q, e) =>
               IsTaken(f, q, e + 1) /\ IsTaken(f, Append(q, x), e + 1)
      BY <3>1, <3>2, EmitOne
    <3>6. Queued'
      <4>1. ASSUME NEW k \in Links PROVE Waiting(queue'[k], k, emitted'[k])
        <5>1. CASE k = l
          BY <3>4, <3>5, <5>1
        <5>2. CASE k # l
          BY <3>4, <5>2 DEF TmOrder, Queued
        <5> QED BY <5>1, <5>2
      <4> QED BY <4>1 DEF Queued
    <3>7. TakenKept
      <4> SUFFICES ASSUME NEW f \in TmFrame, Taken(f)
                   PROVE  IsTaken(f, queue'[f.from], emitted'[f.from])
        BY DEF TakenKept, Taken
      <4>1. f.from \in Links /\ IsTaken(f, queue[f.from], emitted[f.from])
        BY DEF TmFrame, Taken
      <4>2. CASE f.from = l
        <5>1. IsTaken(f, q, e)
          BY <4>1, <4>2 DEF q, e
        <5> QED BY <3>4, <3>5, <4>2, <5>1
      <4>3. CASE f.from # l
        BY <3>4, <4>1, <4>3
      <4> QED BY <4>2, <4>3
    <3> QED BY <3>3, <3>6, <3>7, TmOrderKept
  <2>3. CASE Accept
    BY <2>1, <2>3 DEF Accept, client, tm
  <2>4. ASSUME NEW l \in Links, RelayTm(l) PROVE TmOrder'
    <3> DEFINE g == RewriteTm(l, Head(queue[l]))
               r == relayed[accepted]
               entry == [f |-> g, at |-> Len(downstream[accepted])]
    <3>1. /\ accepted \in Clients /\ queue[l] # <<>>
          /\ queue' = [queue EXCEPT ![l] = Tail(@)]
          /\ relayed' = [relayed EXCEPT ![accepted] = Append(r, entry)]
          /\ UNCHANGED <<emitted, forwarded, running, cur, cuts>>
      BY <2>4, ServedConn DEF RelayTm, Selecting, client
    <3>2. /\ Queued' /\ TakenKept
          /\ g \in TmFrame /\ IsTaken(g, queue'[g.from], emitted'[g.from])
          /\ \A f \in TmFrame : Taken(f) => Before(f, g)
      BY <3>1, QueueTaken
    <3>3. r \in Seq(TmEntry) /\ entry \in TmEntry /\ entry.f = g
      <4>1. r \in Seq(TmEntry) /\ downstream[accepted] \in Seq(TmByte)
        BY <3>1, TmTypes
      <4>2. Len(downstream[accepted]) \in Nat
        BY <4>1
      <4> QED BY <3>2, <4>1, <4>2 DEF TmEntry
    <3> HIDE DEF g, entry
    <3>4. /\ relayed'[accepted] = Append(r, entry)
          /\ \A c \in Clients : c # accepted => relayed'[c] = relayed[c]
      BY <3>1 DEF TypeOK, TmType
    <3> DEFINE v == Append(r, entry)
               N == Len(r)
    <3>5. /\ N \in Nat /\ Len(v) = N + 1 /\ v[N + 1] = entry
          /\ \A i \in 1..N : v[i] = r[i]
      BY <3>3, AppendFacts
    <3>6. \A i \in 1..N : r[i].f \in TmFrame /\ Taken(r[i].f)
      <4>1. \A i \in 1..N : r[i] \in TmEntry
        BY <3>3, ElementOfSeq
      <4>2. InOrder(r)
        BY <3>1 DEF TmOrder
      <4> QED BY <4>1, <4>2 DEF TmEntry, InOrder
    <3>7. \A i, j \in 1..N : i < j => Before(r[i].f, r[j].f)
      BY <3>1 DEF TmOrder, InOrder
    <3> HIDE DEF r, v
    <3>8. \A i \in 1..(N + 1) : i \in 1..N \/ i = N + 1
      BY <3>5
    <3>9. InOrder(relayed[accepted])'
      <4>1. ASSUME NEW i \in 1..(N + 1)
            PROVE  IsTaken(v[i].f, queue'[v[i].f.from], emitted'[v[i].f.from])
        <5>1. CASE i \in 1..N
          <6>1. r[i].f \in TmFrame /\ Taken(r[i].f)
            BY <3>6, <5>1
          <6>2. IsTaken(r[i].f, queue'[r[i].f.from], emitted'[r[i].f.from])
            BY <3>2, <6>1 DEF TakenKept, Taken
          <6> QED BY <3>5, <5>1, <6>2
        <5>2. CASE i = N + 1
          BY <3>2, <3>3, <3>5, <5>2
        <5> QED BY <3>8, <5>1, <5>2
      <4>2. ASSUME NEW i \in 1..(N + 1), NEW j \in 1..(N + 1), i < j PROVE Before(v[i].f, v[j].f)
        <5>1. i \in 1..N
          BY <3>5, <4>2
        <5>2. CASE j \in 1..N
          BY <3>5, <3>7, <4>2, <5>1, <5>2
        <5>3. CASE j = N + 1
          BY <3>2, <3>3, <3>5, <3>6, <5>1, <5>3
        <5> QED BY <3>8, <5>2, <5>3
      <4>3. relayed'[accepted'] = v /\ Len(v) = N + 1
        <5>1. accepted' = accepted
          BY <2>4 DEF RelayTm
        <5> QED BY <3>4, <3>5, <5>1 DEF v
      <4> QED BY <4>1, <4>2, <4>3 DEF InOrder, Taken
    <3>10. \A c \in Clients : InOrder(relayed[c])'
      <4>1. ASSUME NEW c \in Clients, c # accepted PROVE InOrder(relayed[c])'
        <5>1. relayed'[c] = relayed[c] /\ InOrder(relayed[c]) /\ relayed[c] \in Seq(TmEntry)
          BY <3>4, <4>1, TmTypes DEF TmOrder
        <5>2. \A i \in 1..Len(relayed[c]) : relayed[c][i].f \in TmFrame
          BY <5>1, EmptySeq, TmEntryFacts
        <5> QED BY <3>2, <5>1, <5>2 DEF InOrder, TakenKept, Taken
      <4>2. accepted' = accepted
        BY <2>4 DEF RelayTm
      <4> QED BY <3>9, <4>1, <4>2
    <3>11. ForwardedInOrder'
      <4>1. \A i \in 1..Len(forwarded') : IsForwarded(forwarded[i])'
        BY <3>1, <3>2, ForwardedKept
      <4>2. \A i, j \in 1..Len(forwarded') : i < j => Before(forwarded'[i][1].f, forwarded'[j][1].f)
        BY <3>1 DEF TmOrder, ForwardedInOrder
      <4>3. ASSUME running, NEW i \in 1..Len(forwarded), NEW j \in (cuts + 1)..Len(relayed'[cur])
            PROVE  Before(forwarded[i][1].f, relayed'[cur][j].f)
        <5>1. cur \in Clients /\ cuts \in Nat
          BY <4>3, ClientConn, TmTypes
        <5>2. \A k \in (cuts + 1)..Len(relayed[cur]) : Before(forwarded[i][1].f, relayed[cur][k].f)
          BY <4>3 DEF TmOrder, ForwardedInOrder
        <5>3. CASE cur # accepted
          BY <3>4, <5>1, <5>2, <5>3
        <5>4. CASE cur = accepted
          <6>1. j \in (cuts + 1)..(N + 1)
            BY <3>4, <3>5, <5>4 DEF v
          <6>2. CASE j \in (cuts + 1)..N
            <7>1. relayed'[cur][j] = r[j] /\ j \in 1..N
              BY <3>4, <3>5, <5>1, <5>4, <6>2 DEF v
            <7>2. Before(forwarded[i][1].f, r[j].f)
              BY <5>2, <5>4, <6>2 DEF r
            <7> QED BY <7>1, <7>2
          <6>3. CASE j = N + 1
            <7>1. relayed'[cur][j].f = g
              BY <3>3, <3>4, <3>5, <5>4, <6>3 DEF v
            <7>2. IsForwarded(forwarded[i])
              BY DEF TmOrder, ForwardedInOrder
            <7>3. Before(forwarded[i][1].f, g)
              BY <3>2, <7>2 DEF IsForwarded
            <7> QED BY <7>1, <7>3
          <6> QED BY <3>5, <5>1, <6>1, <6>2, <6>3
        <5> QED BY <5>3, <5>4
      <4> QED BY <3>1, <4>1, <4>2, <4>3 DEF ForwardedInOrder
    <3> QED BY <3>2, <3>10, <3>11 DEF TmOrder
  <2>5. ASSUME NEW l \in Links, RelayTmFails(l) PROVE TmOrder'
    <3>1. /\ queue[l] # <<>> /\ queue' = [queue EXCEPT ![l] = Tail(@)]
          /\ UNCHANGED <<emitted, relayed, forwarded, running, cur, cuts>>
      BY <2>5 DEF RelayTmFails, client, tm
    <3>2. Queued' /\ TakenKept
      BY <3>1, QueueTaken
    <3> QED BY <3>1, <3>2, TmOrderKept
  <2>6. CASE SendTcFails
    BY <2>1, <2>6 DEF SendTcFails, client, tm
  <2>7. CASE ClientGone
    BY <2>1, <2>7 DEF ClientGone, client, tm
  <2>8. ASSUME NEW n \in Nat, ReceiveTc(n) PROVE TmOrder'
    BY <2>1, <2>8 DEF ReceiveTc, client, tm
  <2>9. CASE PopFrame
    BY <2>1, <2>9 DEF PopFrame, client, tm
  <2>10. CASE PopEnds
    BY <2>1, <2>10 DEF PopEnds, client, tm
  <2>11. CASE SendTc
    BY <2>1, <2>11 DEF SendTc, client, tm
  <2>12. CASE StartClient
    <3> DEFINE c == cur + 1
    <3>1. c \in Clients /\ c > accepted
      BY <2>12, ConstantFacts DEF StartClient, TypeOK, BridgeType, ClientType, Clients
    <3>2. cur' = c /\ cuts' = 0 /\ UNCHANGED <<queue, emitted, relayed, forwarded>>
      BY <2>12 DEF StartClient, bridge, tm
    <3>3. relayed[c] = <<>>
      BY <3>1 DEF TmStream, RelayedWhole
    <3> HIDE DEF c
    <3>4. Queued' /\ TakenKept
      BY <3>2, QueuesKept
    <3>5. \A b \in Clients : InOrder(relayed[b])'
      BY <3>2, <3>4, InOrderKept
    <3>6. \A i \in 1..Len(forwarded') : IsForwarded(forwarded[i])'
      BY <3>2, <3>4, ForwardedKept
    <3>7. \A i, j \in 1..Len(forwarded') : i < j => Before(forwarded'[i][1].f, forwarded'[j][1].f)
      BY <3>2 DEF TmOrder, ForwardedInOrder
    <3>8. \A j \in (cuts' + 1)..Len(relayed'[cur']) : FALSE
      <4>1. relayed'[cur'] = <<>> /\ cuts' = 0
        BY <3>2, <3>3
      <4>2. Len(relayed'[cur']) = 0
        BY <4>1
      <4> QED BY <4>1, <4>2
    <3>9. ForwardedInOrder'
      BY <3>6, <3>7, <3>8 DEF ForwardedInOrder
    <3> QED BY <3>4, <3>5, <3>9 DEF TmOrder
  <2>13. ASSUME NEW n \in Nat, ReceiveTm(n) PROVE TmOrder'
    BY <2>1, <2>13 DEF ReceiveTm, bridge, tm
  <2>14. CASE ForwardTm
    <3> DEFINE F == forwarded
               N == Len(F)
               s == First(buffered, TmSize)
               r == relayed[cur]
               g == r[cuts + 1].f
    <3>1. /\ running /\ Len(buffered) >= TmSize
          /\ forwarded' = Append(F, s) /\ cuts' = cuts + 1
          /\ UNCHANGED <<queue, emitted, relayed, running, cur>>
      BY <2>14 DEF ForwardTm, Cut, bridge
    <3>2. cur \in Clients /\ cuts + 1 \in 1..Len(r) /\ s = FrameBytes(g, TmSize)
      BY <3>1, CutFacts
    <3>3. /\ cuts \in Nat /\ r \in Seq(TmEntry) /\ Len(r) \in Nat /\ F \in Seq(Seq(TmByte))
      BY <3>2, TmTypes DEF TypeOK, TmType
    <3>4. g \in TmFrame
      BY <3>2, <3>3, EmptySeq, TmEntryFacts
    <3>5. Taken(g) /\ \A j \in 1..Len(r) : cuts + 1 < j => Before(g, r[j].f)
      BY <3>2 DEF TmOrder, InOrder
    <3>6. \A i \in 1..N : \A j \in (cuts + 1)..Len(r) : Before(F[i][1].f, r[j].f)
      BY <3>1 DEF TmOrder, ForwardedInOrder
    <3>7. \A i, j \in 1..N : i < j => Before(F[i][1].f, F[j][1].f)
      BY DEF TmOrder, ForwardedInOrder
    <3> HIDE DEF g, s
    <3>8. s \in Seq(TmByte) /\ s[1].f = g
      <4>1. 1 \in 1..TmSize
        BY ConstantFacts
      <4>2. s \in Seq(TmByte) /\ s[1] = [f |-> g, k |-> 1]
        BY <3>2, <3>4, <4>1, TmBytes
      <4> QED BY <4>2
    <3> DEFINE G == Append(F, s)
    <3>9. /\ N \in Nat /\ Len(G) = N + 1 /\ G[N + 1] = s
          /\ \A i \in 1..N : G[i] = F[i]
      BY <3>3, <3>8, AppendFacts
    <3>10. Queued' /\ TakenKept
      BY <3>1, QueuesKept
    <3>11. \A c \in Clients : InOrder(relayed[c])'
      BY <3>1, <3>10, InOrderKept
    <3> HIDE DEF F, G, r
    <3>12. \A i \in 1..(N + 1) : i \in 1..N \/ i = N + 1
      BY <3>9
    <3>13. forwarded' = G /\ Len(forwarded') = N + 1
      BY <3>1, <3>9 DEF G
    <3>14. ASSUME NEW i \in 1..(N + 1) PROVE IsForwarded(forwarded[i])'
      <4>1. CASE i \in 1..N
        <5>1. forwarded'[i] = forwarded[i] /\ i \in 1..Len(forwarded)
          BY <3>9, <3>13, <4>1 DEF F
        <5> QED BY <3>10, <5>1, ForwardedKept
      <4>2. CASE i = N + 1
        <5>1. forwarded'[i] = s
          BY <3>9, <3>13, <4>2
        <5>2. IsTaken(g, queue'[g.from], emitted'[g.from])
          BY <3>1, <3>5 DEF Taken
        <5> QED BY <3>2, <3>4, <3>8, <5>1, <5>2 DEF IsForwarded, Taken
      <4> QED BY <3>12, <4>1, <4>2
    <3>15. ASSUME NEW i \in 1..(N + 1), NEW j \in 1..(N + 1), i < j
           PROVE  Before(G[i][1].f, G[j][1].f)
      <4>1. i \in 1..N
        BY <3>9, <3>15
      <4>2. CASE j \in 1..N
        BY <3>7, <3>9, <3>15, <4>1, <4>2
      <4>3. CASE j = N + 1
        <5>1. cuts + 1 \in (cuts + 1)..Len(r)
          BY <3>2, <3>3
        <5>2. Before(F[i][1].f, g)
          BY <3>6, <4>1, <5>1 DEF g
        <5> QED BY <3>8, <3>9, <4>1, <4>3, <5>2
      <4> QED BY <3>12, <4>2, <4>3
    <3>16. ASSUME NEW i \in 1..(N + 1), NEW j \in (cuts + 2)..Len(r)
           PROVE  Before(G[i][1].f, r[j].f)
      <4>1. j \in (cuts + 1)..Len(r) /\ j \in 1..Len(r) /\ cuts + 1 < j
        BY <3>3, <3>16
      <4>2. CASE i \in 1..N
        BY <3>6, <3>9, <4>1, <4>2
      <4>3. CASE i = N + 1
        BY <3>5, <3>8, <3>9, <4>1, <4>3
      <4> QED BY <3>12, <4>2, <4>3
    <3>17. ForwardedInOrder'
      <4>1. \A i \in 1..Len(forwarded') : IsForwarded(forwarded[i])'
        BY <3>13, <3>14
      <4>2. \A i, j \in 1..Len(forwarded') : i < j => Before(forwarded'[i][1].f, forwarded'[j][1].f)
        BY <3>13, <3>15
      <4>3. relayed'[cur'] = r /\ cuts' + 1 = cuts + 2
        BY <3>1, <3>3 DEF r
      <4>4. \A i \in 1..Len(forwarded') : \A j \in (cuts' + 1)..Len(relayed'[cur']) :
              Before(forwarded'[i][1].f, relayed'[cur'][j].f)
        BY <3>13, <3>16, <4>3
      <4> QED BY <4>1, <4>2, <4>4 DEF ForwardedInOrder
    <3> QED BY <3>10, <3>11, <3>17 DEF TmOrder
  <2>15. CASE ForwardTmFails
    BY <2>1, <2>15 DEF ForwardTmFails, Cut, bridge, tm
  <2>16. CASE TmEnds
    BY <2>1, <2>16 DEF TmEnds, bridge, tm
  <2>17. CASE WriteTcFails
    BY <2>1, <2>17 DEF WriteTcFails, bridge, tm
  <2>18. CASE LeaveMain
    BY <2>1, <2>18 DEF LeaveMain, bridge, tm
  <2>19. ASSUME NEW f \in TcFrames, WriteTc(f) PROVE TmOrder'
    BY <2>1, <2>19 DEF WriteTc, bridge, client, tm
  <2>20. CASE UNCHANGED vars
    BY <2>1, <2>20 DEF vars, bridge, client, tm
  <2> QED BY <2>2, <2>3, <2>4, <2>5, <2>6, <2>7, <2>8, <2>9, <2>10, <2>11, <2>12, <2>13, <2>14,
             <2>15, <2>16, <2>17, <2>18, <2>19, <2>20
          DEF Next, BridgeStep, TmStep, TcStep, TypeOK, BridgeType
<1> QED BY <1>1, <1>2, TypeCorrect, TmStreamHolds, PTL DEF Spec

\* Every datagram that goes to the gateway is one whole frame of one process under
\* its id on the wire, and those of each process arrive once and in order: for any
\* frame length and room in the socket, any cuts of the stream, sessions that end
\* inside a frame, and clients that start again.
THEOREM TmFaithfulHolds == Spec => []TmFaithful
<1>1. TypeOK /\ TmOrder => TmFaithful
  BY DEF TmOrder, ForwardedInOrder, IsForwarded, Taken, IsTaken, Before, TmFaithful
<1> QED BY <1>1, TypeCorrect, TmOrderHolds, PTL

-----------------------------------------------------------------------------
\* A client in either mode: whatever main() starts, the serial part is a TmScanner and
\* the tcp part a TcpLink, so that what is proved of the two holds of the client.
THEOREM ClientIsBoth == ClientSpec => ScannerSpec /\ Spec
<1>1. ClientInit => ScannerInit /\ Init
  BY DEF ClientInit
<1>2. [Serial \/ Tcp]_clientVars => [ScannerNext]_scannerVars /\ [Next]_vars
  <2> SUFFICES ASSUME [Serial \/ Tcp]_clientVars
               PROVE  [ScannerNext]_scannerVars /\ [Next]_vars
    OBVIOUS
  <2>1. CASE Serial
    BY <2>1 DEF Serial
  <2>2. CASE Tcp
    BY <2>2 DEF Tcp
  <2>3. CASE UNCHANGED clientVars
    BY <2>3 DEF clientVars
  <2> QED BY <2>1, <2>2, <2>3
<1> QED BY <1>1, <1>2, PTL DEF ClientSpec, ScannerSpec, Spec

\* Telecommands and datagrams of a client in either mode, the properties above.
COROLLARY ClientIsFaithful == ClientSpec => [](TcFaithful /\ TmFaithful)
BY ClientIsBoth, TcFaithfulHolds, TmFaithfulHolds, PTL
=============================================================================
