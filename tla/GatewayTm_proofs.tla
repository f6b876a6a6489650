-------------------------- MODULE GatewayTm_proofs --------------------------
(***************************************************************************)
(* Proofs about GatewayTm, for every set of frames and instances, every    *)
(* window and any number of copies, failures and restarts: what the        *)
(* deduper remembers is the truth about what was accepted and sent, every  *)
(* frame accepted is accounted for, and the telemetry path implements      *)
(* TmFeed.                                                                 *)
(***************************************************************************)
EXTENDS GatewayTm, FiniteSetTheorems, WellFoundedInduction, TLAPS

-----------------------------------------------------------------------------
\* The facts about the constants that the proofs below use, by themselves.
LEMMA ConstantFacts ==
  /\ Window \in Nat
  /\ None \notin Nat /\ None \notin Frames
  /\ Route \in [Frames -> Instances \cup {None}]
BY GatewayTmAssumption DEF GatewayTmAssumption

\* A frame in hand is told from none.
LEMMA FrameIsNotNone == None \notin [f : Frames, pc : {"send", "count"}]
BY GatewayTmAssumption, Zenon DEF GatewayTmAssumption

\* Ages stay within their cap, and an age that is within the window after a tick
\* was within it before.
LEMMA OlderFacts ==
  ASSUME NEW age \in Ages
  PROVE  /\ Older(age) \in Ages
         /\ Older(age) <= Window => age <= Window
         /\ age > Window => Older(age) = age
         /\ age <= Window => Older(age) = age + 1
  BY ConstantFacts DEF Older, Ages, Long

\* Spending one event of a kind leaves every count a natural number.
LEMMA SpendType ==
  ASSUME used \in [Kinds -> Nat], NEW kind \in Kinds, Spend(kind)
  PROVE  used' \in [Kinds -> Nat]
  BY DEF Spend

\* What _expire leaves is part of what was remembered.
LEMMA ExpiredType == ASSUME TypeOK PROVE Expired \in [Frames -> Ages \cup {None}]
  BY DEF TypeOK, Expired

-----------------------------------------------------------------------------
\* Type correctness: whatever the network and the thread of _udp_loop do, the
\* deduper, its stamps and the counters have their declared shape.
THEOREM TypeCorrect == Spec => []TypeOK
<1>1. Init => TypeOK
  BY ConstantFacts DEF Init, TypeOK, Ages, Long
<1>2. TypeOK /\ [Next]_vars => TypeOK'
  <2> SUFFICES ASSUME TypeOK, [Next]_vars PROVE TypeOK'
    OBVIOUS
  <2>1. CASE Tick
    <3>1. seen' \in [Frames -> Ages \cup {None}]
      BY <2>1, OlderFacts DEF Tick, TypeOK
    <3>2. since' \in [Frames -> Ages]
      BY <2>1, OlderFacts DEF Tick, TypeOK
    <3> QED
      BY <2>1, <3>1, <3>2 DEF Tick, TypeOK, countVars
  <2>2. ASSUME NEW f \in Frames, StationSends(f) PROVE TypeOK'
    <3>1. used' \in [Kinds -> Nat]
      BY <2>2, SpendType DEF StationSends, Kinds, TypeOK
    <3> QED
      BY <2>2, <3>1 DEF StationSends, TypeOK, dedupVars, countVars, feedVars
  <2>3. ASSUME NEW f \in Frames, CopyLost(f) PROVE TypeOK'
    BY <2>3 DEF CopyLost, TypeOK, dedupVars, countVars, feedVars
  <2>4. ASSUME NEW f \in Frames, DropUnknown(f) PROVE TypeOK'
    BY <2>4 DEF DropUnknown, Received, TypeOK, dedupVars, feedVars
  <2>5. ASSUME NEW f \in Frames, DropDuplicate(f) PROVE TypeOK'
    <3>1. seen' \in [Frames -> Ages \cup {None}]
      BY <2>5, ExpiredType DEF DropDuplicate
    <3>2. copies' \in [Frames -> Nat] /\ duplicates' \in Nat
      BY <2>5 DEF DropDuplicate, Received, TypeOK
    <3> QED
      BY <2>5, <3>1, <3>2 DEF DropDuplicate, TypeOK, countVars, feedVars
  <2>6. ASSUME NEW f \in Frames, Accept(f) PROVE TypeOK'
    <3>1. 0 \in Ages
      BY ConstantFacts DEF Ages, Long
    <3>2. seen' \in [Frames -> Ages \cup {None}]
      BY <2>6, <3>1, ExpiredType DEF Accept
    <3>3. since' \in [Frames -> Ages]
      BY <2>6, <3>1 DEF Accept, TypeOK
    <3>6. passed' \in [Frames -> Nat]
      BY <2>6 DEF Accept, TypeOK
    <3>4. tm' \in [f : Frames, pc : {"send", "count"}]
      BY <2>6 DEF Accept
    <3>5. copies' \in [Frames -> Nat] /\ accepted' \in Nat /\ sent' \subseteq Frames
      BY <2>6 DEF Accept, Received, TypeOK
    <3> QED
      BY <2>6, <3>2, <3>3, <3>4, <3>5, <3>6 DEF Accept, Received, TypeOK, countVars
  <2>7. CASE Send
    <3>1. tm \in [f : Frames, pc : {"send", "count"}]
      BY <2>7 DEF Send, TypeOK
    <3> QED
      BY <2>7, <3>1 DEF Send, TypeOK, dedupVars, countVars, feedVars
  <2>8. CASE SendError
    <3>1. used' \in [Kinds -> Nat]
      BY <2>8, SpendType DEF SendError, Kinds, TypeOK
    <3> QED
      BY <2>8, <3>1 DEF SendError, TypeOK, dedupVars, countVars, feedVars
  <2>9. CASE Count
    <3>1. tmAccepted' \in [Instances -> Nat]
      <4> DEFINE inst == Route[tm.f]
      <4>1. tmAccepted' = [tmAccepted EXCEPT ![inst] = @ + 1]
        BY <2>9 DEF Count
      <4>2. tmAccepted \in [Instances -> Nat]
        BY DEF TypeOK
      <4> HIDE DEF inst
      <4>3. CASE inst \in Instances
        BY <4>1, <4>2, <4>3
      <4>4. CASE inst \notin Instances
        BY <4>1, <4>2, <4>4
      <4> QED
        BY <4>3, <4>4
    <3> QED
      BY <2>9, <3>1 DEF Count, TypeOK, dedupVars, feedVars
  <2>10. CASE Restart
    <3>1. used' \in [Kinds -> Nat]
      BY <2>10, SpendType DEF Restart, Kinds, TypeOK
    <3>2. Long \in Ages
      BY ConstantFacts DEF Ages, Long
    <3> QED
      BY <2>10, <3>1, <3>2 DEF Restart, TypeOK
  <2>11. CASE UNCHANGED vars
    BY <2>11 DEF vars, dedupVars, countVars, feedVars, TypeOK
  <2> QED
    BY <2>1, <2>2, <2>3, <2>4, <2>5, <2>6, <2>7, <2>8, <2>9, <2>10, <2>11
       DEF Next, Network, Ingest
<1> QED
  BY <1>1, <1>2, PTL DEF Spec

-----------------------------------------------------------------------------
(***************************************************************************)
(* What the deduper remembers.  A step lets time pass, expires old entries *)
(* on a duplicate, accepts a frame, forgets everything, or leaves both the *)
(* deduper and its history alone.                                          *)
(***************************************************************************)

\* Every step is one of those five.
LEMMA DedupStep ==
  ASSUME [Next]_vars
  PROVE  \/ Tick
         \/ \E f \in Frames : DropDuplicate(f)
         \/ \E f \in Frames : Accept(f)
         \/ Restart
         \/ UNCHANGED <<seen, since, passed>>
  BY DEF Next, Network, StationSends, CopyLost, Ingest, DropUnknown, Send, SendError,
     Count, vars, dedupVars, feedVars

\* The deduper remembers how long ago each content was accepted, and forgets only
\* contents accepted more than a window ago: _expire and accept agree about it.
THEOREM SeenIsTheTruth == Spec => []SeenIsSince
<1>1. Init => SeenIsSince
  BY ConstantFacts DEF Init, SeenIsSince, Long
<1>2. TypeOK /\ SeenIsSince /\ [Next]_vars => SeenIsSince'
  <2> SUFFICES ASSUME TypeOK, SeenIsSince, [Next]_vars,
                      NEW g \in Frames
               PROVE  IF seen'[g] = None THEN since'[g] > Window
                                         ELSE seen'[g] = since'[g]
    BY DEF SeenIsSince
  <2>0. /\ since[g] \in Ages /\ seen[g] \in Ages \cup {None}
        /\ IF seen[g] = None THEN since[g] > Window ELSE seen[g] = since[g]
    BY DEF TypeOK, SeenIsSince
  <2>1. CASE Tick
    <3>1. since'[g] = Older(since[g])
      BY <2>1 DEF Tick
    <3>2. seen'[g] = IF seen[g] = None THEN None ELSE Older(seen[g])
      BY <2>1 DEF Tick
    <3>3. Older(since[g]) \in Ages /\ None \notin Ages
      BY <2>0, OlderFacts, ConstantFacts DEF Ages
    <3>4. since[g] > Window => Older(since[g]) = since[g]
      BY <2>0, OlderFacts
    <3> QED
      BY <2>0, <3>1, <3>2, <3>3, <3>4
  <2>2. ASSUME NEW f \in Frames, DropDuplicate(f)
        PROVE  IF seen'[g] = None THEN since'[g] > Window ELSE seen'[g] = since'[g]
    <3>1. seen'[g] = IF seen[g] = None \/ seen[g] > Window THEN None ELSE seen[g]
      BY <2>2 DEF DropDuplicate, Expired
    <3>2. since'[g] = since[g]
      BY <2>2 DEF DropDuplicate, feedVars
    <3> QED
      BY <2>0, <3>1, <3>2, ConstantFacts DEF Ages, Long
  <2>3. ASSUME NEW f \in Frames, Accept(f)
        PROVE  IF seen'[g] = None THEN since'[g] > Window ELSE seen'[g] = since'[g]
    <3>1. seen'[g] = IF g = f THEN 0
                     ELSE IF seen[g] = None \/ seen[g] > Window THEN None ELSE seen[g]
      BY <2>3 DEF Accept, Expired
    <3>2. since'[g] = IF g = f THEN 0 ELSE since[g]
      BY <2>3 DEF Accept, TypeOK
    <3> QED
      BY <2>0, <3>1, <3>2, ConstantFacts DEF Ages, Long
  <2>4. CASE Restart
    BY <2>4, ConstantFacts DEF Restart, Long
  <2>5. CASE UNCHANGED <<seen, since, passed>>
    BY <2>0, <2>5
  <2> QED
    BY <2>1, <2>2, <2>3, <2>4, <2>5, DedupStep
<1> QED
  BY <1>1, <1>2, TypeCorrect, PTL DEF Spec

\* While its thread runs, the gateway drops as a duplicate only content that it
\* passed to Yamcs: the stamp that accept leaves before sendto outlives a failed
\* sendto only in a gateway that has stopped to receive.
THEOREM SeenWasSentAlways == Spec => []SeenWasSent
<1>1. Init => SeenWasSent
  BY DEF Init, SeenWasSent, Within, Expired
<1>2. TypeOK /\ SeenWasSent /\ [Next]_vars => SeenWasSent'
  <2> SUFFICES ASSUME TypeOK, SeenWasSent, [Next]_vars, tmAlive',
                      NEW g \in Frames, Within(g)'
               PROVE  g \in sent' \/ tm' = [f |-> g, pc |-> "send"]
    BY DEF SeenWasSent
  <2>1. CASE Tick
    <3>1. Within(g)
      <4>1. seen[g] \in Ages \cup {None}
        BY DEF TypeOK
      <4>2. seen'[g] = IF seen[g] = None THEN None ELSE Older(seen[g])
        BY <2>1 DEF Tick
      <4>3. seen[g] # None /\ Older(seen[g]) <= Window
        BY <4>2 DEF Within, Expired
      <4> QED
        BY <4>1, <4>3, OlderFacts, ConstantFacts DEF Within, Expired, Ages, Long
    <3> QED
      BY <2>1, <3>1 DEF Tick, SeenWasSent
  <2>2. ASSUME NEW f \in Frames, DropDuplicate(f)
        PROVE  g \in sent' \/ tm' = [f |-> g, pc |-> "send"]
    <3>1. Within(g)
      BY <2>2 DEF DropDuplicate, Expired, Within
    <3> QED
      BY <2>2, <3>1 DEF DropDuplicate, SeenWasSent
  <2>3. ASSUME NEW f \in Frames, Accept(f)
        PROVE  g \in sent' \/ tm' = [f |-> g, pc |-> "send"]
    <3>1. CASE g = f
      BY <2>3, <3>1 DEF Accept
    <3>2. CASE g # f
      <4>1. Within(g)
        BY <2>3, <3>2, ExpiredType DEF Accept, Expired, Within
      <4>2. tm = None /\ tmAlive
        BY <2>3 DEF Accept, Received
      <4>3. tm # [f |-> g, pc |-> "send"]
        BY <4>2, FrameIsNotNone
      <4>4. g \in sent
        BY <4>1, <4>2, <4>3 DEF SeenWasSent
      <4> QED
        BY <2>3, <3>2, <4>4 DEF Accept
    <3> QED
      BY <3>1, <3>2
  <2>4. CASE Send
    BY <2>4 DEF Send, SeenWasSent, Within, Expired, dedupVars
  <2>5. CASE SendError
    BY <2>5 DEF SendError
  <2>6. CASE Count
    BY <2>6 DEF Count, SeenWasSent, Within, Expired, dedupVars
  <2>7. CASE Restart
    BY <2>7 DEF Restart, Within, Expired
  <2>8. ASSUME NEW f \in Frames, StationSends(f) \/ CopyLost(f) \/ DropUnknown(f)
        PROVE  g \in sent' \/ tm' = [f |-> g, pc |-> "send"]
    BY <2>8 DEF StationSends, CopyLost, DropUnknown, SeenWasSent, Within, Expired, dedupVars
  <2>9. CASE UNCHANGED vars
    BY <2>9 DEF vars, dedupVars, SeenWasSent, Within, Expired
  <2> QED
    BY <2>1, <2>2, <2>3, <2>4, <2>5, <2>6, <2>7, <2>8, <2>9 DEF Next, Network, Ingest
<1> QED
  BY <1>1, <1>2, TypeCorrect, PTL DEF Spec

-----------------------------------------------------------------------------
(***************************************************************************)
(* The sum over all instances.  The fold picks one instance after another; *)
(* whatever it picks, it counts the units of the numbers it adds, and sets *)
(* of units can be compared.                                               *)
(***************************************************************************)

\* A set of natural numbers has a least element.
LEMMA Least ==
  ASSUME NEW T \in SUBSET Nat, T # {}
  PROVE  \E n \in T : \A m \in T : n <= m
<1> DEFINE R == OpToRel(<, Nat)
<1>1. IsWellFoundedOn(R, Nat)
  BY NatLessThanWellFounded
<1>2. \A m, n \in Nat : m < n => <<m, n>> \in R
  BY DEF OpToRel
<1> HIDE DEF R
<1>3. PICK n \in T : \A m \in T : ~ (<<m, n>> \in R)
  BY <1>1, WFMin
<1>4. \A m \in T : ~ (m < n)
  BY <1>2, <1>3
<1>5. \A m \in T : n <= m
  BY <1>4
<1> QED BY <1>5

\* Of a collection of subsets of a finite set, one is smallest.
LEMMA Smallest ==
  ASSUME NEW S, IsFiniteSet(S), NEW F \in SUBSET (SUBSET S), F # {}
  PROVE  \E T \in F : \A x \in T : T \ {x} \notin F
<1> DEFINE N == {n \in Nat : \E T \in F : Cardinality(T) = n}
<1>1. \A T \in F : IsFiniteSet(T) /\ Cardinality(T) \in Nat
  BY FS_Subset, FS_CardinalityType
<1>2. N # {} /\ N \in SUBSET Nat
  BY <1>1
<1>3. PICK n \in N : \A m \in N : n <= m
  BY <1>2, Least
<1>4. PICK T \in F : Cardinality(T) = n
  BY <1>3
<1>5. ASSUME NEW x \in T, T \ {x} \in F PROVE FALSE
  <2>1. Cardinality(T \ {x}) = n - 1
    BY <1>1, <1>4, <1>5, FS_RemoveElement
  <2>2. n - 1 \in N
    BY <1>1, <1>5, <2>1
  <2>3. n \in Nat
    BY <1>3
  <2> HIDE DEF N
  <2> QED BY <1>3, <2>2, <2>3
<1> QED BY <1>5

\* One element for every unit of the numbers f has on T.
Units(f, T) == {u \in T \X Nat : u[2] < f[u[1]]}

\* With one more element there are as many units more as its number.
LEMMA UnitsAdd ==
  ASSUME NEW S, NEW f \in [S -> Nat], NEW T \in SUBSET S, NEW x \in S \ T,
         IsFiniteSet(Units(f, T))
  PROVE  /\ IsFiniteSet(Units(f, T \cup {x}))
         /\ Cardinality(Units(f, T \cup {x})) = f[x] + Cardinality(Units(f, T))
<1> DEFINE X == {x} \X (0..(f[x] - 1))
<1>1. f[x] \in Nat
  OBVIOUS
<1>2. IsFiniteSet(0..(f[x] - 1)) /\ Cardinality(0..(f[x] - 1)) = f[x]
  BY <1>1, FS_Interval
<1>3. IsFiniteSet({x}) /\ Cardinality({x}) = 1
  BY FS_Singleton
<1>4. IsFiniteSet(X) /\ Cardinality(X) = f[x]
  <2>1. IsFiniteSet(X) /\ Cardinality(X) = Cardinality({x}) * Cardinality(0..(f[x] - 1))
    BY <1>2, <1>3, FS_Product
  <2> QED BY <1>1, <1>2, <1>3, <2>1
<1>5. X \cup Units(f, T) = Units(f, T \cup {x})
  BY <1>1 DEF Units
<1>6. X \cap Units(f, T) = {}
  BY DEF Units
<1> HIDE DEF X
<1>7. Cardinality(Units(f, T)) \in Nat
  BY FS_CardinalityType
<1>8. /\ IsFiniteSet(X \cup Units(f, T))
      /\ Cardinality(X \cup Units(f, T)) = Cardinality(X) + Cardinality(Units(f, T)) - Cardinality(X \cap Units(f, T))
  BY <1>4, FS_Union
<1>9. Cardinality(X \cap Units(f, T)) = 0
  BY <1>6, FS_EmptySet
<1>10. Cardinality(X \cup Units(f, T)) = f[x] + Cardinality(Units(f, T))
  <2>1. ASSUME NEW c, NEW a \in Nat, NEW b \in Nat, NEW d, c = a + b - d, d = 0
        PROVE  c = a + b
    BY <2>1
  <2> QED BY <1>1, <1>4, <1>7, <1>8, <1>9, <2>1
<1> QED BY <1>5, <1>8, <1>10

\* There are finitely many units.
LEMMA UnitsFinite ==
  ASSUME NEW S, IsFiniteSet(S), NEW f \in [S -> Nat], NEW T \in SUBSET S
  PROVE  IsFiniteSet(Units(f, T)) /\ Cardinality(Units(f, T)) \in Nat
<1> DEFINE F == {V \in SUBSET S : ~ IsFiniteSet(Units(f, V))}
<1>1. ASSUME F # {} PROVE FALSE
  <2>1. PICK V \in F : \A x \in V : V \ {x} \notin F
    BY <1>1, Smallest
  <2>2. CASE V = {}
    <3>1. Units(f, V) = {}
      BY <2>2 DEF Units
    <3> QED BY <3>1, FS_EmptySet
  <2>3. CASE V # {}
    <3>1. PICK x \in V : TRUE
      BY <2>3
    <3>2. V \ {x} \in SUBSET S /\ x \in S \ (V \ {x}) /\ (V \ {x}) \cup {x} = V
      OBVIOUS
    <3>3. IsFiniteSet(Units(f, V \ {x}))
      BY <2>1, <3>2
    <3>4. IsFiniteSet(Units(f, (V \ {x}) \cup {x}))
      BY <3>2, <3>3, UnitsAdd
    <3> QED BY <3>2, <3>4
  <2> QED BY <2>2, <2>3
<1> QED BY <1>1, FS_CardinalityType

\* The sum is the number of units: h, the function behind the fold, agrees with
\* that on every set of instances.
LEMMA SumIsUnits ==
  ASSUME NEW S, IsFiniteSet(S), NEW f \in [S -> Nat]
  PROVE  Total(f) = Cardinality(Units(f, S)) /\ Total(f) \in Nat
<1> DEFINE pick(T) == CHOOSE x \in T : TRUE
           Eq(g) == g = [T \in SUBSET S |-> IF T = {} THEN 0 ELSE f[pick(T)] + g[T \ {pick(T)}]]
           h == CHOOSE g : Eq(g)
           C == [T \in SUBSET S |-> Cardinality(Units(f, T))]
<1>1. Total(f) = h[S]
  BY DEF Total, FoldFunction, FoldFunctionOnSet, MapThenFoldSet
<1>2. \A T \in SUBSET S : T # {} => pick(T) \in T
  OBVIOUS
<1> HIDE DEF pick
<1>3. ASSUME NEW T \in SUBSET S
      PROVE  Cardinality(Units(f, T)) =
               IF T = {} THEN 0
               ELSE f[pick(T)] + Cardinality(Units(f, T \ {pick(T)}))
  <2>1. CASE T = {}
    <3>1. Units(f, T) = {}
      BY <2>1 DEF Units
    <3> QED BY <2>1, <3>1, FS_EmptySet
  <2>2. CASE T # {}
    <3> DEFINE x == pick(T)
    <3>1. x \in T
      BY <1>2, <2>2
    <3> HIDE DEF x
    <3>2. T \ {x} \in SUBSET S /\ x \in S \ (T \ {x}) /\ (T \ {x}) \cup {x} = T
      BY <3>1
    <3>3. IsFiniteSet(Units(f, T \ {x}))
      BY <3>2, UnitsFinite
    <3>4. Cardinality(Units(f, (T \ {x}) \cup {x})) = f[x] + Cardinality(Units(f, T \ {x}))
      BY <3>2, <3>3, UnitsAdd
    <3>5. Cardinality(Units(f, T)) = f[x] + Cardinality(Units(f, T \ {x}))
      BY <3>2, <3>4
    <3> QED BY <2>2, <3>5 DEF x
  <2> QED BY <2>1, <2>2
<1>4. Eq(C)
  <2>1. \A T \in SUBSET S : T \ {pick(T)} \in SUBSET S
    OBVIOUS
  <2>2. \A T \in SUBSET S : C[T] = IF T = {} THEN 0 ELSE f[pick(T)] + C[T \ {pick(T)}]
    BY <1>3, <2>1
  <2> QED BY <2>2
<1> HIDE DEF C
<1>5. Eq(h)
  <2> HIDE DEF Eq
  <2> QED BY <1>4
<1> HIDE DEF h
<1>6. \A T \in SUBSET S :
        h[T] = IF T = {} THEN 0 ELSE f[pick(T)] + h[T \ {pick(T)}]
  BY <1>5
<1> DEFINE F == {T \in SUBSET S : h[T] # Cardinality(Units(f, T))}
<1>7. ASSUME F # {} PROVE FALSE
  <2>1. PICK T \in F : \A x \in T : T \ {x} \notin F
    BY <1>7, Smallest
  <2>2. T # {}
    BY <1>3, <1>6
  <2>3. T \ {pick(T)} \in SUBSET S /\ T \ {pick(T)} \notin F
    BY <1>2, <2>1, <2>2
  <2>4. h[T \ {pick(T)}] = Cardinality(Units(f, T \ {pick(T)}))
    BY <2>3
  <2>5. /\ h[T] = f[pick(T)] + h[T \ {pick(T)}]
        /\ Cardinality(Units(f, T)) = f[pick(T)] + Cardinality(Units(f, T \ {pick(T)}))
    BY <1>3, <1>6, <2>2
  <2> QED BY <2>4, <2>5
<1>8. S \in SUBSET S /\ S \notin F
  BY <1>7
<1>9. h[S] = Cardinality(Units(f, S))
  BY <1>8
<1> QED BY <1>1, <1>9, UnitsFinite

\* The sum of no counts, and the sum when one of them is increased.
LEMMA SumOfZeros ==
  ASSUME NEW S, IsFiniteSet(S)
  PROVE  Total([s \in S |-> 0]) = 0
<1> DEFINE f == [s \in S |-> 0]
<1>1. f \in [S -> Nat]
  OBVIOUS
<1>2. Units(f, S) = {}
  BY DEF Units
<1> HIDE DEF f
<1>3. Total(f) = Cardinality(Units(f, S))
  BY <1>1, SumIsUnits
<1> QED BY <1>2, <1>3, FS_EmptySet DEF f

LEMMA SumIncreased ==
  ASSUME NEW S, IsFiniteSet(S), NEW f \in [S -> Nat], NEW x \in S
  PROVE  Total([f EXCEPT ![x] = @ + 1]) = Total(f) + 1
<1> DEFINE g == [f EXCEPT ![x] = @ + 1]
           u == <<x, f[x]>>
<1>1. g \in [S -> Nat] /\ \A s \in S : g[s] = IF s = x THEN f[x] + 1 ELSE f[s]
  OBVIOUS
<1> HIDE DEF g
<1>2. Units(g, S) = Units(f, S) \cup {u} /\ u \notin Units(f, S)
  BY <1>1 DEF Units
<1>3. IsFiniteSet(Units(f, S))
  BY UnitsFinite
<1> HIDE DEF u
<1>4. Cardinality(Units(g, S)) = Cardinality(Units(f, S)) + 1
  BY <1>2, <1>3, FS_AddElement
<1>5. Total(g) = Cardinality(Units(g, S))
  BY <1>1, SumIsUnits
<1>6. Total(f) = Cardinality(Units(f, S))
  BY SumIsUnits
<1> QED BY <1>4, <1>5, <1>6 DEF g

-----------------------------------------------------------------------------
\* What makes AcceptedAccounted inductive: only a running thread has a frame in
\* hand, and it is one that a deployment is known for.
InHand == tm # None => tmAlive /\ tm.f \in Frames /\ Route[tm.f] \in Instances

\* A frame in hand stays in hand while its step only moves it on.
LEMMA InHandAlways == Spec => []InHand
<1>1. Init => InHand
  BY DEF Init, InHand
<1>2. TypeOK /\ InHand /\ [Next]_vars => InHand'
  <2> SUFFICES ASSUME TypeOK, InHand, [Next]_vars PROVE InHand'
    OBVIOUS
  <2>1. ASSUME NEW f \in Frames, Accept(f) PROVE InHand'
    <3>1. tm'.f = f /\ tmAlive' /\ Route[f] \in Instances
      BY <2>1, ConstantFacts DEF Accept, Received
    <3> QED BY <3>1 DEF InHand
  <2>2. CASE Send
    <3>1. tm \in [f : Frames, pc : {"send", "count"}]
      BY <2>2 DEF Send, TypeOK
    <3>2. tm'.f = tm.f /\ tmAlive' = tmAlive
      BY <2>2, <3>1 DEF Send
    <3> QED BY <2>2, <3>2 DEF Send, InHand
  <2>3. CASE SendError \/ Count \/ Restart
    <3>1. tm' = None
      BY <2>3 DEF SendError, Count, Restart
    <3> QED BY <3>1 DEF InHand
  <2>4. CASE UNCHANGED <<tm, tmAlive>>
    BY <2>4 DEF InHand
  <2> QED BY <2>1, <2>2, <2>3, <2>4
          DEF Next, Tick, Network, StationSends, CopyLost, Ingest, DropUnknown,
              DropDuplicate, vars
<1> QED BY <1>1, <1>2, TypeCorrect, PTL DEF Spec

\* Every frame the deduper accepted is counted for the instance it went to, except
\* the one in hand or the one a failed sendto took with the thread.
THEOREM AcceptedIsAccounted == Spec => []AcceptedAccounted
<1> DEFINE open == IF tm # None \/ ~tmAlive THEN 1 ELSE 0
<1>f. IsFiniteSet(Instances)
  BY GatewayTmAssumption DEF GatewayTmAssumption
<1>1. Init => AcceptedAccounted
  <2> SUFFICES ASSUME Init PROVE AcceptedAccounted
    OBVIOUS
  <2>1. Total(tmAccepted) = 0
    BY <1>f, SumOfZeros DEF Init
  <2>2. accepted = 0 /\ open = 0
    BY DEF Init
  <2>3. accepted = Total(tmAccepted) + open
    BY <2>1, <2>2
  <2> QED BY <2>3 DEF AcceptedAccounted
<1>2. TypeOK /\ InHand /\ AcceptedAccounted /\ [Next]_vars => AcceptedAccounted'
  <2> SUFFICES ASSUME TypeOK, InHand, AcceptedAccounted, [Next]_vars
               PROVE  accepted' = Total(tmAccepted') + open'
    BY DEF AcceptedAccounted
  <2>t. accepted = Total(tmAccepted) + open /\ tmAccepted \in [Instances -> Nat]
    BY DEF AcceptedAccounted, TypeOK
  <2>n. Total(tmAccepted) \in Nat
    BY <1>f, <2>t, SumIsUnits
  <2>1. ASSUME NEW f \in Frames, Accept(f) PROVE accepted' = Total(tmAccepted') + open'
    <3>1. /\ tm = None /\ tmAlive /\ accepted' = accepted + 1
          /\ tmAccepted' = tmAccepted /\ tm' = [f |-> f, pc |-> "send"]
      BY <2>1 DEF Accept, Received, countVars
    <3>2. tm' # None
      BY <3>1, FrameIsNotNone
    <3>3. open = 0 /\ open' = 1 /\ Total(tmAccepted') = Total(tmAccepted)
      BY <3>1, <3>2
    <3> HIDE DEF open
    <3> QED BY <2>t, <2>n, <3>1, <3>3
  <2>2. CASE Send
    <3>1. accepted' = accepted /\ tmAccepted' = tmAccepted /\ tm # None /\ tm' # None
      <4>1. tm \in [f : Frames, pc : {"send", "count"}]
        BY <2>2 DEF Send, TypeOK
      <4>2. tm' \in [f : Frames, pc : {"send", "count"}]
        BY <2>2, <4>1 DEF Send
      <4> QED BY <2>2, <4>2, FrameIsNotNone DEF Send, dedupVars, countVars
    <3>2. open' = open /\ Total(tmAccepted') = Total(tmAccepted)
      BY <3>1
    <3> QED BY <2>t, <3>1, <3>2
  <2>3. CASE SendError
    <3>1. accepted' = accepted /\ tmAccepted' = tmAccepted /\ tm # None /\ ~tmAlive'
      BY <2>3 DEF SendError, dedupVars, countVars
    <3>2. open' = open /\ Total(tmAccepted') = Total(tmAccepted)
      BY <3>1
    <3> QED BY <2>t, <3>1, <3>2
  <2>4. CASE Count
    <3>1. /\ accepted' = accepted /\ tm # None /\ tm' = None /\ tmAlive' = tmAlive
          /\ tmAccepted' = [tmAccepted EXCEPT ![Route[tm.f]] = @ + 1]
      BY <2>4 DEF Count, dedupVars
    <3>2. Route[tm.f] \in Instances /\ tmAlive
      BY <3>1 DEF InHand
    <3>3. Total(tmAccepted') = Total(tmAccepted) + 1
      BY <1>f, <2>t, <3>1, <3>2, SumIncreased
    <3>4. open = 1 /\ open' = 0
      BY <3>1, <3>2
    <3> HIDE DEF open
    <3> QED BY <2>t, <2>n, <3>1, <3>3, <3>4
  <2>5. CASE Restart
    <3>1. accepted' = 0 /\ tm' = None /\ tmAlive' /\ tmAccepted' = [i \in Instances |-> 0]
      BY <2>5 DEF Restart
    <3>2. Total(tmAccepted') = 0
      BY <1>f, <3>1, SumOfZeros
    <3>3. open' = 0
      BY <3>1
    <3> QED BY <3>1, <3>2, <3>3
  <2>6. CASE UNCHANGED <<accepted, tm, tmAlive, tmAccepted>>
    <3>1. open' = open /\ Total(tmAccepted') = Total(tmAccepted)
      BY <2>6
    <3> QED BY <2>t, <2>6, <3>1
  <2> QED BY <2>1, <2>2, <2>3, <2>4, <2>5, <2>6
          DEF Next, Tick, Network, StationSends, CopyLost, Ingest, DropUnknown,
              DropDuplicate, vars, dedupVars, countVars
<1> QED BY <1>1, <1>2, TypeCorrect, InHandAlways, PTL DEF Spec

-----------------------------------------------------------------------------
\* The telemetry path implements TmFeed: copies in any number and order, losses,
\* failures and restarts included, the gateway accepts no content twice within the
\* window.  SeenIsSince carries the guard of accept to the abstract one.
THEOREM ImplementsFeed == Spec => FeedSpec
<1>1. Init => Feed!Init
  BY DEF Init, Feed!Init, Long, Feed!Long
<1>2. TypeOK /\ SeenIsSince /\ [Next]_vars => [Feed!Next]_<<since, passed>>
  <2> SUFFICES ASSUME TypeOK, SeenIsSince, [Next]_vars PROVE [Feed!Next]_<<since, passed>>
    OBVIOUS
  <2>1. CASE Tick
    BY <2>1 DEF Tick, Older, Feed!Next, Feed!Tick, Long, Feed!Long
  <2>2. ASSUME NEW f \in Frames, DropDuplicate(f) PROVE UNCHANGED <<since, passed>>
    BY <2>2 DEF DropDuplicate, feedVars
  <2>3. ASSUME NEW f \in Frames, Accept(f) PROVE Feed!PassOn(f)
    <3>1. seen[f] \in Ages \cup {None} /\ since[f] \in Ages
      BY DEF TypeOK
    <3>2. since[f] > Window
      BY <2>3, <3>1, ConstantFacts DEF Accept, Within, Expired, SeenIsSince, Ages, Long
    <3> QED
      BY <2>3, <3>2 DEF Accept, Feed!PassOn
  <2>4. CASE Restart
    BY <2>4 DEF Restart, Feed!Next, Feed!Forget, Long, Feed!Long
  <2> QED
    BY <2>1, <2>2, <2>3, <2>4, DedupStep DEF Feed!Next
<1> QED
  BY <1>1, <1>2, TypeCorrect, SeenIsTheTruth, PTL DEF Spec, FeedSpec, Feed!Spec
=============================================================================
