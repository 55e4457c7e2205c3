--------------------------- MODULE HostPeekProofs ---------------------------
(***************************************************************************)
(* Theorems about HostNames and HostPeek, for all streams: what the        *)
(* parsers make of a hello and of a head is what HostRequests says they    *)
(* ask for, and what peekHost returns is what its client asks for.         *)
(***************************************************************************)
EXTENDS HostPeek, WellFoundedInduction, TLAPS
-----------------------------------------------------------------------------
(* Bounds of sets, stretches of sequences, recursive functions.            *)

\* A set of naturals that is not empty has a minimum.
LEMMA MinOfNaturals ==
    ASSUME NEW T, T \subseteq Nat, T # {}
    PROVE  Min(T) \in T /\ \A k \in T : Min(T) <= k
<1>1. PICK x \in T : \A y \in T : <<y, x>> \notin OpToRel(<, Nat)
  BY WFMin, NatLessThanWellFounded
<1>2. \A y \in T : x <= y
  <2> SUFFICES ASSUME NEW y \in T PROVE x <= y
    OBVIOUS
  <2>1. ~(y < x)
    BY <1>1 DEF OpToRel
  <2> QED
    BY <2>1
<1> QED
  BY <1>2 DEF Min

\* An element of a set that is no greater than any is its minimum.
LEMMA MinIs ==
    ASSUME NEW T, T \subseteq Nat, NEW m \in T, \A k \in T : m <= k
    PROVE  Min(T) = m
<1>1. Min(T) \in T /\ \A k \in T : Min(T) <= k
  BY DEF Min
<1>2. Min(T) \in Nat /\ m \in Nat /\ Min(T) <= m /\ m <= Min(T)
  BY <1>1
<1> QED
  BY <1>2

\* An element of a set that is no less than any is its maximum.
LEMMA MaxIs ==
    ASSUME NEW T, T \subseteq Nat, NEW m \in T, \A k \in T : k <= m
    PROVE  Max(T) = m
<1> DEFINE IsMax(x) == x \in T /\ \A k \in T : x >= k
<1>1. IsMax(m)
  OBVIOUS
<1>2. Max(T) = CHOOSE x \in T : \A k \in T : x >= k
  BY DEF Max
<1>3. Max(T) \in T /\ \A k \in T : Max(T) >= k
  BY <1>1, <1>2
<1>4. Max(T) \in Nat /\ m \in Nat /\ Max(T) >= m /\ Max(T) <= m
  BY <1>3
<1> QED
  BY <1>4

\* A stretch of a sequence.
LEMMA Stretch ==
    ASSUME NEW s \in Seq(Nat), NEW i \in 1 .. Len(s) + 1, NEW j \in i - 1 .. Len(s)
    PROVE  /\ SubSeq(s, i, j) \in Seq(Nat)
           /\ Len(SubSeq(s, i, j)) = j - i + 1
           /\ \A k \in 1 .. j - i + 1 : SubSeq(s, i, j)[k] = s[k + i - 1]
<1> QED
  OBVIOUS

\* A set of naturals with a bound that is not empty has a maximum.
LEMMA MaxOfBounded ==
    ASSUME NEW N \in Nat, NEW T, T \subseteq 1 .. N, T # {}
    PROVE  \E m \in T : \A k \in T : k <= m
<1> DEFINE U == {N - k : k \in T}
<1>1. U \subseteq Nat /\ U # {}
  <2>1. \A k \in T : N - k \in Nat
    OBVIOUS
  <2>2. PICK k \in T : TRUE
    OBVIOUS
  <2>3. N - k \in U
    OBVIOUS
  <2> QED
    BY <2>1, <2>3
<1>2. Min(U) \in U /\ \A u \in U : Min(U) <= u
  <2> HIDE DEF U
  <2> QED
    BY <1>1, MinOfNaturals
<1>3. PICK m \in T : Min(U) = N - m
  BY <1>2
<1>4. \A k \in T : N - m <= N - k
  BY <1>2, <1>3
<1> QED
  BY <1>4

\* A function on 0 .. N defined by what it is further on, and one defined by
\* what it is before.
IsDownward(f, N, stop, val, next) ==
    f = [p \in 0 .. N |-> IF stop[p] THEN val[p] ELSE f[next[p]]]
IsUpward(f, N, step) ==
    f = [p \in 0 .. N |-> p = 0 \/ \E q \in 0 .. p - 1 : step[q] = p /\ f[q]]

\* A function with values that depend on values further on exists.
LEMMA DownwardFunction ==
    ASSUME NEW N \in Nat, NEW stop, NEW val, NEW next,
           \A p \in 0 .. N : ~stop[p] => next[p] \in p + 1 .. N
    PROVE  \E f : IsDownward(f, N, stop, val, next)
<1> DEFINE From(a) == \E f : f = [p \in a .. N |-> IF stop[p] THEN val[p] ELSE f[next[p]]]
           T == {k \in Nat : k <= N + 1 /\ ~From(N + 1 - k)}
<1>1. CASE T = {}
  <2>1. N + 1 \in Nat /\ N + 1 <= N + 1 /\ N + 1 - (N + 1) = 0
    OBVIOUS
  <2>2. From(0)
    <3> HIDE DEF From
    <3> QED
      BY <1>1, <2>1
  <2> QED
    BY <2>2 DEF IsDownward
<1>2. CASE T # {}
  <2>1. PICK k \in T : \A i \in T : k <= i
    <3>1. T \subseteq Nat
      OBVIOUS
    <3> HIDE DEF T
    <3> QED
      BY <1>2, <3>1, MinOfNaturals
  <2>2. k \in Nat /\ k <= N + 1 /\ ~From(N + 1 - k)
    BY <2>1
  <2>3. CASE k = 0
    <3> DEFINE f == [p \in N + 1 .. N |-> val[p]]
    <3>1. f = [p \in N + 1 .. N |-> IF stop[p] THEN val[p] ELSE f[next[p]]]
      OBVIOUS
    <3>2. From(N + 1)
      BY <3>1
    <3> QED
      BY <2>2, <2>3, <3>2
  <2>4. CASE k # 0
    <3> DEFINE a == N + 1 - k
    <3>1. k - 1 \in Nat /\ k - 1 <= N + 1 /\ ~(k <= k - 1) /\ N + 1 - (k - 1) = a + 1
          /\ a \in 0 .. N
      BY <2>2, <2>4
    <3>2. From(a + 1)
      <4>1. k - 1 \notin T
        BY <2>1, <3>1
      <4> QED
        BY <3>1, <4>1
    <3> HIDE DEF a
    <3>3. PICK f : f = [p \in a + 1 .. N |-> IF stop[p] THEN val[p] ELSE f[next[p]]]
      BY <3>2
    <3> DEFINE g == [p \in a .. N |->
                        IF p = a THEN IF stop[a] THEN val[a] ELSE f[next[a]] ELSE f[p]]
    <3>4. ASSUME NEW p \in a .. N
          PROVE  g[p] = IF stop[p] THEN val[p] ELSE g[next[p]]
      <4>1. ~stop[p] => next[p] \in p + 1 .. N /\ next[p] \in a + 1 .. N /\ next[p] \in a .. N
        BY <3>1
      <4>2. ~stop[p] => g[next[p]] = f[next[p]]
        BY <3>1, <4>1
      <4>3. p # a => p \in a + 1 .. N
        BY <3>1
      <4> HIDE DEF From, T
      <4> QED
        BY <3>3, <4>2, <4>3
    <3>5. g = [p \in a .. N |-> IF stop[p] THEN val[p] ELSE g[next[p]]]
      <4>1. g = [p \in a .. N |-> g[p]]
        OBVIOUS
      <4> HIDE DEF g
      <4> QED
        BY <3>4, <4>1
    <3>6. From(a)
      BY <3>5
    <3> QED
      BY <2>2, <3>6 DEF a
  <2> QED
    BY <2>3, <2>4
<1> QED
  BY <1>1, <1>2

\* A function with values that depend on values before exists.
LEMMA UpwardFunction ==
    ASSUME NEW N \in Nat, NEW step
    PROVE  \E f : IsUpward(f, N, step)
<1> DEFINE Up(b) == \E f : f = [p \in 0 .. b |->
                          p = 0 \/ \E q \in 0 .. p - 1 : step[q] = p /\ f[q]]
           T == {k \in Nat : ~Up(k)}
<1>1. CASE T = {}
  <2>1. Up(N)
    <3> HIDE DEF Up
    <3> QED
      BY <1>1
  <2> QED
    BY <2>1 DEF IsUpward
<1>2. CASE T # {}
  <2>1. PICK k \in T : \A i \in T : k <= i
    <3>1. T \subseteq Nat
      OBVIOUS
    <3> HIDE DEF T
    <3> QED
      BY <1>2, <3>1, MinOfNaturals
  <2>2. k \in Nat /\ ~Up(k)
    BY <2>1
  <2>3. CASE k = 0
    <3> DEFINE f == [p \in 0 .. 0 |-> TRUE]
    <3>1. f = [p \in 0 .. 0 |-> p = 0 \/ \E q \in 0 .. p - 1 : step[q] = p /\ f[q]]
      <4>1. \A p \in 0 .. 0 : p = 0
        OBVIOUS
      <4>2. \A p \in 0 .. 0 :
                TRUE = (p = 0 \/ \E q \in 0 .. p - 1 : step[q] = p /\ f[q])
        BY <4>1
      <4> QED
        BY <4>2, Zenon
    <3>2. Up(0)
      BY <3>1
    <3> QED
      BY <2>2, <2>3, <3>2
  <2>4. CASE k # 0
    <3>1. k - 1 \in Nat /\ ~(k <= k - 1)
      BY <2>2, <2>4
    <3>2. Up(k - 1)
      BY <2>1, <3>1
    <3>3. PICK f : f = [p \in 0 .. k - 1 |->
                          p = 0 \/ \E q \in 0 .. p - 1 : step[q] = p /\ f[q]]
      BY <3>2
    <3> DEFINE g == [p \in 0 .. k |->
                        p = 0 \/ \E q \in 0 .. p - 1 : step[q] = p /\ f[q]]
    <3>4. ASSUME NEW q \in 0 .. k - 1 PROVE g[q] = f[q]
      <4>1. q \in 0 .. k
        BY <2>2
      <4> HIDE DEF Up, T
      <4>2. f[q] = (q = 0 \/ \E r \in 0 .. q - 1 : step[r] = q /\ f[r])
        BY <3>3
      <4> QED
        BY <4>1, <4>2
    <3>5. ASSUME NEW p \in 0 .. k
          PROVE  g[p] = (p = 0 \/ \E q \in 0 .. p - 1 : step[q] = p /\ g[q])
      <4>1. \A q \in 0 .. p - 1 : g[q] = f[q]
        <5> SUFFICES ASSUME NEW q \in 0 .. p - 1 PROVE g[q] = f[q]
          OBVIOUS
        <5>1. q \in 0 .. k - 1
          BY <2>2
        <5> HIDE DEF g
        <5> QED
          BY <3>4, <5>1
      <4>2. g[p] = (p = 0 \/ \E q \in 0 .. p - 1 : step[q] = p /\ f[q])
        OBVIOUS
      <4> HIDE DEF g
      <4> QED
        BY <4>1, <4>2
    <3>6. g = [p \in 0 .. k |-> p = 0 \/ \E q \in 0 .. p - 1 : step[q] = p /\ g[q]]
      <4>1. g = [p \in 0 .. k |-> g[p]]
        OBVIOUS
      <4> HIDE DEF g
      <4> QED
        BY <3>5, <4>1
    <3>7. Up(k)
      BY <3>6
    <3> QED
      BY <2>2, <3>7
  <2> QED
    BY <2>3, <2>4
<1> QED
  BY <1>1, <1>2
-----------------------------------------------------------------------------
(* Lists of entries: what the two loops of extractSNI find.                *)

\* Where a list of entries is looked at: numbers are there, entries go on.
LEMMA NumberIsNat ==
    ASSUME NEW e \in Seq(Nat), NEW w \in {1, 2}, NEW p \in Nat, Has(e, p, w)
    PROVE  Number(e, p, w) \in Nat
<1>1. e[p + 1] \in Nat /\ (w = 2 => e[p + 2] \in Nat)
  BY DEF Has
<1>2. CASE w = 1
  BY <1>1, <1>2 DEF Number
<1>3. CASE w = 2
  <2>1. \A a, b \in Nat : a * 256 + b \in Nat
    OBVIOUS
  <2>2. e[p + 1] * 256 + e[p + 2] \in Nat
    BY <1>1, <1>3, <2>1
  <2> QED
    BY <1>3, <2>2 DEF Number
<1> QED
  BY <1>2, <1>3

\* Where an entry ends, and what is in it.
LEMMA EntryFacts ==
    ASSUME NEW e \in Seq(Nat), NEW w \in {1, 2}, NEW p \in 0 .. Len(e),
           Has(e, p, w + 2)
    PROVE  /\ Len(e) \in Nat
           /\ Number(e, p + w, 2) \in Nat
           /\ EntryEnd(e, w, p) \in Nat /\ EntryEnd(e, w, p) > p
           /\ Entry(e, w, p) <=> Has(e, p + w + 2, Number(e, p + w, 2))
           /\ Entry(e, w, p) => EntryEnd(e, w, p) \in p + 1 .. Len(e)
           /\ Body(e, w, p) = Take(e, p + w + 2, Number(e, p + w, 2))
<1>1. p + w \in Nat /\ Has(e, p + w, 2) /\ Len(e) \in Nat
  BY DEF Has
<1>2. Number(e, p + w, 2) \in Nat
  BY <1>1, NumberIsNat
<1> QED
  BY <1>1, <1>2 DEF EntryEnd, Entry, Has, Body, Take

\* The loops over entries, unfolded.
LEMMA ScanUnfolds ==
    ASSUME NEW e \in Seq(Nat), NEW w \in {1, 2}
    PROVE  \E scan :
              /\ FirstOfType0(e, w) = scan[0]
              /\ \A p \in 0 .. Len(e) :
                    scan[p] = IF ~Has(e, p, w + 2) THEN NoSNI
                              ELSE IF ~Entry(e, w, p) THEN Short
                              ELSE IF Number(e, p, w) = 0 THEN Told(Body(e, w, p))
                              ELSE scan[EntryEnd(e, w, p)]
<1> DEFINE Turn(g, p) ==
              IF ~Has(e, p, w + 2) THEN NoSNI
              ELSE LET len == Number(e, p + w, 2) IN
                   IF ~Has(e, p + w + 2, len) THEN Short
                   ELSE IF Number(e, p, w) = 0 THEN Told(Take(e, p + w + 2, len))
                   ELSE g[p + w + 2 + len]
           IsScan(scan) == scan = [p \in 0 .. Len(e) |-> Turn(scan, p)]
<1> DEFINE stop == [p \in 0 .. Len(e) |->
                      ~Has(e, p, w + 2) \/ ~Entry(e, w, p) \/ Number(e, p, w) = 0]
           val == [p \in 0 .. Len(e) |->
                      IF ~Has(e, p, w + 2) THEN NoSNI
                      ELSE IF ~Entry(e, w, p) THEN Short ELSE Told(Body(e, w, p))]
           next == [p \in 0 .. Len(e) |-> EntryEnd(e, w, p)]
<1>1. \A p \in 0 .. Len(e) : ~stop[p] => next[p] \in p + 1 .. Len(e)
  BY EntryFacts
<1>2. PICK f : IsDownward(f, Len(e), stop, val, next)
  <2>1. Len(e) \in Nat
    OBVIOUS
  <2> HIDE DEF stop, val, next
  <2> QED
    BY <1>1, <2>1, DownwardFunction
<1>3. ASSUME NEW p \in 0 .. Len(e), NEW g
      PROVE  (IF stop[p] THEN val[p] ELSE g[next[p]]) = Turn(g, p)
  BY EntryFacts DEF EntryEnd
<1>4. IsScan(f)
  <2> HIDE DEF stop, val, next, Turn
  <2> QED
    BY <1>2, <1>3 DEF IsDownward
<1>5. FirstOfType0(e, w) = (CHOOSE scan : IsScan(scan))[0]
  BY DEF FirstOfType0
<1> DEFINE scan == CHOOSE scan : IsScan(scan)
<1>6. IsScan(scan)
  <2> HIDE DEF IsScan
  <2> QED
    BY <1>4
<1> HIDE DEF scan
<1>7. ASSUME NEW p \in 0 .. Len(e)
      PROVE  scan[p] = IF ~Has(e, p, w + 2) THEN NoSNI
                       ELSE IF ~Entry(e, w, p) THEN Short
                       ELSE IF Number(e, p, w) = 0 THEN Told(Body(e, w, p))
                       ELSE scan[EntryEnd(e, w, p)]
  <2>1. scan[p] = IF ~Has(e, p, w + 2) THEN NoSNI
                ELSE LET len == Number(e, p + w, 2) IN
                     IF ~Has(e, p + w + 2, len) THEN Short
                     ELSE IF Number(e, p, w) = 0 THEN Told(Take(e, p + w + 2, len))
                     ELSE scan[p + w + 2 + len]
    BY <1>6
  <2> QED
    BY <2>1, EntryFacts DEF EntryEnd
<1> QED
  BY <1>5, <1>7 DEF scan

\* The starts of entries: the first, and the end of each entry.
LEMMA StartsAre ==
    ASSUME NEW e \in Seq(Nat), NEW w \in {1, 2}
    PROVE  /\ Starts(e, w) \subseteq 0 .. Len(e)
           /\ 0 \in Starts(e, w)
           /\ \A q \in Starts(e, w) :
                 Entry(e, w, q) => EntryEnd(e, w, q) \in Starts(e, w)
           /\ \A p \in Starts(e, w) : p # 0 =>
                 \E q \in Starts(e, w) :
                    q < p /\ Entry(e, w, q) /\ EntryEnd(e, w, q) = p
<1> DEFINE IsStart(start) == start = [p \in 0 .. Len(e) |->
               \/ p = 0
               \/ \E q \in 0 .. p - 1 :
                     Entry(e, w, q) /\ EntryEnd(e, w, q) = p /\ start[q]]
           step == [q \in 0 .. Len(e) |->
                       IF Entry(e, w, q) THEN EntryEnd(e, w, q) ELSE -1]
<1>0. Len(e) \in Nat
  OBVIOUS
<1>1. PICK f : IsUpward(f, Len(e), step)
  <2> HIDE DEF step
  <2> QED
    BY <1>0, UpwardFunction
<1>2. ASSUME NEW p \in 0 .. Len(e), NEW q \in 0 .. p - 1
      PROVE  step[q] = p <=> Entry(e, w, q) /\ EntryEnd(e, w, q) = p
  BY <1>0
<1>3. IsStart(f)
  <2>1. ASSUME NEW p \in 0 .. Len(e)
        PROVE  (\E q \in 0 .. p - 1 : step[q] = p /\ f[q])
                = (\E q \in 0 .. p - 1 : Entry(e, w, q) /\ EntryEnd(e, w, q) = p /\ f[q])
    <3> HIDE DEF step, IsStart
    <3> QED
      BY <1>2
  <2> HIDE DEF step
  <2> QED
    BY <1>1, <2>1, Zenon DEF IsUpward
<1> DEFINE start == CHOOSE start : IsStart(start)
<1>4. IsStart(start)
  <2> HIDE DEF IsStart
  <2> QED
    BY <1>3
<1>5. Starts(e, w) = {p \in 0 .. Len(e) : start[p]}
  BY DEF Starts
<1> HIDE DEF start
<1>6. \A p \in 0 .. Len(e) :
         start[p] = (\/ p = 0
                     \/ \E q \in 0 .. p - 1 :
                           Entry(e, w, q) /\ EntryEnd(e, w, q) = p /\ start[q])
  BY <1>4, Zenon
<1> HIDE DEF IsStart
<1>7. Starts(e, w) \subseteq 0 .. Len(e) /\ 0 \in Starts(e, w)
  <2>1. 0 \in 0 .. Len(e)
    BY <1>0
  <2>2. start[0]
    BY <1>6, <2>1, Zenon
  <2> QED
    BY <1>5, <2>1, <2>2
<1>8. ASSUME NEW q \in Starts(e, w), Entry(e, w, q)
      PROVE  EntryEnd(e, w, q) \in Starts(e, w)
  <2>1. q \in 0 .. Len(e) /\ start[q]
    BY <1>5
  <2>2. EntryEnd(e, w, q) \in q + 1 .. Len(e)
    BY <1>8, <2>1, EntryFacts DEF Entry
  <2>3. EntryEnd(e, w, q) \in 0 .. Len(e) /\ q \in 0 .. EntryEnd(e, w, q) - 1
    BY <2>1, <2>2
  <2> QED
    BY <1>5, <1>6, <1>8, <2>1, <2>3
<1>9. ASSUME NEW p \in Starts(e, w), p # 0
      PROVE  \E q \in Starts(e, w) :
                q < p /\ Entry(e, w, q) /\ EntryEnd(e, w, q) = p
  <2>1. p \in 0 .. Len(e) /\ start[p]
    BY <1>5
  <2>2. PICK q \in 0 .. p - 1 : Entry(e, w, q) /\ EntryEnd(e, w, q) = p /\ start[q]
    BY <1>6, <1>9, <2>1
  <2>3. q \in 0 .. Len(e) /\ q < p
    BY <1>0, <2>1
  <2> QED
    BY <1>5, <2>2, <2>3
<1> QED
  BY <1>7, <1>8, <1>9

\* The loops pass over every entry that has not type 0.
LEMMA ScanFrom ==
    ASSUME NEW e \in Seq(Nat), NEW w \in {1, 2}, NEW scan,
           \A p \in 0 .. Len(e) :
              scan[p] = IF ~Has(e, p, w + 2) THEN NoSNI
                        ELSE IF ~Entry(e, w, p) THEN Short
                        ELSE IF Number(e, p, w) = 0 THEN Told(Body(e, w, p))
                        ELSE scan[EntryEnd(e, w, p)],
           NEW p \in Starts(e, w), NoneBy(e, w, p)
    PROVE  scan[p] = scan[0]
<1> DEFINE T == {q \in Starts(e, w) : NoneBy(e, w, q) /\ scan[q] # scan[0]}
<1> SUFFICES ASSUME T # {} PROVE FALSE
  OBVIOUS
<1>0. Starts(e, w) \subseteq Nat /\ T \subseteq Nat /\ T \subseteq Starts(e, w)
  BY StartsAre
<1>1. PICK q \in T : \A r \in T : q <= r
  <2> HIDE DEF T
  <2> QED
    BY <1>0, MinOfNaturals
<1>2. q # 0
  BY <1>1
<1>3. PICK r \in Starts(e, w) : r < q /\ Entry(e, w, r) /\ EntryEnd(e, w, r) = q
  BY <1>0, <1>1, <1>2, StartsAre
<1>4. r \in 0 .. Len(e) /\ r \in Nat /\ q \in Nat
  BY <1>0, <1>1, StartsAre
<1>5. NoneBy(e, w, r) /\ Number(e, r, w) # 0
  BY <1>0, <1>1, <1>3, <1>4 DEF NoneBy
<1>6. scan[r] = scan[0]
  <2>1. r \notin T
    BY <1>1, <1>3, <1>4
  <2> QED
    BY <1>5, <2>1
<1>7. scan[r] = scan[q]
  BY <1>3, <1>4, <1>5 DEF Entry
<1> QED
  BY <1>1, <1>6, <1>7

\* What the loops find, wherever they stop.
LEMMA LoopStops ==
    ASSUME NEW e \in Seq(Nat), NEW w \in {1, 2},
           NEW p \in Starts(e, w), NoneBy(e, w, p)
    PROVE  /\ ~Has(e, p, w + 2) => FirstOfType0(e, w) = NoSNI
           /\ Has(e, p, w + 2) /\ ~Entry(e, w, p) => FirstOfType0(e, w) = Short
           /\ Entry(e, w, p) /\ Number(e, p, w) = 0 =>
                 FirstOfType0(e, w) = Told(Body(e, w, p))
<1>1. PICK scan :
         /\ FirstOfType0(e, w) = scan[0]
         /\ \A q \in 0 .. Len(e) :
               scan[q] = IF ~Has(e, q, w + 2) THEN NoSNI
                         ELSE IF ~Entry(e, w, q) THEN Short
                         ELSE IF Number(e, q, w) = 0 THEN Told(Body(e, w, q))
                         ELSE scan[EntryEnd(e, w, q)]
  BY ScanUnfolds
<1>2. scan[p] = scan[0]
  BY <1>1, ScanFrom
<1>3. p \in 0 .. Len(e)
  BY StartsAre
<1> QED
  BY <1>1, <1>2, <1>3 DEF Entry

\* Whatever starts before another start is an entry, up to there at most.
LEMMA StartsInOrder ==
    ASSUME NEW e \in Seq(Nat), NEW w \in {1, 2}, NEW p \in Starts(e, w)
    PROVE  \A q \in Starts(e, w) : q < p => Entry(e, w, q) /\ EntryEnd(e, w, q) <= p
<1> DEFINE Ok(b) == \A q \in Starts(e, w) : q < b => Entry(e, w, q) /\ EntryEnd(e, w, q) <= b
           T == {b \in Starts(e, w) : ~Ok(b)}
<1> SUFFICES ASSUME T # {} PROVE FALSE
  OBVIOUS
<1>0. Starts(e, w) \subseteq Nat /\ T \subseteq Nat /\ T \subseteq Starts(e, w)
  BY StartsAre
<1>1. PICK b \in T : \A r \in T : b <= r
  <2> HIDE DEF T
  <2> QED
    BY <1>0, MinOfNaturals
<1>2. PICK q \in Starts(e, w) : q < b /\ ~(Entry(e, w, q) /\ EntryEnd(e, w, q) <= b)
  BY <1>1
<1>3. b \in Starts(e, w) /\ b \in Nat /\ q \in Nat /\ b # 0
  BY <1>0, <1>1, <1>2
<1>4. PICK r \in Starts(e, w) : r < b /\ Entry(e, w, r) /\ EntryEnd(e, w, r) = b
  BY <1>3, StartsAre
<1>5. r \in Nat
  BY <1>0
<1>6. \A s \in Starts(e, w) : s < b => Ok(s)
  <2> SUFFICES ASSUME NEW s \in Starts(e, w), s < b PROVE Ok(s)
    OBVIOUS
  <2>1. s \in Nat /\ ~(b <= s)
    BY <1>0, <1>3
  <2>2. s \notin T
    BY <1>1, <2>1
  <2> HIDE DEF Ok
  <2> QED
    BY <2>2
<1>7. CASE q = r
  BY <1>2, <1>3, <1>4, <1>7
<1>8. CASE q < r
  <2>1. Entry(e, w, q) /\ EntryEnd(e, w, q) <= r
    BY <1>4, <1>6, <1>8
  <2>2. EntryEnd(e, w, q) \in Nat
    <3>1. q \in 0 .. Len(e) /\ Has(e, q, w + 2)
      BY <2>1, StartsAre DEF Entry
    <3> QED
      BY <3>1, EntryFacts
  <2> QED
    BY <1>2, <1>3, <1>4, <1>5, <2>1, <2>2
<1>9. CASE r < q
  <2>1. EntryEnd(e, w, r) <= q
    BY <1>2, <1>6, <1>9
  <2> QED
    BY <1>2, <1>3, <1>4, <2>1
<1> QED
  BY <1>3, <1>5, <1>7, <1>8, <1>9

\* The loops find the first entry of type 0 of a list, or that there is
\* none, or that it ends too early.
THEOREM LoopsFindFirst ==
    ASSUME NEW e \in Seq(Nat), NEW w \in {1, 2}
    PROVE  /\ \A p \in 0 .. Len(e) : Listed(e, w) /\ FirstIs(e, w, p) =>
                 FirstOfType0(e, w) = Told(Body(e, w, p))
           /\ Listed(e, w) /\ NoneBy(e, w, Len(e)) => FirstOfType0(e, w) = NoSNI
           /\ Overrun(e, w) => FirstOfType0(e, w) = Short
           /\ \A p \in 0 .. Len(e) : FirstIs(e, w, p) /\ Entry(e, w, p) =>
                 FirstOfType0(e, w) = Told(Body(e, w, p))
<1>1. ASSUME NEW p \in 0 .. Len(e), Listed(e, w), FirstIs(e, w, p)
      PROVE  FirstOfType0(e, w) = Told(Body(e, w, p))
  <2>1. Entry(e, w, p)
    BY <1>1, StartsInOrder DEF Listed, FirstIs
  <2> QED
    BY <1>1, <2>1, LoopStops DEF FirstIs
<1>2. ASSUME Listed(e, w), NoneBy(e, w, Len(e))
      PROVE  FirstOfType0(e, w) = NoSNI
  <2>1. ~Has(e, Len(e), w + 2)
    BY DEF Has
  <2> QED
    BY <1>2, <2>1, LoopStops DEF Listed
<1>3. Overrun(e, w) => FirstOfType0(e, w) = Short
  BY LoopStops DEF Overrun
<1>4. ASSUME NEW p \in 0 .. Len(e), FirstIs(e, w, p), Entry(e, w, p)
      PROVE  FirstOfType0(e, w) = Told(Body(e, w, p))
  BY <1>4, LoopStops DEF FirstIs
<1> QED
  BY <1>1, <1>2, <1>3, <1>4
-----------------------------------------------------------------------------
(* Verdicts and names.                                                     *)

\* What a verdict is for a request that asks for x.
Answer(v, x) == IF x = <<>> THEN v.out = "error" ELSE v = Told(x)

\* Verdicts are told apart by their outcome.
LEMMA Outcomes ==
    /\ Short.out = "short" /\ NoSNI.out = "error"
    /\ \A x : Told(x).out = "host" /\ Told(x).name = x
    /\ \A why : Error(why).out = "error"
    /\ NoSNI = Error("no SNI")
BY DEF Short, NoSNI, Told, Error

\* A verdict that answers a request ends the wait.
LEMMA AnswerIsNotShort ==
    ASSUME NEW v, NEW x, Answer(v, x) PROVE v # Short
BY Outcomes DEF Answer

\* What Trim leaves.
LEMMA TrimIsCore ==
    ASSUME NEW s \in Seq(Nat), NEW blanks, NEW i, NEW j, Core(s, blanks, i, j)
    PROVE  Trim(s, blanks) = SubSeq(s, i, j)
<1> DEFINE kept == {k \in DOMAIN s : s[k] \notin blanks}
<1>1. /\ Len(s) \in Nat /\ DOMAIN s = 1 .. Len(s)
      /\ i \in 1 .. Len(s) + 1 /\ j \in i - 1 .. Len(s)
  BY DEF Core
<1>2. \A k \in kept : i <= k /\ k <= j
  BY <1>1 DEF Core
<1>3. CASE i <= j
  <2>1. i \in kept /\ j \in kept
    BY <1>1, <1>3 DEF Core
  <2>2. kept \subseteq Nat
    BY <1>1
  <2> HIDE DEF kept
  <2>3. Min(kept) = i /\ Max(kept) = j
    BY <1>2, <2>1, <2>2, MinIs, MaxIs
  <2>4. Trim(s, blanks) = IF kept = {} THEN <<>> ELSE SubSeq(s, Min(kept), Max(kept))
    BY DEF Trim, kept
  <2> QED
    BY <2>1, <2>3, <2>4
<1>4. CASE j < i
  <2>1. kept = {}
    BY <1>1, <1>2, <1>4
  <2>2. SubSeq(s, i, j) = <<>>
    BY <1>1, <1>4
  <2> QED
    BY <2>1, <2>2 DEF Trim
<1> QED
  BY <1>1, <1>3, <1>4
-----------------------------------------------------------------------------
(* A TLS hello: what the parser makes of it is what it asks for.           *)

\* The body of an entry is bytes.
LEMMA BodyIs ==
    ASSUME NEW e \in Seq(Nat), NEW w \in {1, 2}, NEW p \in 0 .. Len(e), Entry(e, w, p)
    PROVE  Body(e, w, p) \in Seq(Nat)
<1>1. /\ Len(e) \in Nat /\ EntryEnd(e, w, p) \in Nat /\ EntryEnd(e, w, p) <= Len(e)
      /\ EntryEnd(e, w, p) = p + w + 2 + Number(e, p + w, 2)
      /\ Number(e, p + w, 2) \in Nat
  BY EntryFacts DEF Entry, EntryEnd
<1>2. p + w + 3 \in 1 .. Len(e) + 1 /\ EntryEnd(e, w, p) \in p + w + 3 - 1 .. Len(e)
  BY <1>1
<1> QED
  BY <1>2, Stretch DEF Body

\* The first entry of type 0 is there, and so is what is in it.
LEMMA FirstIsEntry ==
    ASSUME NEW e \in Seq(Nat), NEW w \in {1, 2}, NEW p \in 0 .. Len(e),
           Listed(e, w), FirstIs(e, w, p)
    PROVE  Entry(e, w, p) /\ Body(e, w, p) \in Seq(Nat)
<1>1. Entry(e, w, p)
  BY StartsInOrder DEF Listed, FirstIs
<1> QED
  BY <1>1, BodyIs

\* A vector that is the rest of its sequence.
LEMMA VectorToTheEnd ==
    ASSUME NEW d \in Seq(Nat), NEW p \in 0 .. Len(d), Vector(d, 2, p, Len(d))
    PROVE  /\ Has(d, p, 2) /\ Has(d, p + 2, Number(d, p, 2))
           /\ Take(d, p + 2, Number(d, p, 2)) = SubSeq(d, p + 3, Len(d))
           /\ SubSeq(d, p + 3, Len(d)) \in Seq(Nat)
<1>1. /\ Len(d) \in Nat /\ p \in Nat /\ Has(d, p, 2)
      /\ Len(d) = p + 2 + Number(d, p, 2)
  BY DEF Vector
<1>2. Number(d, p, 2) \in Nat
  BY <1>1, NumberIsNat
<1>3. p + 3 \in 1 .. Len(d) + 1 /\ Len(d) \in p + 3 - 1 .. Len(d)
  BY <1>1, <1>2
<1>4. SubSeq(d, p + 3, Len(d)) \in Seq(Nat)
  BY <1>3, Stretch
<1>5. p + 2 + 1 = p + 3
  BY <1>1
<1> QED
  BY <1>1, <1>2, <1>4, <1>5 DEF Has, Take

\* parseServerName tells the name a server_name extension gives.
LEMMA ServerNameIsAsked ==
    ASSUME NEW body \in Seq(Nat), NEW x, ServerNames(body, x)
    PROVE  Answer(ServerName(body), x)
<1>1. CASE body = <<>> /\ x = <<>>
  <2>1. ~Has(body, 0, 2)
    BY <1>1 DEF Has
  <2> QED
    BY <1>1, <2>1, Outcomes DEF ServerName, Answer
<1>2. CASE body # <<>> \/ x # <<>>
  <2> DEFINE list == SubSeq(body, 3, Len(body))
  <2>1. /\ Vector(body, 2, 0, Len(body))
        /\ Listed(list, 1)
        /\ \/ \E p \in 0 .. Len(list) :
                 FirstIs(list, 1, p) /\ NameIs(Body(list, 1, p), x)
           \/ NoneBy(list, 1, Len(list)) /\ x = <<>>
    BY <1>2 DEF ServerNames
  <2>2. /\ Has(body, 0, 2) /\ Has(body, 2, Number(body, 0, 2))
        /\ Take(body, 2, Number(body, 0, 2)) = list
        /\ list \in Seq(Nat)
    <3>1. 0 \in 0 .. Len(body) /\ 0 + 2 = 2 /\ 0 + 3 = 3
      OBVIOUS
    <3> QED
      BY <2>1, <3>1, VectorToTheEnd
  <2> HIDE DEF list
  <2> DEFINE found == FirstOfType0(list, 1)
  <2>3. ServerName(body) = IF found.out # "host" THEN found
                           ELSE IF Trim(found.name, Spaces) = <<>> THEN NoSNI
                           ELSE Told(Trim(found.name, Spaces))
    BY <2>2 DEF ServerName
  <2>4. CASE NoneBy(list, 1, Len(list)) /\ x = <<>>
    <3>1. found = NoSNI
      BY <2>1, <2>2, <2>4, LoopsFindFirst
    <3> QED
      BY <2>3, <2>4, <3>1, Outcomes DEF Answer
  <2>5. ASSUME NEW p \in 0 .. Len(list), FirstIs(list, 1, p), NameIs(Body(list, 1, p), x)
        PROVE  Answer(ServerName(body), x)
    <3>1. found = Told(Body(list, 1, p)) /\ Body(list, 1, p) \in Seq(Nat)
      BY <2>1, <2>2, <2>5, LoopsFindFirst, FirstIsEntry
    <3>2. Trim(Body(list, 1, p), Spaces) = x
      BY <2>5, <3>1, TrimIsCore DEF NameIs
    <3> HIDE DEF found
    <3> QED
      BY <2>3, <3>1, <3>2, Outcomes DEF Answer
  <2> QED
    BY <2>1, <2>4, <2>5
<1> QED
  BY <1>1, <1>2

\* skipVec8 and skipVec16 pass a vector that is there and nothing else.
LEMMA SkipVecIs ==
    ASSUME NEW d \in Seq(Nat), NEW w \in {1, 2}, NEW p \in Nat
    PROVE  /\ \A q \in 0 .. Len(d) : Vector(d, w, p, q) <=> SkipVec(d, p, w) = q
           /\ SkipVec(d, p, w) \in 0 .. Len(d) \/ SkipVec(d, p, w) = Beyond(d)
<1>1. Len(d) \in Nat /\ Beyond(d) \in Nat /\ Beyond(d) = Len(d) + 1
  BY DEF Beyond
<1>2. CASE Has(d, p, w) /\ Has(d, p + w, Number(d, p, w))
  <2>1. Number(d, p, w) \in Nat
    BY <1>2, NumberIsNat
  <2>2. SkipVec(d, p, w) = p + w + Number(d, p, w) /\ p + w + Number(d, p, w) \in 0 .. Len(d)
    BY <1>1, <1>2, <2>1 DEF SkipVec, Has
  <2> QED
    BY <1>1, <1>2, <2>1, <2>2 DEF Vector
<1>3. CASE ~(Has(d, p, w) /\ Has(d, p + w, Number(d, p, w)))
  <2>1. SkipVec(d, p, w) = Beyond(d)
    BY <1>3 DEF SkipVec
  <2>2. ASSUME NEW q \in 0 .. Len(d), Vector(d, w, p, q) PROVE FALSE
    <3>1. Has(d, p, w) /\ q = p + w + Number(d, p, w) /\ q <= Len(d)
      BY <2>2 DEF Vector
    <3> QED
      BY <1>3, <3>1 DEF Has
  <2> QED
    BY <1>1, <2>1, <2>2
<1> QED
  BY <1>2, <1>3

\* The three vectors between random and the extensions.
LEMMA PreambleIs ==
    ASSUME NEW r \in Seq(Nat)
    PROVE  /\ \A p \in 0 .. Len(r) : Fields(r, p) => PreambleEnd(r) = p
           /\ (~ \E p \in 0 .. Len(r) : Fields(r, p)) => PreambleEnd(r) = Beyond(r)
<1> DEFINE s == 11 + RandomLen
           a == SkipVec(r, s, 1)
           b == SkipVec(r, a, 2)
<1>1. /\ s \in Nat /\ 5 + 4 + 2 + RandomLen = s
      /\ Len(r) \in Nat /\ Beyond(r) = Len(r) + 1
  BY RandomAssumption DEF Beyond
<1>2. PreambleEnd(r) = SkipVec(r, b, 1)
  BY <1>1 DEF PreambleEnd
<1>3. \A w \in {1, 2} : SkipVec(r, Beyond(r), w) = Beyond(r)
  BY <1>1 DEF SkipVec, Has
<1>4. ASSUME NEW p \in 0 .. Len(r), Fields(r, p) PROVE PreambleEnd(r) = p
  <2>1. PICK u, v \in 0 .. Len(r) :
           Vector(r, 1, s, u) /\ Vector(r, 2, u, v) /\ Vector(r, 1, v, p)
    BY <1>4 DEF Fields
  <2>2. u \in Nat /\ v \in Nat
    BY <1>1
  <2>3. a = u
    BY <1>1, <2>1, SkipVecIs
  <2> HIDE DEF s, a
  <2>4. b = v
    BY <2>1, <2>2, <2>3, SkipVecIs
  <2> HIDE DEF b
  <2> QED
    BY <1>2, <2>1, <2>2, <2>4, SkipVecIs
<1>5. ASSUME ~ \E p \in 0 .. Len(r) : Fields(r, p)
      PROVE  PreambleEnd(r) = Beyond(r)
  <2>1. a \in 0 .. Len(r) \/ a = Beyond(r)
    BY <1>1, SkipVecIs
  <2>2. b \in 0 .. Len(r) \/ b = Beyond(r)
    <3>1. a \in Nat
      BY <1>1, <2>1
    <3> HIDE DEF a
    <3> QED
      BY <3>1, SkipVecIs
  <2>3. PreambleEnd(r) \in 0 .. Len(r) \/ PreambleEnd(r) = Beyond(r)
    <3>1. b \in Nat
      BY <1>1, <2>2
    <3> HIDE DEF a, b
    <3> QED
      BY <1>2, <3>1, SkipVecIs
  <2>4. ASSUME PreambleEnd(r) # Beyond(r) PROVE FALSE
    <3>1. b # Beyond(r) /\ a # Beyond(r)
      BY <1>2, <1>3, <2>4
    <3>2. a \in 0 .. Len(r) /\ b \in 0 .. Len(r) /\ a \in Nat /\ b \in Nat
      BY <1>1, <2>1, <2>2, <3>1
    <3>3. Vector(r, 1, s, a)
      BY <1>1, <3>2, SkipVecIs
    <3> HIDE DEF s, a
    <3>4. Vector(r, 2, a, b)
      BY <3>2, SkipVecIs
    <3> HIDE DEF b
    <3>5. Vector(r, 1, b, PreambleEnd(r))
      BY <1>2, <2>3, <2>4, <3>2, SkipVecIs
    <3>6. Fields(r, PreambleEnd(r))
      BY <3>2, <3>3, <3>4, <3>5 DEF Fields, s
    <3> QED
      BY <1>5, <2>3, <2>4, <3>6
  <2> QED
    BY <2>4
<1> QED
  BY <1>4, <1>5

\* extractSNI from the extensions on.
FromBlock(e) ==
    IF e.out # "host" THEN e
    ELSE LET sni == FirstOfType0(e.name, 2) IN
         IF sni.out # "host" THEN sni ELSE ServerName(sni.name)

\* extractSNI of a whole record.
LEMMA RecordIsRead ==
    ASSUME NEW r \in Seq(Nat), IsRecord(r)
    PROVE  /\ r[6] # 1 => ExtractSNI(r).out = "error"
           /\ r[6] = 1 => ExtractSNI(r) =
                 IF PreambleEnd(r) = Beyond(r) THEN Short
                 ELSE FromBlock(Extensions(r, PreambleEnd(r)))
<1>1. /\ Len(r) \in Nat /\ Len(r) > 5 /\ r[1] = 22
      /\ Has(r, 3, 2) /\ Len(r) = 3 + 2 + Number(r, 3, 2)
  BY DEF IsRecord, Vector
<1>2. Number(r, 3, 2) \in Nat
  BY <1>1, NumberIsNat
<1>3. Has(r, 0, 5) /\ Has(r, 5, Number(r, 3, 2)) /\ Has(r, 5, 1) /\ r # <<>>
  BY <1>1, <1>2 DEF Has
<1> QED
  BY <1>1, <1>3, Outcomes DEF ExtractSNI, FromBlock

\* Before the record is there as a whole nothing is said of it.
LEMMA PartOfRecordIsShort ==
    ASSUME NEW d \in Seq(Nat), NEW head \in 1 .. Len(d),
           IsRecord(SubSeq(d, 1, head)), NEW k \in 0 .. head - 1
    PROVE  ExtractSNI(SubSeq(d, 1, k)) = Short
<1> DEFINE r == SubSeq(d, 1, head)
           c == SubSeq(d, 1, k)
<1>1. /\ r \in Seq(Nat) /\ Len(r) = head /\ \A i \in 1 .. head : r[i] = d[i]
      /\ c \in Seq(Nat) /\ Len(c) = k /\ \A i \in 1 .. k : c[i] = d[i]
      /\ k \in Nat /\ head \in Nat /\ k < head
  <2>1. /\ Len(d) \in Nat /\ k \in Nat /\ head \in Nat /\ k < head
        /\ 1 \in 1 .. Len(d) + 1 /\ head \in 1 - 1 .. Len(d) /\ k \in 1 - 1 .. Len(d)
    OBVIOUS
  <2> QED
    BY <2>1, Stretch
<1> HIDE DEF r, c
<1>2. Len(r) > 5 /\ r[1] = 22 /\ Has(r, 3, 2) /\ head = 5 + Number(r, 3, 2)
  BY <1>1 DEF IsRecord, Vector, r
<1>3. CASE k = 0
  BY <1>1, <1>3 DEF ExtractSNI, c
<1>4. CASE k > 0
  <2>1. c # <<>> /\ c[1] = 22
    <3>1. 1 \in 1 .. k /\ 1 \in 1 .. head
      BY <1>1, <1>4
    <3>2. c[1] = d[1] /\ r[1] = d[1]
      BY <1>1, <3>1
    <3>3. c # <<>>
      BY <1>1, <1>4
    <3> QED
      BY <1>2, <3>2, <3>3
  <2>2. ASSUME Has(c, 0, 5) PROVE Number(c, 3, 2) = Number(r, 3, 2)
    <3>1. 4 \in 1 .. k /\ 5 \in 1 .. k /\ 4 \in 1 .. head /\ 5 \in 1 .. head
      BY <1>1, <2>2 DEF Has
    <3>2. c[4] = d[4] /\ r[4] = d[4] /\ c[5] = d[5] /\ r[5] = d[5]
      BY <1>1, <3>1
    <3> QED
      BY <3>2 DEF Number
  <2>3. Number(r, 3, 2) \in Nat
    BY <1>1, <1>2, NumberIsNat
  <2>4. ~(Has(c, 0, 5) /\ Has(c, 5, Number(c, 3, 2)))
    BY <1>1, <1>2, <2>2, <2>3 DEF Has
  <2> QED
    BY <2>1, <2>4 DEF ExtractSNI, c
<1> QED
  BY <1>1, <1>3, <1>4

\* Once the server_name extension is found it decides.
LEMMA ServerNameDecides ==
    ASSUME NEW e, NEW body, FirstOfType0(e, 2) = Told(body)
    PROVE  FromBlock(Told(e)) = ServerName(body)
<1>1. /\ Told(e).out = "host" /\ Told(e).name = e
      /\ Told(body).out = "host" /\ Told(body).name = body
  BY Outcomes
<1>2. FromBlock(Told(e)) = IF FirstOfType0(e, 2).out # "host" THEN FirstOfType0(e, 2)
                           ELSE ServerName(FirstOfType0(e, 2).name)
  BY <1>1, Zenon DEF FromBlock
<1> QED
  BY <1>1, <1>2, Zenon

\* A block of extensions.
LEMMA BlockIsAsked ==
    ASSUME NEW e \in Seq(Nat), NEW x, BlockAsks(e, x)
    PROVE  Answer(FromBlock(Told(e)), x)
<1>1. Told(e).out = "host" /\ Told(e).name = e
  BY Outcomes
<1>2. CASE NoneBy(e, 2, Len(e)) /\ x = <<>>
  <2>1. FirstOfType0(e, 2) = NoSNI
    BY <1>2, LoopsFindFirst DEF BlockAsks
  <2> QED
    BY <1>1, <1>2, <2>1, Outcomes DEF FromBlock, Answer
<1>3. ASSUME NEW p \in 0 .. Len(e), FirstIs(e, 2, p), ServerNames(Body(e, 2, p), x)
      PROVE  Answer(FromBlock(Told(e)), x)
  <2>1. Body(e, 2, p) \in Seq(Nat) /\ FirstOfType0(e, 2) = Told(Body(e, 2, p))
    BY <1>3, LoopsFindFirst, FirstIsEntry DEF BlockAsks
  <2>2. Answer(ServerName(Body(e, 2, p)), x)
    BY <1>3, <2>1, ServerNameIsAsked
  <2>3. FromBlock(Told(e)) = ServerName(Body(e, 2, p))
    BY <2>1, ServerNameDecides
  <2> QED
    BY <2>2, <2>3
<1> QED
  BY <1>2, <1>3 DEF BlockAsks

\* extractSNI tells the host a whole ClientHello asks for, and that it asks
\* for none.
THEOREM HelloIsAnswered ==
    ASSUME NEW r \in Seq(Nat), NEW x, HelloAsks(r, x)
    PROVE  Answer(ExtractSNI(r), x)
<1>1. PICK p \in 0 .. Len(r) :
         /\ Fields(r, p)
         /\ \/ p = Len(r) /\ x = <<>>
            \/ /\ Vector(r, 2, p, Len(r))
               /\ BlockAsks(SubSeq(r, p + 3, Len(r)), x)
  BY DEF HelloAsks
<1>2. PreambleEnd(r) = p /\ p # Beyond(r) /\ Len(r) \in Nat /\ p \in Nat
  BY <1>1, PreambleIs DEF Beyond
<1>3. ExtractSNI(r) = FromBlock(Extensions(r, p))
  BY <1>2, RecordIsRead DEF HelloAsks
<1>4. CASE p = Len(r) /\ x = <<>>
  <2>1. Extensions(r, p) = NoSNI
    BY <1>2, <1>4 DEF Extensions, Has
  <2> QED
    BY <1>3, <1>4, <2>1, Outcomes DEF FromBlock, Answer
<1>5. CASE Vector(r, 2, p, Len(r)) /\ BlockAsks(SubSeq(r, p + 3, Len(r)), x)
  <2>1. /\ Extensions(r, p) = Told(SubSeq(r, p + 3, Len(r)))
        /\ SubSeq(r, p + 3, Len(r)) \in Seq(Nat)
    BY <1>5, VectorToTheEnd DEF Extensions
  <2> QED
    BY <1>3, <1>5, <2>1, BlockIsAsked
<1> QED
  BY <1>1, <1>4, <1>5

\* A server_name extension with a list that ends too early, or a name.
LEMMA OverrunOfNames ==
    ASSUME NEW body \in Seq(Nat), Has(body, 0, 2),
           \/ ~Has(body, 2, Number(body, 0, 2))
           \/ /\ Vector(body, 2, 0, Len(body))
              /\ Overrun(SubSeq(body, 3, Len(body)), 1)
    PROVE  ServerName(body) = Short
<1>1. CASE ~Has(body, 2, Number(body, 0, 2))
  BY <1>1 DEF ServerName
<1>2. CASE Vector(body, 2, 0, Len(body)) /\ Overrun(SubSeq(body, 3, Len(body)), 1)
  <2>0. 0 \in 0 .. Len(body) /\ 0 + 2 = 2 /\ 0 + 3 = 3
    OBVIOUS
  <2>1. /\ Has(body, 2, Number(body, 0, 2))
        /\ Take(body, 2, Number(body, 0, 2)) = SubSeq(body, 3, Len(body))
        /\ SubSeq(body, 3, Len(body)) \in Seq(Nat)
    BY <1>2, <2>0, VectorToTheEnd
  <2>2. FirstOfType0(SubSeq(body, 3, Len(body)), 1) = Short
    BY <1>2, <2>1, LoopsFindFirst
  <2> QED
    BY <2>1, <2>2, Outcomes DEF ServerName
<1> QED
  BY <1>1, <1>2

\* Of a hello that contradicts itself, extractSNI never has enough.
LEMMA OverlongIsShort ==
    ASSUME NEW r \in Seq(Nat), Overlong(r)
    PROVE  ExtractSNI(r) = Short
<1>1. CASE ~ \E p \in 0 .. Len(r) : Fields(r, p)
  <2>1. PreambleEnd(r) = Beyond(r)
    BY <1>1, PreambleIs
  <2> QED
    BY <2>1, RecordIsRead DEF Overlong
<1>2. ASSUME NEW p \in 0 .. Len(r), Fields(r, p), Has(r, p, 2),
             \/ ~Has(r, p + 2, Number(r, p, 2))
             \/ /\ Vector(r, 2, p, Len(r))
                /\ LET block == SubSeq(r, p + 3, Len(r)) IN
                   \/ Overrun(block, 2)
                   \/ \E q \in 0 .. Len(block) :
                         /\ FirstIs(block, 2, q)
                         /\ Entry(block, 2, q)
                         /\ LET body == Body(block, 2, q) IN
                            /\ Has(body, 0, 2)
                            /\ \/ ~Has(body, 2, Number(body, 0, 2))
                               \/ /\ Vector(body, 2, 0, Len(body))
                                  /\ Overrun(SubSeq(body, 3, Len(body)), 1)
      PROVE  ExtractSNI(r) = Short
  <2>1. PreambleEnd(r) = p /\ p # Beyond(r)
    BY <1>2, PreambleIs DEF Beyond
  <2>2. ExtractSNI(r) = FromBlock(Extensions(r, p))
    BY <2>1, RecordIsRead DEF Overlong
  <2>3. CASE ~Has(r, p + 2, Number(r, p, 2))
    <3>1. Extensions(r, p) = Short
      BY <1>2, <2>3 DEF Extensions
    <3> QED
      BY <2>2, <3>1, Outcomes DEF FromBlock
  <2>4. CASE Vector(r, 2, p, Len(r))
    <3> DEFINE block == SubSeq(r, p + 3, Len(r))
    <3>1. Extensions(r, p) = Told(block) /\ block \in Seq(Nat)
      BY <2>4, VectorToTheEnd DEF Extensions
    <3>2. \/ Overrun(block, 2)
          \/ \E q \in 0 .. Len(block) :
                /\ FirstIs(block, 2, q)
                /\ Entry(block, 2, q)
                /\ Has(Body(block, 2, q), 0, 2)
                /\ \/ ~Has(Body(block, 2, q), 2, Number(Body(block, 2, q), 0, 2))
                   \/ /\ Vector(Body(block, 2, q), 2, 0, Len(Body(block, 2, q)))
                      /\ Overrun(SubSeq(Body(block, 2, q), 3, Len(Body(block, 2, q))), 1)
      BY <1>2, <2>4, VectorToTheEnd
    <3> HIDE DEF block
    <3>3. Told(block).out = "host" /\ Told(block).name = block
      BY Outcomes
    <3>4. CASE Overrun(block, 2)
      BY <2>2, <3>1, <3>3, <3>4, LoopsFindFirst, Outcomes DEF FromBlock
    <3>5. ASSUME NEW q \in 0 .. Len(block),
                 FirstIs(block, 2, q), Entry(block, 2, q),
                 Has(Body(block, 2, q), 0, 2),
                 \/ ~Has(Body(block, 2, q), 2, Number(Body(block, 2, q), 0, 2))
                 \/ /\ Vector(Body(block, 2, q), 2, 0, Len(Body(block, 2, q)))
                    /\ Overrun(SubSeq(Body(block, 2, q), 3, Len(Body(block, 2, q))), 1)
          PROVE  ExtractSNI(r) = Short
      <4>1. FirstOfType0(block, 2) = Told(Body(block, 2, q)) /\ Body(block, 2, q) \in Seq(Nat)
        BY <3>1, <3>5, LoopsFindFirst, BodyIs
      <4>2. ServerName(Body(block, 2, q)) = Short
        BY <3>5, <4>1, OverrunOfNames
      <4>3. FromBlock(Told(block)) = ServerName(Body(block, 2, q))
        BY <4>1, ServerNameDecides
      <4> QED
        BY <2>2, <3>1, <4>2, <4>3
    <3> QED
      BY <3>2, <3>4, <3>5
  <2> QED
    BY <1>2, <2>3, <2>4
<1> QED
  BY <1>1, <1>2 DEF Overlong
-----------------------------------------------------------------------------
(* An HTTP request: what the parser says of a beginning holds of the whole. *)

\* f starts with d.
Begins(d, f) ==
    /\ d \in Seq(Nat) /\ f \in Seq(Nat)
    /\ Len(d) <= Len(f)
    /\ \A i \in 1 .. Len(d) : f[i] = d[i]

\* What is in d is in f.
LEMMA Beginning ==
    ASSUME NEW d, NEW f, Begins(d, f)
    PROVE  /\ Len(d) \in Nat /\ Len(f) \in Nat /\ Len(d) <= Len(f)
           /\ \A k \in 1 .. Len(d) : f[k] = d[k]
<1>1. d \in Seq(Nat) /\ f \in Seq(Nat)
  BY DEF Begins
<1>2. Len(d) \in Nat /\ Len(f) \in Nat
  BY <1>1
<1> QED
  BY <1>2 DEF Begins

\* The ends of lines in d are those of f that d has all of.
LEMMA LineEnds ==
    ASSUME NEW d, NEW f, Begins(d, f), NEW i \in Int
    PROVE  /\ LineEnd(d, i) => LineEnd(f, i)
           /\ LineEnd(f, i) /\ i < Len(d) => LineEnd(d, i)
<1>1. /\ Len(d) \in Nat /\ Len(f) \in Nat /\ Len(d) <= Len(f)
      /\ \A k \in 1 .. Len(d) : f[k] = d[k]
  BY Beginning
<1>2. ASSUME i \in 1 .. Len(d) - 1
      PROVE  /\ i \in 1 .. Len(f) - 1
             /\ f[i] = d[i] /\ f[i + 1] = d[i + 1]
  <2>1. i \in 1 .. Len(d) /\ i + 1 \in 1 .. Len(d) /\ i \in 1 .. Len(f) - 1
    BY <1>1, <1>2
  <2> QED
    BY <1>1, <2>1
<1>3. LineEnd(d, i) => LineEnd(f, i)
  BY <1>2 DEF LineEnd
<1>4. ASSUME LineEnd(f, i), i < Len(d) PROVE LineEnd(d, i)
  <2>1. i \in 1 .. Len(d) - 1
    BY <1>1, <1>4 DEF LineEnd
  <2> QED
    BY <1>2, <1>4, <2>1 DEF LineEnd
<1> QED
  BY <1>3, <1>4

\* The starts of lines in d are those of f.
LEMMA LineStarts ==
    ASSUME NEW d, NEW f, Begins(d, f), NEW s \in 1 .. Len(d)
    PROVE  LineStart(d, s) <=> LineStart(f, s)
<1>1. s \in Int /\ s - 2 \in Int /\ s - 2 < Len(d)
  BY DEF Begins
<1> QED
  BY <1>1, LineEnds DEF LineStart

\* A line that has its end in d has it there in f.
LEMMA HostLineStays ==
    ASSUME NEW d, NEW f, Begins(d, f), NEW s, NEW t, HostLine(d, s, t)
    PROVE  HostLine(f, s, t)
<1>1. /\ s \in 1 .. Len(d) /\ s \in Int /\ Len(d) \in Nat /\ Len(f) \in Nat
      /\ t \in 1 .. Len(d) - 1 /\ t \in Int
      /\ f[s] = HostField
  <2>1. Len(d) \in Nat /\ Len(f) \in Nat /\ \A k \in 1 .. Len(d) : f[k] = d[k]
    BY Beginning
  <2>2. s \in 1 .. Len(d) /\ d[s] = HostField /\ t \in 1 .. Len(d) - 1
    BY DEF HostLine, LineEnd
  <2> QED
    BY <2>1, <2>2
<1>2. s \in 1 .. Len(f) /\ LineStart(f, s) /\ s <= t /\ LineEnd(f, t)
  <2>1. LineStart(f, s)
    BY <1>1, LineStarts DEF HostLine
  <2>2. LineEnd(f, t)
    BY <1>1, LineEnds DEF HostLine
  <2> QED
    BY <1>1, <2>1, <2>2 DEF HostLine, Begins
<1>3. ASSUME NEW i \in 1 .. s - 1, Terminator(f, i) PROVE FALSE
  <2>1. /\ i \in Int /\ i + 2 \in Int
        /\ f[i + 1] = LF /\ f[i + 2] = CR /\ f[i + 3] = LF
    BY <1>1, <1>3 DEF Terminator, LineEnd
  <2>2. i + 3 < s
    <3>1. s # i + 1 /\ s # i + 2 /\ s # i + 3
      BY <1>1, <2>1 DEF HostField, CR, LF
    <3> QED
      BY <1>1, <3>1
  <2>3. Terminator(d, i)
    BY <1>1, <1>3, <2>1, <2>2, LineEnds DEF Terminator
  <2> QED
    BY <2>3 DEF HostLine
<1>4. ASSUME NEW i \in s .. t - 1, LineEnd(f, i) PROVE FALSE
  <2>1. i \in Int /\ i < Len(d)
    BY <1>1
  <2> QED
    BY <2>1, <1>4, LineEnds DEF HostLine
<1> QED
  BY <1>1, <1>2, <1>3, <1>4 DEF HostLine

\* A line of f that ends in d is a line of d.
LEMMA HostLineWasThere ==
    ASSUME NEW d, NEW f, Begins(d, f), NEW s, NEW t, HostLine(f, s, t), t < Len(d)
    PROVE  HostLine(d, s, t)
<1>1. /\ s \in 1 .. Len(f) /\ s \in Int /\ Len(d) \in Nat /\ Len(f) \in Nat
      /\ t \in Int /\ s <= t /\ s \in 1 .. Len(d)
  <2>1. Len(d) \in Nat /\ Len(f) \in Nat
    BY Beginning
  <2>2. s \in 1 .. Len(f) /\ s <= t /\ t \in 1 .. Len(f) - 1
    BY DEF HostLine, LineEnd
  <2> QED
    BY <2>1, <2>2
<1>2. d[s] = HostField /\ LineStart(d, s) /\ LineEnd(d, t)
  BY <1>1, LineStarts, LineEnds DEF HostLine, Begins
<1>3. ASSUME NEW i \in 1 .. s - 1, Terminator(d, i) PROVE FALSE
  <2>1. Terminator(f, i)
    BY <1>1, <1>3, LineEnds DEF Terminator
  <2> QED
    BY <2>1 DEF HostLine
<1>4. ASSUME NEW i \in s .. t - 1, LineEnd(d, i) PROVE FALSE
  <2>1. LineEnd(f, i)
    BY <1>1, <1>4, LineEnds
  <2> QED
    BY <2>1 DEF HostLine
<1> QED
  BY <1>1, <1>2, <1>3, <1>4 DEF HostLine

\* The end of a line is the first there is.
LEMMA EndIsFirst ==
    ASSUME NEW f \in Seq(Nat), NEW s, NEW t, HostLine(f, s, t),
           NEW i \in Int, s <= i, LineEnd(f, i)
    PROVE  t <= i
<1> QED
  BY DEF HostLine, LineEnd

\* No line comes before the first of d.
LEMMA NoneBefore ==
    ASSUME NEW d, NEW f, Begins(d, f), NEW s, NEW t, HostLine(d, s, t),
           NEW r, NEW u, HostLine(f, r, u), r <= s
    PROVE  HostLine(d, r, u)
<1>1. /\ s \in Int /\ r \in Int /\ u \in Int /\ t \in Int
      /\ Len(d) \in Nat /\ f \in Seq(Nat) /\ s <= Len(d)
      /\ t < Len(d) /\ s <= t
  <2>1. f \in Seq(Nat) /\ Len(d) \in Nat /\ Len(f) \in Nat
    BY DEF Begins
  <2>2. s \in 1 .. Len(d) /\ s <= t /\ t \in 1 .. Len(d) - 1
    BY DEF HostLine, LineEnd
  <2>3. r \in 1 .. Len(f) /\ u \in 1 .. Len(f) - 1
    BY DEF HostLine, LineEnd
  <2> QED
    BY <2>1, <2>2, <2>3
<1>2. HostLine(f, s, t)
  BY HostLineStays
<1>3. CASE r = s
  <2>1. LineEnd(f, t)
    BY <1>2 DEF HostLine
  <2>2. u <= t
    BY <1>1, <1>3, <2>1, EndIsFirst
  <2> QED
    BY <1>1, <2>2, HostLineWasThere
<1>4. CASE r < s
  <2>1. LineEnd(f, s - 2) /\ f[s - 1] = LF /\ f[r] = HostField
    BY <1>1, <1>2, <1>4 DEF HostLine, LineStart, LineEnd
  <2>2. r <= s - 2 /\ s - 2 \in Int
    <3>1. r # s - 1
      BY <2>1 DEF HostField, LF
    <3>2. \A a, b \in Int : a < b /\ a # b - 1 => a <= b - 2 /\ b - 2 \in Int
      OBVIOUS
    <3> QED
      BY <1>1, <1>4, <3>1, <3>2
  <2>3. u <= s - 2
    BY <1>1, <2>1, <2>2, EndIsFirst
  <2>4. u < Len(d)
    BY <1>1, <2>3
  <2> QED
    BY <2>4, HostLineWasThere
<1> QED
  BY <1>1, <1>3, <1>4

\* Whatever follows, a verdict on a request stays.
THEOREM PlainVerdictIsFinal ==
    ASSUME NEW d, NEW f, Begins(d, f), ExtractHTTPHost(d) # Short
    PROVE  ExtractHTTPHost(f) = ExtractHTTPHost(d)
<1> DEFINE Lines(g) == {s \in 1 .. Len(g) : \E t \in 1 .. Len(g) : HostLine(g, s, t)}
           EndOf(g, s) == CHOOSE t \in 1 .. Len(g) : HostLine(g, s, t)
<1>1. /\ Len(d) \in Nat /\ Len(f) \in Nat /\ Len(d) <= Len(f)
      /\ d \in Seq(Nat) /\ f \in Seq(Nat)
      /\ Lines(d) \subseteq Nat /\ Lines(f) \subseteq Nat
  BY DEF Begins
<1>2. CASE Lines(d) # {}
  <2> DEFINE s == Min(Lines(d))
             t == EndOf(d, s)
  <2>1. s \in Lines(d) /\ \A k \in Lines(d) : s <= k
    BY <1>1, <1>2, MinOfNaturals
  <2>2. t \in 1 .. Len(d) /\ HostLine(d, s, t)
    BY <2>1
  <2> HIDE DEF s, t
  <2>3. HostLine(f, s, t)
    BY <2>2, HostLineStays
  <2>4. s \in Lines(f)
    BY <1>1, <2>1, <2>2, <2>3
  <2>5. ASSUME NEW r \in Lines(f), r <= s PROVE r \in Lines(d)
    <3>1. PICK u : HostLine(f, r, u)
      BY <2>5
    <3>2. HostLine(d, r, u)
      BY <2>2, <2>5, <3>1, NoneBefore
    <3>3. r \in 1 .. Len(d) /\ u \in 1 .. Len(d)
      BY <1>1, <3>2 DEF HostLine, LineEnd
    <3> QED
      BY <3>2, <3>3
  <2>6. Min(Lines(f)) = s
    <3> s \in Nat
      BY <1>1, <2>1
    <3>1. \A r \in Lines(f) : s <= r
      <4> SUFFICES ASSUME NEW r \in Lines(f), r < s PROVE FALSE
        BY <1>1
      <4>1. r \in Nat /\ r <= s
        BY <1>1
      <4>2. r \in Lines(d)
        BY <4>1, <2>5
      <4> HIDE DEF Lines
      <4> QED
        BY <2>1, <4>1, <4>2
    <3>2. Min(Lines(f)) \in Lines(f) /\ \A r \in Lines(f) : Min(Lines(f)) <= r
      BY <1>1, <2>4, MinOfNaturals
    <3> HIDE DEF Lines
    <3>3. s <= Min(Lines(f)) /\ Min(Lines(f)) <= s /\ Min(Lines(f)) \in Nat
      BY <1>1, <2>4, <3>1, <3>2
    <3> QED
      BY <3>3
  <2>7. EndOf(f, s) = t
    <3>1. \E u \in 1 .. Len(f) : HostLine(f, s, u)
      BY <2>4
    <3>2. HostLine(f, s, EndOf(f, s)) /\ EndOf(f, s) \in 1 .. Len(f)
      BY <3>1
    <3> HIDE DEF EndOf
    <3>3. LineEnd(f, EndOf(f, s)) /\ LineEnd(f, t) /\ s <= t /\ s <= EndOf(f, s)
      BY <2>3, <3>2 DEF HostLine
    <3>4. t <= EndOf(f, s) /\ EndOf(f, s) <= t
      BY <1>1, <2>2, <2>3, <3>2, <3>3, EndIsFirst
    <3> QED
      BY <1>1, <2>2, <3>2, <3>4
  <2>8. SubSeq(f, s + 1, t - 1) = SubSeq(d, s + 1, t - 1)
    <3>1. s \in Nat /\ t \in Nat /\ t <= Len(d)
      BY <1>1, <2>1, <2>2
    <3> QED
      BY <1>1, <3>1 DEF Begins
  <2>9. Lines(f) # {}
    BY <2>4
  <2>10. EndOf(d, s) = t
    BY DEF t
  <2> DEFINE Of(g, u, v) == LET host == HostOf(SubSeq(g, u + 1, v - 1)) IN
                            IF host = <<>> THEN Error("empty Host") ELSE Told(host)
  <2>11. ExtractHTTPHost(d) = Of(d, Min(Lines(d)), EndOf(d, Min(Lines(d))))
    BY <1>2 DEF ExtractHTTPHost
  <2>12. ExtractHTTPHost(f) = Of(f, Min(Lines(f)), EndOf(f, Min(Lines(f))))
    BY <2>9 DEF ExtractHTTPHost
  <2>13. ExtractHTTPHost(d) = Of(d, s, t)
    BY <2>11 DEF s, t
  <2>14. ExtractHTTPHost(f) = Of(f, s, t)
    BY <2>6, <2>7, <2>12
  <2> QED
    BY <2>8, <2>13, <2>14
<1>3. CASE Lines(d) = {}
  <2>1. PICK i \in 1 .. Len(d) : Terminator(d, i)
    BY <1>3 DEF ExtractHTTPHost, Terminated
  <2>2. /\ i \in Int /\ i + 2 \in Int /\ i < Len(d) /\ i \in 1 .. Len(f)
        /\ LineEnd(f, i) /\ Terminator(f, i)
    <3>1. LineEnd(d, i) /\ LineEnd(d, i + 2)
      BY <2>1 DEF Terminator
    <3>2. i \in Int /\ i + 2 \in Int /\ i < Len(d) /\ i \in 1 .. Len(f)
      <4>1. i \in 1 .. Len(d) - 1
        BY <3>1 DEF LineEnd
      <4>2. Len(d) \in Nat /\ Len(f) \in Nat /\ Len(d) <= Len(f)
        BY Beginning
      <4> QED
        BY <4>1, <4>2
    <3>3. LineEnd(f, i) /\ LineEnd(f, i + 2)
      BY <3>1, <3>2, LineEnds
    <3> QED
      BY <3>2, <3>3 DEF Terminator
  <2>3. ASSUME NEW s \in 1 .. Len(f), NEW t \in 1 .. Len(f), HostLine(f, s, t)
        PROVE FALSE
    <3>1. s <= i
      BY <1>1, <2>2, <2>3 DEF HostLine
    <3>2. t <= i
      BY <1>1, <2>2, <2>3, <3>1, EndIsFirst
    <3>3. HostLine(d, s, t)
      BY <1>1, <2>2, <2>3, <3>2, HostLineWasThere
    <3>4. s \in Lines(d)
      BY <1>1, <2>2, <3>1, <3>2, <3>3
    <3> QED
      BY <1>3, <3>4
  <2>4. Lines(f) = {} /\ Terminated(f)
    BY <2>2, <2>3 DEF Terminated
  <2>5. Terminated(d)
    BY <2>1 DEF Terminated
  <2> QED
    BY <1>3, <2>4, <2>5 DEF ExtractHTTPHost
<1> QED
  BY <1>2, <1>3
-----------------------------------------------------------------------------
(* An HTTP request: what the parser makes of it is what it asks for.       *)

\* What StripPort leaves of a host and a port.
LEMMA StripPortLeavesHost ==
    ASSUME NEW v \in Seq(Nat), NEW k \in 0 .. Len(v),
           \/ \A i \in 1 .. k : v[i] \notin Brackets \cup {Colon}
           \/ /\ k > 1 /\ v[1] # Closing /\ v[1] # Colon /\ v[k] = Closing
              /\ \A i \in 2 .. k - 1 : v[i] \notin Brackets,
           k < Len(v) => /\ v[k + 1] = Colon
                         /\ \A i \in k + 2 .. Len(v) : v[i] \notin Brackets \cup {Colon}
    PROVE  StripPort(v) = SubSeq(v, 1, k)
<1> DEFINE colons == {i \in DOMAIN v : v[i] = Colon}
           last == Max(colons)
<1>1. /\ Len(v) \in Nat /\ DOMAIN v = 1 .. Len(v) /\ k \in Nat /\ k <= Len(v)
      /\ Closing \in Brackets /\ Closing # Colon
      /\ colons \subseteq 1 .. Len(v)
  BY DEF Brackets, Closing, Colon
<1>2. StripPort(v) = IF /\ colons # {}
                        /\ \/ \A i \in DOMAIN v : v[i] # Closing
                           \/ last > 1 /\ v[last - 1] = Closing
                     THEN SubSeq(v, 1, last - 1) ELSE v
  BY DEF StripPort
<1>3. CASE k < Len(v)
  <2>1. k + 1 \in colons /\ \A i \in colons : i <= k + 1
    BY <1>1, <1>3
  <2>0. colons \subseteq Nat
    BY <1>1
  <2> HIDE DEF colons
  <2>2. last = k + 1
    BY <2>0, <2>1, MaxIs
  <2> HIDE DEF last
  <2>3. (\A i \in DOMAIN v : v[i] # Closing) \/ (last > 1 /\ v[last - 1] = Closing)
    <3>1. CASE \A i \in 1 .. k : v[i] \notin Brackets \cup {Colon}
      BY <1>1, <1>3, <3>1
    <3>2. CASE k > 1 /\ v[k] = Closing
      BY <1>1, <2>2, <3>2
    <3> QED
      BY <3>1, <3>2
  <2> QED
    BY <1>1, <1>2, <2>1, <2>2, <2>3
<1>4. CASE k = Len(v)
  <2>1. CASE \A i \in 1 .. k : v[i] \notin Brackets \cup {Colon}
    <3>1. colons = {}
      BY <1>1, <1>4, <2>1
    <3> QED
      BY <1>1, <1>2, <1>4, <3>1
  <2>2. CASE /\ k > 1 /\ v[1] # Closing /\ v[1] # Colon /\ v[k] = Closing
             /\ \A i \in 2 .. k - 1 : v[i] \notin Brackets
    <3>1. CASE colons # {}
      <4>1. PICK m \in colons : \A i \in colons : i <= m
        <5>1. colons \subseteq 1 .. Len(v) /\ Len(v) \in Nat
          BY <1>1
        <5> HIDE DEF colons
        <5> QED
          BY <3>1, <5>1, MaxOfBounded
      <4>2. last = m
        <5>1. \A i \in colons : i \in Nat
          BY <1>1
        <5>2. colons \subseteq Nat
          BY <5>1
        <5> HIDE DEF colons
        <5> QED
          BY <4>1, <5>2, MaxIs
      <4>3. m \in 2 .. k - 1
        BY <1>1, <1>4, <2>2, <4>1
      <4>4. v[m - 1] # Closing
        BY <1>1, <2>2, <4>3
      <4>5. ~ \A i \in DOMAIN v : v[i] # Closing
        BY <1>1, <2>2
      <4> HIDE DEF last, colons
      <4> QED
        BY <1>1, <1>2, <1>4, <4>2, <4>4, <4>5
    <3>2. CASE colons = {}
      BY <1>1, <1>2, <1>4, <3>2
    <3> QED
      BY <3>1, <3>2
  <2> QED
    BY <2>1, <2>2
<1>5. k < Len(v) \/ k = Len(v)
  <2>1. k \in Int /\ Len(v) \in Int /\ k <= Len(v)
    BY <1>1
  <2> QED
    BY ONLY <2>1
<1> QED
  BY <1>3, <1>4, <1>5

\* The name of a Host line's value.
LEMMA HostOfValue ==
    ASSUME NEW v \in Seq(Nat), NEW x, ValueAsks(v, x)
    PROVE  HostOf(v) = x
<1>1. PICK i \in 1 .. Len(v) + 1, j \in 0 .. Len(v) :
         Core(v, Spaces, i, j) /\ HostAndPort(SubSeq(v, i, j), x)
  BY DEF ValueAsks
<1> DEFINE c == SubSeq(v, i, j)
<1>2. c \in Seq(Nat) /\ Trim(v, Spaces) = c
  <2>1. j \in i - 1 .. Len(v)
    BY <1>1 DEF Core
  <2>2. c \in Seq(Nat)
    BY <2>1, Stretch
  <2>3. Trim(v, Spaces) = c
    BY <1>1, TrimIsCore
  <2> QED
    BY <2>2, <2>3
<1>3. HostAndPort(c, x)
  BY <1>1
<1> HIDE DEF c
<1>4. PICK k \in 0 .. Len(c) :
        /\ LET host == SubSeq(c, 1, k) IN
           /\ \A m \in 1 .. k : host[m] \notin Spaces
           /\ \/ x = host /\ \A m \in 1 .. k : host[m] \notin Brackets \cup {Colon}
              \/ /\ k > 1 /\ host[1] \in Brackets \ {Closing} /\ host[k] = Closing
                 /\ x = SubSeq(host, 2, k - 1)
                 /\ \A m \in 2 .. k - 1 : host[m] \notin Brackets
        /\ k < Len(c) => /\ c[k + 1] = Colon
                         /\ \A m \in k + 2 .. Len(c) : c[m] \notin Brackets \cup {Colon}
  BY <1>3 DEF HostAndPort
<1> DEFINE h == SubSeq(c, 1, k)
<1>5. /\ Len(c) \in Nat /\ k \in Nat /\ h \in Seq(Nat) /\ Len(h) = k
      /\ \A m \in 1 .. k : h[m] = c[m]
  BY <1>2
<1>6. Colon \notin Brackets /\ Closing \in Brackets
  BY DEF Colon, Brackets, Closing
<1> HIDE DEF h
<1>7. /\ \A m \in 1 .. k : h[m] \notin Spaces
      /\ \/ x = h /\ \A m \in 1 .. k : h[m] \notin Brackets \cup {Colon}
         \/ /\ k > 1 /\ h[1] \in Brackets \ {Closing} /\ h[k] = Closing
            /\ x = SubSeq(h, 2, k - 1)
            /\ \A m \in 2 .. k - 1 : h[m] \notin Brackets
  BY <1>4 DEF h
<1>8. StripPort(c) = h
  <2>1. \/ \A m \in 1 .. k : c[m] \notin Brackets \cup {Colon}
        \/ /\ k > 1 /\ c[1] # Closing /\ c[1] # Colon /\ c[k] = Closing
           /\ \A m \in 2 .. k - 1 : c[m] \notin Brackets
    BY <1>5, <1>6, <1>7
  <2> QED
    BY <1>2, <1>4, <2>1, StripPortLeavesHost DEF h
<1>9. Trim(h, Brackets) = x /\ x \in Seq(Nat) /\ \A m \in 1 .. Len(x) : x[m] \notin Spaces
  <2>1. CASE x = h /\ \A m \in 1 .. k : h[m] \notin Brackets \cup {Colon}
    <3>1. Core(h, Brackets, 1, k)
      BY <1>5, <2>1 DEF Core
    <3>2. SubSeq(h, 1, k) = h
      BY <1>5
    <3>3. Trim(h, Brackets) = SubSeq(h, 1, k)
      BY <1>5, <3>1, TrimIsCore
    <3> QED
      BY <1>5, <1>7, <2>1, <3>2, <3>3
  <2>2. CASE /\ k > 1 /\ h[1] \in Brackets \ {Closing} /\ h[k] = Closing
             /\ x = SubSeq(h, 2, k - 1)
             /\ \A m \in 2 .. k - 1 : h[m] \notin Brackets
    <3>0. 2 \in 1 .. Len(h) + 1 /\ k - 1 \in 2 - 1 .. Len(h)
      BY <1>5, <2>2
    <3>1. Core(h, Brackets, 2, k - 1)
      <4>1. \A m \in DOMAIN h : m < 2 \/ m > k - 1 => m = 1 \/ m = k
        BY <1>5
      <4>2. h[1] \in Brackets /\ h[k] \in Brackets
        BY <1>6, <2>2
      <4>3. 2 <= k - 1 => h[2] \notin Brackets /\ h[k - 1] \notin Brackets
        BY <1>5, <2>2
      <4> QED
        BY <3>0, <4>1, <4>2, <4>3 DEF Core
    <3>2. x \in Seq(Nat) /\ Len(x) = k - 2 /\ \A m \in 1 .. k - 2 : x[m] = h[m + 1]
      <4>1. /\ x \in Seq(Nat) /\ Len(x) = k - 1 - 2 + 1
            /\ \A m \in 1 .. k - 1 - 2 + 1 : x[m] = h[m + 2 - 1]
        <5>1. /\ SubSeq(h, 2, k - 1) \in Seq(Nat)
              /\ Len(SubSeq(h, 2, k - 1)) = k - 1 - 2 + 1
              /\ \A m \in 1 .. k - 1 - 2 + 1 : SubSeq(h, 2, k - 1)[m] = h[m + 2 - 1]
          BY <1>5, <3>0, Stretch
        <5> QED
          BY <2>2, <5>1
      <4>2. k - 1 - 2 + 1 = k - 2 /\ \A m \in 1 .. k - 2 : m + 2 - 1 = m + 1
        BY <1>5
      <4> QED
        BY <4>1, <4>2
    <3>3. \A m \in 1 .. Len(x) : x[m] \notin Spaces
      <4>1. \A m \in 1 .. k - 2 : m + 1 \in 1 .. k
        BY <1>5
      <4> QED
        BY <1>7, <3>2, <4>1
    <3>4. Trim(h, Brackets) = SubSeq(h, 2, k - 1)
      BY <1>5, <3>1, TrimIsCore
    <3> QED
      BY <2>2, <3>2, <3>3, <3>4
  <2> QED
    BY <1>7, <2>1, <2>2
<1>10. Trim(x, Spaces) = x
  <2>0. x \in Seq(Nat)
    BY <1>9
  <2>1. Core(x, Spaces, 1, Len(x))
    BY <1>9 DEF Core
  <2>2. SubSeq(x, 1, Len(x)) = x
    BY <1>9
  <2>3. Trim(x, Spaces) = SubSeq(x, 1, Len(x))
    BY <2>0, <2>1, TrimIsCore
  <2> QED
    BY <2>2, <2>3
<1> QED
  BY <1>2, <1>8, <1>9, <1>10 DEF HostOf

\* The only empty line of a head is its end.
LEMMA HeadEnds ==
    ASSUME NEW h \in Seq(Nat), IsHead(h), NEW s \in HostLines(h)
    PROVE  \A i \in 1 .. s - 1 : ~Terminator(h, i)
<1>1. /\ Len(h) \in Nat /\ Len(h) > 3 /\ s \in 1 .. Len(h) /\ h[s] = HostField
      /\ DOMAIN h = 1 .. Len(h)
  BY DEF IsHead, HostLines
<1>2. h[Len(h) - 2] = LF /\ h[Len(h) - 1] = CR /\ h[Len(h)] = LF
  <2>1. LineEnd(h, Len(h) - 3) /\ LineEnd(h, Len(h) - 3 + 2)
    BY DEF IsHead, Terminator
  <2>2. Len(h) - 3 + 1 = Len(h) - 2 /\ Len(h) - 3 + 2 = Len(h) - 1 /\ Len(h) - 3 + 2 + 1 = Len(h)
    BY <1>1
  <2> QED
    BY <2>1, <2>2 DEF LineEnd
<1>3. s <= Len(h) - 3
  <2>1. h[s] # LF /\ h[s] # CR
    BY <1>1 DEF HostField, CR, LF
  <2>2. s # Len(h) - 2 /\ s # Len(h) - 1 /\ s # Len(h)
    BY <1>2, <2>1
  <2>3. \A l \in Nat : \A a \in 1 .. l : a # l - 2 /\ a # l - 1 /\ a # l => a <= l - 3
    OBVIOUS
  <2> QED
    BY <1>1, <2>2, <2>3
<1> QED
  BY <1>1, <1>3 DEF IsHead

\* extractHTTPHost tells the host the head of a request asks for, and that
\* it asks for none.
THEOREM HeadIsAnswered ==
    ASSUME NEW h \in Seq(Nat), NEW x, HeadAsks(h, x)
    PROVE  Answer(ExtractHTTPHost(h), x)
<1> DEFINE lines == {s \in 1 .. Len(h) : \E t \in 1 .. Len(h) : HostLine(h, s, t)}
           EndOf(s) == CHOOSE t \in 1 .. Len(h) : HostLine(h, s, t)
<1>1. Len(h) \in Nat /\ DOMAIN h = 1 .. Len(h) /\ lines \subseteq Nat
  OBVIOUS
<1>2. lines \subseteq HostLines(h)
  BY <1>1 DEF HostLine, HostLines
<1>3. CASE HostLines(h) = {} /\ x = <<>>
  <2>1. lines = {}
    BY <1>2, <1>3
  <2>2. Terminated(h)
    <3>1. Len(h) - 3 \in 1 .. Len(h) /\ Terminator(h, Len(h) - 3)
      BY <1>1 DEF HeadAsks, IsHead
    <3> QED
      BY <3>1 DEF Terminated
  <2>3. ExtractHTTPHost(h) = Error("no Host header")
    BY <2>1, <2>2 DEF ExtractHTTPHost
  <2> QED
    BY <1>3, <2>3, Outcomes DEF Answer
<1>4. ASSUME NEW s \in HostLines(h), NEW t \in DOMAIN h,
             \A r \in HostLines(h) : s <= r,
             s <= t, LineEnd(h, t), \A i \in s .. t - 1 : ~LineEnd(h, i),
             ValueAsks(SubSeq(h, s + 1, t - 1), x)
      PROVE  Answer(ExtractHTTPHost(h), x)
  <2>1. s \in 1 .. Len(h) /\ t \in 1 .. Len(h) /\ h[s] = HostField /\ LineStart(h, s)
    BY <1>1 DEF HostLines
  <2>2. HostLine(h, s, t)
    BY <1>4, <2>1, HeadEnds DEF HostLine, HeadAsks
  <2>3. s \in lines
    BY <2>1, <2>2
  <2>4. Min(lines) = s
    <3>1. \A r \in lines : s <= r
      BY <1>2, <1>4
    <3> HIDE DEF lines
    <3> QED
      BY <1>1, <2>3, <3>1, MinIs
  <2>5. EndOf(s) = t
    <3>1. EndOf(s) \in 1 .. Len(h) /\ HostLine(h, s, EndOf(s))
      BY <2>1, <2>2
    <3> HIDE DEF EndOf
    <3>2. LineEnd(h, EndOf(s)) /\ s <= EndOf(s) /\ EndOf(s) \in Int /\ t \in Int
      BY <2>1, <3>1 DEF HostLine
    <3>3. t <= EndOf(s) /\ EndOf(s) <= t
      BY <1>4, <2>2, <3>1, <3>2, EndIsFirst
    <3> QED
      BY <3>2, <3>3
  <2>6. SubSeq(h, s + 1, t - 1) \in Seq(Nat)
    <3>1. s # t
      BY <1>4, <2>1 DEF LineEnd, HostField, CR
    <3>2. s + 1 \in 1 .. Len(h) + 1 /\ t - 1 \in s + 1 - 1 .. Len(h)
      BY <1>1, <1>4, <2>1, <3>1
    <3> QED
      BY <3>2, Stretch
  <2>7. HostOf(SubSeq(h, s + 1, t - 1)) = x
    BY <1>4, <2>6, HostOfValue
  <2> DEFINE Of(u, v) == LET host == HostOf(SubSeq(h, u + 1, v - 1)) IN
                         IF host = <<>> THEN Error("empty Host") ELSE Told(host)
  <2>8. ExtractHTTPHost(h) = Of(Min(lines), EndOf(Min(lines)))
    BY <2>3 DEF ExtractHTTPHost
  <2>9. ExtractHTTPHost(h) = Of(s, t)
    BY <2>4, <2>5, <2>8
  <2>10. ExtractHTTPHost(h) = IF x = <<>> THEN Error("empty Host") ELSE Told(x)
    BY <2>7, <2>9
  <2> QED
    BY <2>10, Outcomes DEF Answer
<1> QED
  BY <1>3, <1>4 DEF HeadAsks
-----------------------------------------------------------------------------
(* The window.                                                             *)

USE PeekAssumption

\* The windows looked at so far had no verdict, and the one that has ends
\* the loop.
WindowInv ==
    /\ n <= arrived + 1
    /\ \A k \in 1 .. n - 1 : Verdict(stream, k) = Short
    /\ Decided =>
        \/ n <= arrived /\ verdict = Verdict(stream, n)
        \/ n = PeekLimit /\ Verdict(stream, n) = Short /\ verdict.out = "error"
        \/ ended /\ arrived = n - 1 /\ verdict.out = "error"

IInv == TypeOK /\ WindowInv

\* No parser makes a host of nothing.
LEMMA NothingIsShort ==
    ASSUME NEW s \in Streams PROVE Verdict(s, 0) = Short
<1> DEFINE d == SubSeq(s.data, 1, 0)
<1>1. d = <<>> /\ Len(d) = 0
  OBVIOUS
<1> HIDE DEF d
<1>2. ExtractSNI(d) = Short
  BY <1>1 DEF ExtractSNI
<1>3. ExtractHTTPHost(d) = Short
  BY <1>1 DEF ExtractHTTPHost, HostLine, Terminated
<1> QED
  BY <1>2, <1>3 DEF Verdict, Extract, d

\* The loop starts with the first byte.
LEMMA InitInv == Init => IInv
<1> SUFFICES ASSUME Init PROVE IInv
  OBVIOUS
<1> USE DEF Init
<1>0. Len(stream.data) \in Nat
  <2>1. stream.data \in Seq(Nat)
    OBVIOUS
  <2> QED
    BY <2>1
<1>1. TypeOK
  <2>1. n \in 1 .. PeekLimit
    OBVIOUS
  <2>2. arrived \in Nat /\ arrived <= Len(stream.data)
    BY <1>0
  <2>3. stream \in Streams /\ ended \in BOOLEAN
    OBVIOUS
  <2> QED
    BY <2>1, <2>2, <2>3 DEF TypeOK
<1>2. WindowInv
  BY DEF WindowInv, Decided
<1> QED
  BY <1>1, <1>2 DEF IInv

\* Every turn, and every byte that comes, preserves the invariant.
LEMMA NextInv == IInv /\ [Next]_vars => IInv'
<1> SUFFICES ASSUME IInv, [Next]_vars PROVE IInv'
  OBVIOUS
<1>0. /\ n \in Nat /\ n \in 1 .. PeekLimit /\ arrived \in Nat
      /\ n <= arrived + 1
      /\ \A k \in 1 .. n - 1 : Verdict(stream, k) = Short
  BY DEF IInv, TypeOK, WindowInv
<1>1. CASE Arrive
  BY <1>1 DEF Arrive, IInv, TypeOK, WindowInv, Decided
<1>2. CASE End
  BY <1>2 DEF End, IInv, TypeOK, WindowInv, Decided
<1>3. CASE Look
  <2>1. CASE Verdict(stream, n) # Short
    BY <1>3, <2>1 DEF Look, IInv, TypeOK, WindowInv, Decided
  <2>2. CASE Verdict(stream, n) = Short /\ n < PeekLimit
    BY <1>3, <2>2 DEF Look, IInv, TypeOK, WindowInv, Decided
  <2>3. CASE Verdict(stream, n) = Short /\ ~(n < PeekLimit)
    <3>1. verdict' = Error("not found within peek limit")
      BY <1>3, <2>3 DEF Look
    <3>2. n = PeekLimit
      BY <1>0, <2>3
    <3>3. verdict'.out = "error"
      BY <3>1 DEF Error
    <3>4. UNCHANGED <<stream, arrived, ended, n>>
      BY <1>3, <2>3 DEF Look
    <3> QED
      BY <2>3, <3>2, <3>3, <3>4 DEF IInv, TypeOK, WindowInv, Decided
  <2> QED
    BY <2>1, <2>2, <2>3
<1>4. CASE LookLast
  <2>1. arrived < n /\ ended /\ UNCHANGED <<stream, arrived, ended, n>>
    BY <1>4 DEF LookLast
  <2>2. arrived = n - 1
    BY <1>0, <2>1
  <2>3. Verdict(stream, arrived) = Short
    BY <1>0, <2>2, NothingIsShort DEF IInv, TypeOK
  <2>4. Short.out # "host" /\ Error("end of input").out = "error"
    BY DEF Short, Error
  <2>5. verdict' = Error("end of input")
    BY <1>4, <2>3, <2>4 DEF LookLast
  <2> QED
    BY <2>1, <2>2, <2>4, <2>5 DEF IInv, TypeOK, WindowInv, Decided
<1>5. CASE UNCHANGED vars
  BY <1>5 DEF vars, IInv, TypeOK, WindowInv, Decided
<1> QED
  BY <1>1, <1>2, <1>3, <1>4, <1>5 DEF Next

\* The types.
THEOREM TypeCorrect == Spec => []TypeOK
<1> QED
  BY InitInv, NextInv, PTL DEF Spec, IInv

\* Whatever the parser makes of its input, and however the stream is cut,
\* peekHost returns the verdict of the first window that has one.
THEOREM ArrivalDoesNotMatter == Spec => []ArrivalIsIrrelevant
<1>1. IInv => ArrivalIsIrrelevant
  <2> SUFFICES ASSUME IInv, Decided
               PROVE IF Settled = {} THEN verdict.out = "error"
                                     ELSE verdict = Verdict(stream, Min(Settled))
    BY DEF ArrivalIsIrrelevant
  <2> USE DEF IInv, TypeOK, WindowInv
  <2>1. CASE n <= arrived /\ verdict = Verdict(stream, n)
    <3>1. n \in Settled /\ \A k \in Settled : n <= k
      BY <2>1 DEF Settled, Decided
    <3>2. Min(Settled) = n
      BY <3>1 DEF Min, Settled
    <3> QED
      BY <3>1, <3>2, <2>1
  <2>2. CASE n = PeekLimit /\ Verdict(stream, n) = Short /\ verdict.out = "error"
    BY <2>2 DEF Settled
  <2>3. CASE ended /\ arrived = n - 1 /\ verdict.out = "error"
    BY <2>3 DEF Settled
  <2> QED
    BY <2>1, <2>2, <2>3
<1> QED
  BY <1>1, InitInv, NextInv, PTL DEF Spec

\* On the listener for plain HTTP the name is also that of all the client
\* sends: looking at the window byte by byte spares waiting and changes no
\* verdict.  (A TLS hello without extensions is one only up to its last byte.)
THEOREM PlainNameIsOfTheWhole ==
    Spec => [](stream.port # 443 /\ verdict.out = "host"
                 => verdict = Verdict(stream, Len(stream.data)))
<1>1. IInv => (stream.port # 443 /\ verdict.out = "host"
                 => verdict = Verdict(stream, Len(stream.data)))
  <2> SUFFICES ASSUME IInv, stream.port # 443, verdict.out = "host"
               PROVE  verdict = Verdict(stream, Len(stream.data))
    OBVIOUS
  <2> DEFINE d == SubSeq(stream.data, 1, n)
             f == SubSeq(stream.data, 1, Len(stream.data))
  <2>1. Decided
    BY DEF Decided, Short
  <2>2. /\ stream.data \in Seq(Nat) /\ Len(stream.data) \in Nat
        /\ n \in Nat /\ n <= Len(stream.data)
        /\ verdict = ExtractHTTPHost(d)
    <3>1. n <= arrived /\ verdict = Verdict(stream, n)
      BY <2>1 DEF IInv, WindowInv
    <3>2. stream.data \in Seq(Nat)
      BY DEF IInv, TypeOK
    <3>3. Len(stream.data) \in Nat /\ arrived \in Nat /\ n \in Nat
          /\ arrived <= Len(stream.data)
      BY <3>2 DEF IInv, TypeOK
    <3> QED
      BY <3>1, <3>2, <3>3 DEF Verdict, Extract
  <2>3. Begins(d, f)
    BY <2>2 DEF Begins
  <2> HIDE DEF d, f
  <2>4. ExtractHTTPHost(f) = verdict
    BY <2>1, <2>2, <2>3, PlainVerdictIsFinal DEF Decided
  <2> QED
    BY <2>4 DEF Verdict, Extract, f
<1> QED
  BY <1>1, InitInv, NextInv, PTL DEF Spec
-----------------------------------------------------------------------------
(* A client's stream.                                                      *)

\* No window before the end of a request says anything but what the request
\* asks for, and the one that has all of it says that.  If it is never all
\* there no window says anything.
LEMMA WindowsAnswer ==
    ASSUME NEW s \in Streams
    PROVE  /\ s.head \in 1 .. Len(s.data) + 1
           /\ \A k \in 0 .. Len(s.data) : k < s.head =>
                 Verdict(s, k) = Short \/ Answer(Verdict(s, k), s.asks)
           /\ s.head <= Len(s.data) => Answer(Verdict(s, s.head), s.asks)
           /\ s.head > Len(s.data) => \A k \in 0 .. Len(s.data) : Verdict(s, k) = Short
<1> DEFINE d == s.data
           head == s.head
<1>1. d \in Seq(Nat) /\ Len(d) \in Nat /\ DOMAIN d = 1 .. Len(d) /\ SubSeq(d, 1, Len(d)) = d
  <2>1. s.data \in Seq(Nat)
    BY PeekAssumption
  <2> QED
    BY <2>1
<1>2. IsStream(s)
  BY StreamAssumption
<1>3. CASE s.port = 443
  <2>0. \A k : Verdict(s, k) = ExtractSNI(SubSeq(d, 1, k))
    BY <1>3 DEF Verdict, Extract
  <2>00. \A k \in 1 .. Len(d) : SubSeq(d, 1, k) \in Seq(Nat) /\ SubSeq(d, 1, k) # <<>>
                                 /\ SubSeq(d, 1, k)[1] = d[1]
    BY <1>1
  <2>1. CASE head \in DOMAIN d /\ HelloAsks(SubSeq(d, 1, head), s.asks)
    <3>1. IsRecord(SubSeq(d, 1, head)) /\ SubSeq(d, 1, head) \in Seq(Nat)
      BY <1>1, <2>00, <2>1 DEF HelloAsks
    <3>2. Answer(Verdict(s, head), s.asks)
      BY <2>0, <2>1, <3>1, HelloIsAnswered
    <3>3. \A k \in 0 .. head - 1 : Verdict(s, k) = Short
      BY <1>1, <2>0, <2>1, <3>1, PartOfRecordIsShort
    <3> QED
      BY <1>1, <2>1, <3>2, <3>3
  <2>2. CASE head \in DOMAIN d /\ s.asks = <<>> /\ d[1] # 22
    <3>1. ASSUME NEW k \in 1 .. Len(d) PROVE Answer(Verdict(s, k), s.asks)
      <4>1. ExtractSNI(SubSeq(d, 1, k)).out = "error"
        BY <2>00, <2>2, Outcomes DEF ExtractSNI
      <4> QED
        BY <2>0, <2>2, <4>1 DEF Answer
    <3>2. Verdict(s, 0) = Short
      BY NothingIsShort
    <3> QED
      BY <1>1, <2>2, <3>1, <3>2
  <2>3. CASE /\ head \in DOMAIN d /\ s.asks = <<>>
             /\ IsRecord(SubSeq(d, 1, head)) /\ SubSeq(d, 1, head)[6] # 1
    <3>1. SubSeq(d, 1, head) \in Seq(Nat)
      BY <1>1, <2>00, <2>3
    <3>2. Answer(Verdict(s, head), s.asks)
      BY <2>0, <2>3, <3>1, RecordIsRead DEF Answer
    <3>3. \A k \in 0 .. head - 1 : Verdict(s, k) = Short
      BY <1>1, <2>0, <2>3, <3>1, PartOfRecordIsShort
    <3> QED
      BY <1>1, <2>3, <3>2, <3>3
  <2>4. CASE head = Len(d) + 1 /\ s.asks = <<>> /\ Overlong(d)
    <3>1. Verdict(s, Len(d)) = Short
      BY <1>1, <2>0, <2>4, OverlongIsShort
    <3>2. IsRecord(SubSeq(d, 1, Len(d))) /\ Len(d) \in 1 .. Len(d)
      <4>1. IsRecord(d) /\ Len(d) > 5
        BY <2>4 DEF Overlong, IsRecord
      <4>2. SubSeq(d, 1, Len(d)) = d /\ Len(d) \in 1 .. Len(d)
        BY <1>1, <4>1
      <4> HIDE DEF d
      <4> QED
        BY <4>1, <4>2
    <3>3. \A k \in 0 .. Len(d) - 1 : Verdict(s, k) = Short
      BY <1>1, <2>0, <3>2, PartOfRecordIsShort
    <3>4. \A k \in 0 .. Len(d) : Verdict(s, k) = Short
      BY <1>1, <3>1, <3>3
    <3> QED
      BY <1>1, <2>4, <3>4
  <2> QED
    BY <1>2, <1>3, <2>1, <2>2, <2>3, <2>4 DEF IsStream, HelloStream
<1>4. CASE s.port # 443
  <2>0. \A k : Verdict(s, k) = ExtractHTTPHost(SubSeq(d, 1, k))
    BY <1>4 DEF Verdict, Extract
  <2>1. head \in 1 .. Len(d) /\ HeadAsks(SubSeq(d, 1, head), s.asks)
    BY <1>1, <1>2, <1>4 DEF IsStream, RequestStream
  <2>2. SubSeq(d, 1, head) \in Seq(Nat)
    BY <1>1, <2>1
  <2>3. Answer(Verdict(s, head), s.asks)
    BY <2>0, <2>1, <2>2, HeadIsAnswered
  <2>4. ASSUME NEW k \in 0 .. Len(d), k < head, Verdict(s, k) # Short
        PROVE  Answer(Verdict(s, k), s.asks)
    <3>1. Begins(SubSeq(d, 1, k), SubSeq(d, 1, head))
      <4>1. /\ 1 \in 1 .. Len(d) + 1 /\ k \in 1 - 1 .. Len(d) /\ head \in 1 - 1 .. Len(d)
            /\ k \in Nat /\ head \in Nat /\ k <= head
        BY <1>1, <2>1, <2>4
      <4>2. /\ SubSeq(d, 1, k) \in Seq(Nat) /\ Len(SubSeq(d, 1, k)) = k
            /\ \A i \in 1 .. k : SubSeq(d, 1, k)[i] = d[i]
        BY <1>1, <4>1, Stretch
      <4>3. /\ SubSeq(d, 1, head) \in Seq(Nat) /\ Len(SubSeq(d, 1, head)) = head
            /\ \A i \in 1 .. head : SubSeq(d, 1, head)[i] = d[i]
        BY <1>1, <4>1, Stretch
      <4> QED
        BY <4>1, <4>2, <4>3 DEF Begins
    <3>2. Verdict(s, head) = Verdict(s, k)
      BY <2>0, <2>4, <3>1, PlainVerdictIsFinal
    <3> QED
      BY <2>3, <3>2
  <2> QED
    BY <1>1, <2>1, <2>3, <2>4
<1> QED
  BY <1>3, <1>4

\* The window never needs to reach past the request, or past all there is.
LEMMA WindowWithinRequest ==
    ASSUME IInv
    PROVE  /\ stream \in Streams /\ n \in Nat /\ arrived \in Nat
           /\ arrived <= Len(stream.data) /\ Len(stream.data) \in Nat
           /\ stream.head \in Nat /\ n <= arrived + 1
           /\ n <= stream.head
<1>1. /\ stream \in Streams /\ n \in 1 .. PeekLimit /\ arrived \in Nat
      /\ arrived <= Len(stream.data) /\ n <= arrived + 1
      /\ \A k \in 1 .. n - 1 : Verdict(stream, k) = Short
  BY DEF IInv, TypeOK, WindowInv
<1>2. Len(stream.data) \in Nat
  <2>1. stream.data \in Seq(Nat)
    BY <1>1, PeekAssumption
  <2> QED
    BY <2>1
<1>3. stream.head \in 1 .. Len(stream.data) + 1
  BY <1>1, WindowsAnswer
<1>4. ASSUME stream.head < n PROVE FALSE
  <2>1. stream.head \in 1 .. n - 1 /\ stream.head <= Len(stream.data)
    BY <1>1, <1>2, <1>3, <1>4
  <2>2. Verdict(stream, stream.head) = Short
    BY <1>1, <2>1
  <2>3. Answer(Verdict(stream, stream.head), stream.asks)
    BY <1>1, <2>1, WindowsAnswer
  <2> QED
    BY <2>2, <2>3, AnswerIsNotShort
<1> QED
  BY <1>1, <1>2, <1>3, <1>4

\* peekHost returns the name the client asks for, and no other.
THEOREM NameAsked == Spec => []NameIsAsked
<1>1. ASSUME IInv, Decided PROVE NameIsAsked
  <2>1. /\ stream \in Streams /\ n \in Nat /\ arrived \in Nat
        /\ arrived <= Len(stream.data) /\ Len(stream.data) \in Nat
        /\ stream.head \in Nat /\ n <= arrived + 1 /\ n <= stream.head
    BY <1>1, WindowWithinRequest
  <2>2. CASE n <= arrived /\ verdict = Verdict(stream, n)
    <3>1. Answer(verdict, stream.asks)
      <4>1. CASE n < stream.head
        BY <1>1, <2>1, <2>2, <4>1, WindowsAnswer DEF Decided
      <4>2. CASE n = stream.head
        BY <2>1, <2>2, <4>2, WindowsAnswer
      <4> QED
        BY <2>1, <4>1, <4>2
    <3> QED
      BY <3>1 DEF NameIsAsked, Answer
  <2>3. CASE n = PeekLimit /\ Verdict(stream, n) = Short /\ verdict.out = "error"
    <3>1. CASE n = stream.head /\ n <= arrived
      <4>1. Answer(Verdict(stream, n), stream.asks)
        BY <2>1, <3>1, WindowsAnswer
      <4> QED
        BY <2>3, <4>1, AnswerIsNotShort
    <3>2. CASE n < stream.head
      BY <2>1, <2>3, <3>2 DEF NameIsAsked
    <3>3. CASE n = arrived + 1
      BY <2>1, <2>3, <3>3 DEF NameIsAsked
    <3> QED
      BY <2>1, <3>1, <3>2, <3>3
  <2>4. CASE ended /\ arrived = n - 1 /\ verdict.out = "error"
    BY <2>1, <2>4 DEF NameIsAsked
  <2> QED
    BY <1>1, <2>2, <2>3, <2>4 DEF IInv, WindowInv
<1>2. IInv => NameIsAsked
  BY <1>1 DEF NameIsAsked
<1> QED
  BY <1>2, InitInv, NextInv, PTL DEF Spec

\* peekHost waits for no byte that the client need not send.
THEOREM WaitsForMore == Spec => []WaitsOnlyForMore
<1>1. ASSUME IInv, ~ended, ~Decided, arrived < n
      PROVE  arrived < stream.head /\ n <= PeekLimit
  <2>1. n <= stream.head /\ n \in Nat /\ arrived \in Nat /\ stream.head \in Nat
    BY <1>1, WindowWithinRequest
  <2>2. n \in 1 .. PeekLimit
    BY <1>1 DEF IInv, TypeOK
  <2> QED
    BY <1>1, <2>1, <2>2
<1>2. IInv => WaitsOnlyForMore
  BY <1>1 DEF WaitsOnlyForMore
<1> QED
  BY <1>2, InitInv, NextInv, PTL DEF Spec
=============================================================================
