------------------------ MODULE BytesAssembly_proofs ------------------------
(***************************************************************************)
(* Theorems about flywheel_receive: any schemes, any arrays, any variables *)
(* and any depths of the stack the application calls from.                 *)
(***************************************************************************)
EXTENDS BytesAssembly, SequenceTheorems, WellFoundedInduction, TLAPS

(* The packages of m pointers to different variables, wherever fetch is    *)
PackagesOf(m) ==
  { p \in [num : {m}, strategy : {PutWithoutPos}, put : {m}, fetch : Nat,
           paras : [0 .. m - 1 -> Variables]] :
      \A i, j \in 0 .. m - 1 : p.paras[i] = p.paras[j] => i = j }

TypeOK ==
  /\ scheme \in Schemes
  /\ DOMAIN memory = Variables
  /\ \E m \in Nat : pkg \in PackagesOf(m)
  /\ DOMAIN code = AllIds
  /\ n \in 1 .. Len(scheme) + 1
  /\ pc \in {"idle", "loop", "crash"}
  /\ array \in Arrays

(* Inside the loop the package has a parameter for each element, and the   *)
(* loop goes on only where the group of code blocks is there.              *)
LoopSound ==
  /\ pc = "loop" => /\ pkg.num = Len(scheme)
                    /\ answer = "none"
                    /\ ~BlocksCollected => n = 1
  /\ answer = "0" => pc = "idle" /\ pkg.num = Len(scheme)
  /\ FetchAligned

(* What assembly_item, the code block and store_data make of an element    *)
Stored(k) ==
  LET word == AssemblyItem(k)
  IN Store(pkg.paras[k - 1], IF NeedPostprocess(k) THEN Post[scheme[k].id][word] ELSE word)

(* The elements behind the loop                                            *)
Done == { k \in DOMAIN scheme : answer = "0" \/ (pc = "loop" /\ k < n) }

StoredInPlace ==
  UsualDepth => \A k \in Done : memory[pkg.paras[k - 1]] = Stored(k)

Inv == TypeOK /\ LoopSound /\ OthersUntouched /\ StoredInPlace

-----------------------------------------------------------------------------
(* A non-empty set of naturals has a least element.                        *)
LEMMA LeastElement ==
  ASSUME NEW S \in SUBSET Nat, S # {}
  PROVE  \E m \in S : \A k \in S : m <= k
<1>1. IsWellFoundedOn(OpToRel(<, Nat), Nat)
  BY NatLessThanWellFounded
<1>2. PICK m \in S : \A y \in S : << y, m >> \notin OpToRel(<, Nat)
  BY <1>1, WFMin
<1>3. \A k \in S : ~(k < m)
  BY <1>2 DEF OpToRel
<1> QED
  BY <1>3

(***************************************************************************)
(* A function defined from its value at the number before: there is one.   *)
(***************************************************************************)
CountsFrom(lo, D) ==
  /\ lo \in Nat /\ D \subseteq Nat
  /\ \A j \in D : j >= lo /\ (j # lo => j - 1 \in D)
Recurs(f, lo, D, base, step) ==
  \A j \in D : f[j] = IF j = lo THEN base ELSE step[<< j, f[j - 1] >>]

LEMMA Recursion ==
  ASSUME NEW lo, NEW D, CountsFrom(lo, D),
         NEW V, NEW base \in V, NEW step \in [D \X V -> V]
  PROVE  \E f \in [D -> V] : Recurs(f, lo, D, base, step)
<1> USE DEF CountsFrom
<1> DEFINE To(c) == { j \in D : j <= c }
           Fits(g, c) == \A j \in To(c) : g[j] = IF j = lo THEN base ELSE step[<< j, g[j - 1] >>]
<1>1. ASSUME NEW m \in Nat, NEW c \in Nat, NEW g, NEW h, Fits(g, m), Fits(h, c),
             NEW k \in To(m) \cap To(c)
      PROVE  g[k] = h[k]
  <2> DEFINE T == { j \in To(m) \cap To(c) : g[j] # h[j] }
  <2> SUFFICES ASSUME T # {} PROVE FALSE
    OBVIOUS
  <2>1. PICK j \in T : \A y \in T : j <= y
    BY LeastElement
  <2> HIDE DEF To
  <2>2. j # lo
    <3>1. j = lo => g[j] = base /\ h[j] = base
      BY <1>1
    <3> QED
      BY <3>1
  <2> USE DEF To
  <2>3. j - 1 \in To(m) \cap To(c)
    <3>1. j \in D /\ j \in Nat /\ j <= m /\ j <= c
      OBVIOUS
    <3>2. j - 1 \in D /\ j - 1 <= m /\ j - 1 <= c
      BY <2>2, <3>1
    <3> QED
      BY <3>2
  <2>4. g[j - 1] = h[j - 1]
    BY <2>1, <2>3
  <2>5. g[j] = step[<< j, g[j - 1] >>] /\ h[j] = step[<< j, h[j - 1] >>]
    BY <1>1, <2>2
  <2> QED
    BY <2>4, <2>5
<1>2. ASSUME NEW c \in Nat
      PROVE  \E g \in [To(c) -> V] : Fits(g, c)
  <2> DEFINE T == { k \in Nat : ~ \E g \in [To(k) -> V] : Fits(g, k) }
  <2> SUFFICES ASSUME T # {} PROVE FALSE
    OBVIOUS
  <2>1. PICK k \in T : \A y \in T : k <= y
    BY LeastElement
  <2>2. CASE k = 0
    <3> DEFINE g == [j \in To(k) |-> base]
    <3>1. \A j \in To(k) : j = lo
      BY <2>2
    <3>2. g \in [To(k) -> V]
      OBVIOUS
    <3>3. Fits(g, k)
      BY <3>1
    <3> QED
      BY <3>2, <3>3
  <2>3. CASE k # 0
    <3>1. k - 1 \in Nat
      BY <2>3
    <3>2. PICK g \in [To(k - 1) -> V] : Fits(g, k - 1)
      <4>1. ~(k <= k - 1)
        BY <3>1
      <4>2. k - 1 \notin T
        BY <2>1, <4>1
      <4> HIDE DEF To, Fits
      <4> QED
        BY <3>1, <4>2
    <3> DEFINE h == [j \in To(k) |-> IF j = lo THEN base ELSE step[<< j, g[j - 1] >>]]
    <3>3. \A j \in To(k) : j # lo => j - 1 \in To(k - 1) /\ j - 1 \in To(k)
      OBVIOUS
    <3>4. h \in [To(k) -> V]
      BY <3>2, <3>3
    <3>5. \A j \in To(k - 1) : j \in To(k) /\ g[j] = h[j]
      BY <3>2
    <3>6. Fits(h, k)
      BY <3>3, <3>5
    <3> QED
      BY <3>4, <3>6
  <2> QED
    BY <2>2, <2>3
<1>3. \A c \in Nat : To(c) = { j \in D : j <= c }
  OBVIOUS
<1>4. ASSUME NEW c \in Nat, NEW g, Fits(g, c), NEW j \in To(c)
      PROVE  g[j] = IF j = lo THEN base ELSE step[<< j, g[j - 1] >>]
  BY <1>4
<1> HIDE DEF To, Fits
<1> DEFINE G(c) == CHOOSE g \in [To(c) -> V] : Fits(g, c)
           f == [j \in D |-> G(j)[j]]
<1>5. ASSUME NEW c \in Nat
      PROVE  G(c) \in [To(c) -> V] /\ Fits(G(c), c)
  BY <1>2
<1> HIDE DEF G
<1>6. f \in [D -> V]
  <2> SUFFICES ASSUME NEW j \in D PROVE G(j)[j] \in V
    OBVIOUS
  <2> QED
    BY <1>3, <1>5
<1>7. \A j \in D : f[j] = G(j)[j]
  OBVIOUS
<1> HIDE DEF f
<1>8. ASSUME NEW j \in D
      PROVE  f[j] = IF j = lo THEN base ELSE step[<< j, f[j - 1] >>]
  <2>1. Fits(G(j), j) /\ j \in To(j) /\ f[j] = G(j)[j]
    BY <1>3, <1>5, <1>7
  <2>2. CASE j = lo
    BY <1>4, <2>1, <2>2
  <2>3. CASE j # lo
    <3>1. j - 1 \in D /\ j - 1 \in Nat
      BY <2>3
    <3>2. Fits(G(j - 1), j - 1) /\ f[j - 1] = G(j - 1)[j - 1]
      BY <1>5, <1>7, <3>1
    <3>3. j - 1 \in To(j - 1) \cap To(j)
      BY <1>3, <3>1
    <3>4. G(j)[j - 1] = G(j - 1)[j - 1]
      BY <1>1, <2>1, <3>1, <3>2, <3>3
    <3>5. G(j)[j] = step[<< j, G(j)[j - 1] >>]
      BY <1>4, <2>1, <2>3
    <3> QED
      BY <2>1, <2>3, <3>2, <3>4, <3>5
  <2> QED
    BY <2>2, <2>3
<1> QED
  BY <1>6, <1>8 DEF Recurs

(***************************************************************************)
(* Words of so many bytes: numbers that differ by a multiple of the number *)
(* of values are one word.                                                 *)
(***************************************************************************)
LEMMA ValuesFacts ==
  /\ ValuesOf \in [Nat -> Nat \ {0}]
  /\ ValuesOf[0] = 1
  /\ \A k \in Nat : ValuesOf[k + 1] = ValuesOf[k] * Byte
<1> DEFINE V == Nat \ {0}
           step == [p \in Nat \X V |-> p[2] * Byte]
<1>0. \A v \in V : v * Byte \in V
  BY BytesAssemblyAssumption
<1>1. step \in [Nat \X V -> V] /\ 1 \in V
  BY <1>0
<1>2. \A k \in Nat, v \in V : step[<< k, v >>] = v * Byte
  OBVIOUS
<1>3. CountsFrom(0, Nat)
  BY DEF CountsFrom
<1> HIDE DEF step, V
<1>5. PICK f \in [Nat -> V] : Recurs(f, 0, Nat, 1, step)
  BY <1>1, <1>3, Recursion
<1>6. ASSUME NEW j \in Nat PROVE f[j] = IF j = 0 THEN 1 ELSE f[j - 1] * Byte
  <2>1. j # 0 => step[<< j, f[j - 1] >>] = f[j - 1] * Byte
    BY <1>2
  <2> QED
    BY <1>5, <2>1 DEF Recurs
<1>7. f = [size \in Nat |-> IF size = 0 THEN 1 ELSE f[size - 1] * Byte]
  BY <1>6
<1>8. ValuesOf = [size \in Nat |-> IF size = 0 THEN 1 ELSE ValuesOf[size - 1] * Byte]
  BY <1>7 DEF ValuesOf
<1>9. \A g : g = [size \in Nat |-> IF size = 0 THEN 1 ELSE g[size - 1] * Byte] =>
        /\ g[0] = 1 
        /\ \A k \in Nat : g[k + 1] = g[k] * Byte
        /\ DOMAIN g = Nat
  OBVIOUS
<1>10. /\ ValuesOf[0] = 1 /\ DOMAIN ValuesOf = Nat
       /\ \A k \in Nat : ValuesOf[k + 1] = ValuesOf[k] * Byte
  BY <1>8, <1>9
<1>11. ASSUME NEW k \in Nat PROVE ValuesOf[k] \in V
  <2> DEFINE T == { j \in Nat : ValuesOf[j] \notin V }
  <2> SUFFICES ASSUME T # {} PROVE FALSE
    OBVIOUS
  <2>1. PICK j \in T : \A y \in T : j <= y
    BY LeastElement
  <2>2. CASE j = 0
    BY <1>10, <2>2 DEF V
  <2>3. CASE j # 0
    <3>1. j - 1 \in Nat /\ ~(j <= j - 1) /\ (j - 1) + 1 = j
      BY <2>3
    <3>2. ValuesOf[j - 1] \in V
      BY <2>1, <3>1
    <3>3. ValuesOf[j] = ValuesOf[j - 1] * Byte
      BY <1>10, <3>1
    <3>4. ValuesOf[j] \in V
      BY <1>0, <3>2, <3>3
    <3> QED
      BY <3>4
  <2> QED
    BY <2>2, <2>3
<1>12. ValuesOf = [k \in Nat |-> ValuesOf[k]]
  BY <1>8
<1> QED
  BY <1>10, <1>11, <1>12 DEF V

LEMMA Division ==
  ASSUME NEW m \in Nat \ {0}, NEW x \in Int
  PROVE  \E q \in Int : x = q * m + (x % m) /\ (x % m) \in 0 .. m - 1
<1>1. m \in Nat /\ m > 0
  OBVIOUS
<1>2. x \div m \in Int
  OBVIOUS
<1>3. x = m * (x \div m) + (x % m)
  BY <1>1, Z3
<1>4. (x % m) \in 0 .. m - 1
  OBVIOUS
<1>5. m * (x \div m) = (x \div m) * m
  BY <1>2
<1> QED
  BY <1>2, <1>3, <1>4, <1>5

LEMMA NoMultiple ==
  ASSUME NEW m \in Nat \ {0}, NEW d \in Int, d * m < m, 0 - m < d * m
  PROVE  d = 0
<1>1. d >= 1 => d * m >= m
  OBVIOUS
<1>2. d <= -1 => d * m <= 0 - m
  OBVIOUS
<1> QED
  BY <1>1, <1>2

LEMMA SameRemainder ==
  ASSUME NEW m \in Nat \ {0}, NEW x \in Int, NEW q \in Int
  PROVE  (x + q * m) % m = x % m
<1> DEFINE y == x + q * m
<1>1. PICK a \in Int : x = a * m + (x % m) /\ (x % m) \in 0 .. m - 1
  BY Division
<1>2. y \in Int
  OBVIOUS
<1>3. PICK b \in Int : y = b * m + (y % m) /\ (y % m) \in 0 .. m - 1
  BY <1>2, Division
<1> DEFINE r == x % m
           s == y % m
           d == a + q - b
<1>4. y = x + q * m /\ x = a * m + r /\ y = b * m + s /\ r \in 0 .. m - 1 /\ s \in 0 .. m - 1
  BY <1>1, <1>3
<1> HIDE DEF y, r, s
<1>5. d * m = a * m + q * m - b * m
  OBVIOUS
<1>6. d * m = s - r
  BY <1>2, <1>4, <1>5
<1>7. d = 0
  <2>1. d * m < m /\ 0 - m < d * m /\ d \in Int
    BY <1>4, <1>6
  <2> HIDE DEF d
  <2> QED
    BY <2>1, NoMultiple
<1>8. s = r
  BY <1>4, <1>6, <1>7
<1> QED
  BY <1>8 DEF y, r, s

(* Signed takes one number for every word.                                 *)
LEMMA SignedFacts ==
  ASSUME NEW size \in Nat, NEW x \in Int
  PROVE  /\ Signed(x, size) \in Int
         /\ \E q \in Int : x = Signed(x, size) + q * ValuesOf[size]
         /\ \A q \in Int : Signed(x + q * ValuesOf[size], size) = Signed(x, size)
<1> DEFINE m == ValuesOf[size]
           r == x % m
<1>1. m \in Nat \ {0}
  BY ValuesFacts
<1>2. PICK a \in Int : x = a * m + r /\ r \in 0 .. m - 1
  BY <1>1, Division
<1>3. Signed(x, size) = IF r < m \div 2 THEN r ELSE r - m
  BY DEF Signed
<1>4. \A q \in Int : (x + q * m) % m = r
  BY <1>1, SameRemainder
<1>5. \A q \in Int : Signed(x + q * m, size) = Signed(x, size)
  BY <1>3, <1>4 DEF Signed
<1> HIDE DEF m, r
<1>6. Signed(x, size) \in Int
  BY <1>1, <1>2, <1>3
<1>7. \E q \in Int : x = Signed(x, size) + q * m
  <2>1. CASE r < m \div 2
    <3>1. x = r + a * m
      BY <1>1, <1>2
    <3> QED
      BY <1>3, <2>1, <3>1
  <2>2. CASE ~(r < m \div 2)
    <3>1. a * m + m = (a + 1) * m
      BY <1>1
    <3>2. x = (r - m) + (a + 1) * m
      BY <1>1, <1>2, <3>1
    <3> QED
      BY <1>3, <2>2, <3>2
  <2> QED
    BY <2>1, <2>2
<1> QED
  BY <1>5, <1>6, <1>7 DEF m

LEMMA SignedTwice ==
  ASSUME NEW size \in Nat, NEW x \in Int
  PROVE  Signed(Signed(x, size), size) = Signed(x, size)
<1>1. PICK q \in Int : x = Signed(x, size) + q * ValuesOf[size]
  BY SignedFacts
<1>2. Signed(x, size) \in Int
  BY SignedFacts
<1>3. Signed(Signed(x, size) + q * ValuesOf[size], size) = Signed(Signed(x, size), size)
  BY <1>2, SignedFacts
<1> QED
  BY <1>1, <1>3

(* A char is the int it is converted to.                                   *)
LEMMA CharIsWord ==
  ASSUME NEW b \in Chars
  PROVE  b \in Int /\ Signed(b, WordBytes) = b
<1>1. PICK w \in 0 .. Byte - 1 : b = Signed(w, 1)
  BY DEF Chars
<1>2. ValuesOf[1] = Byte
  <2>1. PICK k \in Nat : k = 0
    OBVIOUS
  <2>2. ValuesOf[k + 1] = ValuesOf[k] * Byte /\ ValuesOf[k] = 1
    BY <2>1, ValuesFacts
  <2>3. k + 1 = 1 /\ 1 * Byte = Byte
    BY <2>1, BytesAssemblyAssumption
  <2>4. ValuesOf[1] = ValuesOf[k + 1]
    BY <2>3
  <2>5. ValuesOf[1] = 1 * Byte
    BY <2>2, <2>4
  <2> QED
    BY <2>3, <2>5
<1> DEFINE half == Byte \div 2
           m == ValuesOf[WordBytes]
<1>3. b = IF w < half THEN w ELSE w - Byte
  <2>1. w % Byte = w
    BY BytesAssemblyAssumption
  <2> QED
    BY <1>1, <1>2, <2>1 DEF Signed
<1>4. b \in Int /\ ((0 - Byte + half <= b /\ b < half) \/ (b = -1 /\ Byte = 1))
  BY <1>3, BytesAssemblyAssumption
<1>5. PICK c \in Nat \ {0} : m = c * Byte
  <2>1. WordBytes - 1 \in Nat /\ (WordBytes - 1) + 1 = WordBytes
    BY BytesAssemblyAssumption
  <2> QED
    BY <2>1, ValuesFacts
<1>6. m \in Nat /\ m >= Byte
  BY <1>5, BytesAssemblyAssumption
<1> DEFINE h == m \div 2
<1>7. half \in Nat /\ h \in Nat /\ 2 * half <= Byte /\ Byte <= 2 * half + 1 /\ 2 * h <= m /\ m <= 2 * h + 1
  BY <1>6, BytesAssemblyAssumption
<1>8. Signed(b, WordBytes) = IF b % m < h THEN b % m ELSE (b % m) - m
  BY DEF Signed
<1> HIDE DEF half, h, m
<1>9. b >= 0 => b % m = b /\ b < h
  BY <1>4, <1>6, <1>7, BytesAssemblyAssumption
<1>10. b < 0 => b % m = b + m /\ b + m >= h
  <2> SUFFICES ASSUME b < 0 PROVE b % m = b + m /\ b + m >= h
    OBVIOUS
  <2>0. Byte \in Nat /\ Byte >= 1
    BY BytesAssemblyAssumption
  <2>1. b + m >= h /\ b + m < m /\ b + m >= 0
    <3>1. CASE 0 - Byte + half <= b
      BY <1>4, <1>6, <1>7, <2>0, <3>1
    <3>2. CASE b = -1
      BY <1>6, <1>7, <2>0, <3>2
    <3> QED
      BY <1>4, <3>1, <3>2
  <2>2. (b + m) % m = b % m
    <3> DEFINE one == 1
    <3>1. one \in Int /\ b + one * m = b + m
      BY <1>6
    <3>2. m \in Nat \ {0}
      BY <1>6, <2>0
    <3> HIDE DEF one
    <3>3. (b + one * m) % m = b % m
      BY <1>4, <3>1, <3>2, SameRemainder
    <3> QED
      BY <3>1, <3>3
  <2>3. (b + m) % m = b + m
    BY <1>4, <1>6, <2>1
  <2> QED
    BY <1>4, <1>6, <2>1, <2>2, <2>3
<1>11. CASE b >= 0
  BY <1>4, <1>8, <1>9, <1>11
<1>12. CASE b < 0
  <2>1. (b + m) - m = b
    BY <1>4, <1>6
  <2>2. ~(b + m < h)
    BY <1>4, <1>6, <1>7, <1>10, <1>12
  <2> QED
    BY <1>4, <1>8, <1>10, <1>12, <2>1, <2>2
<1> QED
  BY <1>4, <1>11, <1>12

(***************************************************************************)
(* assembly_item.                                                          *)
(***************************************************************************)
LEMMA TempsFacts ==
  ASSUME NEW item, NEW l \in Nat, Len(item) = l, \A j \in 1 .. l : item[j] \in Chars
  PROVE  \A j \in 1 .. l :
           /\ Temps(item)[j] \in Int
           /\ Temps(item)[j] = IF j = 1 \/ item[j] < 0 THEN item[j]
                               ELSE Signed(Temps(item)[j - 1] * Byte + item[j], WordBytes)
<1> DEFINE D == 1 .. l
           Step(j, v) == IF item[j] < 0 THEN item[j] ELSE Signed(v * Byte + item[j], WordBytes)
           step == [p \in D \X Int |-> Step(p[1], p[2])]
           base == IF 1 \in D THEN item[1] ELSE 0
<1>1. \A j \in D : item[j] \in Int
  BY CharIsWord
<1>2. ASSUME NEW j \in D, NEW v \in Int PROVE Step(j, v) \in Int
  <2>1. v * Byte + item[j] \in Int
    BY <1>1, BytesAssemblyAssumption
  <2> QED
    BY <1>1, <2>1, SignedFacts, BytesAssemblyAssumption
<1>3. base \in Int
  BY <1>1
<1> HIDE DEF Step
<1>4. step \in [D \X Int -> Int]
  BY <1>2
<1>5. CountsFrom(1, D)
  BY DEF CountsFrom
<1>6. \A j \in D, v \in Int : step[<< j, v >>] = Step(j, v)
  OBVIOUS
<1>7. \A j \in D : 1 \in D /\ (j # 1 => j - 1 \in D)
  OBVIOUS
<1> HIDE DEF step, D
<1>8. PICK f \in [D -> Int] : Recurs(f, 1, D, base, step)
  BY <1>3, <1>4, <1>5, Recursion
<1>9. ASSUME NEW j \in D
      PROVE  f[j] = IF j = 1 \/ item[j] < 0 THEN item[j] ELSE Signed(f[j - 1] * Byte + item[j], WordBytes)
  <2>1. CASE j = 1
    BY <1>7, <1>8, <2>1 DEF Recurs
  <2>2. CASE j # 1
    <3>1. f[j] = Step(j, f[j - 1])
      BY <1>6, <1>7, <1>8, <2>2 DEF Recurs
    <3> QED
      BY <2>2, <3>1 DEF Step
  <2> QED
    BY <2>1, <2>2
<1>10. f = [j \in 1 .. Len(item) |-> IF j = 1 \/ item[j] < 0 THEN item[j]
                                     ELSE Signed(f[j - 1] * Byte + item[j], WordBytes)]
  BY <1>9 DEF D
<1>11. Temps(item) = [j \in 1 .. Len(item) |->
                       IF j = 1 \/ item[j] < 0 THEN item[j]
                       ELSE Signed(Temps(item)[j - 1] * Byte + item[j], WordBytes)]
  BY <1>10 DEF Temps
<1>12. \A j \in D : Temps(item)[j] = IF j = 1 \/ item[j] < 0 THEN item[j]
                                     ELSE Signed(Temps(item)[j - 1] * Byte + item[j], WordBytes)
  BY <1>11 DEF D
<1>13. ASSUME NEW j \in D PROVE Temps(item)[j] \in Int
  <2> DEFINE T == { i \in D : Temps(item)[i] \notin Int }
  <2> SUFFICES ASSUME T # {} PROVE FALSE
    OBVIOUS
  <2>1. T \in SUBSET Nat
    BY DEF D
  <2>2. PICK i \in T : \A y \in T : i <= y
    BY <2>1, LeastElement
  <2>3. i \in D /\ i \in Nat /\ Temps(item)[i] \notin Int
    BY <2>1
  <2>4. i # 1 /\ ~(item[i] < 0)
    BY <1>1, <1>12, <2>3
  <2>5. i - 1 \in D /\ ~(i <= i - 1)
    BY <1>7, <2>3, <2>4
  <2>6. Temps(item)[i - 1] \in Int
    BY <2>2, <2>5
  <2>7. Temps(item)[i] = Signed(Temps(item)[i - 1] * Byte + item[i], WordBytes)
    BY <1>12, <2>3, <2>4
  <2>8. Temps(item)[i - 1] * Byte + item[i] \in Int
    BY <1>1, <2>3, <2>6, BytesAssemblyAssumption
  <2>9. Temps(item)[i] \in Int
    BY <2>7, <2>8, SignedFacts, BytesAssemblyAssumption
  <2> QED
    BY <2>3, <2>9
<1> QED
  BY <1>12, <1>13 DEF D

LEMMA SumsFacts ==
  ASSUME NEW k, NEW l \in Nat, scheme[k].num = l,
         \A j \in 1 .. l : array[scheme[k].start + j] \in Int
  PROVE  /\ Sums(k)[0] = 0
         /\ \A j \in 1 .. l :
              /\ Sums(k)[j - 1] \in Int
              /\ Sums(k)[j] \in Int
              /\ Sums(k)[j] = Sums(k)[j - 1] + array[scheme[k].start + j] * ValuesOf[l - j]
<1> DEFINE D == 0 .. l
           Part(j) == array[scheme[k].start + j] * ValuesOf[l - j]
           Step(j, v) == IF j = 0 THEN 0 ELSE v + Part(j)
           step == [p \in D \X Int |-> Step(p[1], p[2])]
           none == 0
<1>1. ASSUME NEW j \in 1 .. l PROVE Part(j) \in Int
  <2>1. l - j \in Nat
    OBVIOUS
  <2>2. ValuesOf[l - j] \in Int
    BY <2>1, ValuesFacts
  <2> QED
    BY <2>2
<1>2. \A j \in D : j = 0 \/ (j \in 1 .. l /\ j - 1 \in D)
  OBVIOUS
<1>3. 0 \in D /\ 1 .. l \subseteq D /\ D \subseteq Nat
  OBVIOUS
<1>4. CountsFrom(0, D)
  BY DEF CountsFrom
<1> HIDE DEF Part, D
<1>a. \A j \in D, v \in Int : Step(j, v) \in Int
  BY <1>1, <1>2
<1> HIDE DEF Step
<1>5. step \in [D \X Int -> Int] /\ none \in Int
  BY <1>a
<1>6. \A j \in D, v \in Int : step[<< j, v >>] = Step(j, v)
  OBVIOUS
<1> HIDE DEF step, none
<1>7. PICK f \in [D -> Int] : Recurs(f, 0, D, none, step)
  BY <1>4, <1>5, Recursion
<1>8. ASSUME NEW j \in D PROVE f[j] = IF j = 0 THEN 0 ELSE f[j - 1] + Part(j)
  <2>1. j # 0 => f[j] = Step(j, f[j - 1])
    BY <1>2, <1>6, <1>7 DEF Recurs
  <2>2. j = 0 => f[j] = 0
    BY <1>7 DEF Recurs, none
  <2> QED
    BY <2>1, <2>2 DEF Step
<1>9. f = [j \in 0 .. scheme[k].num |->
            IF j = 0 THEN 0
            ELSE f[j - 1] + array[scheme[k].start + j] * ValuesOf[scheme[k].num - j]]
  BY <1>8 DEF D, Part
<1>10. Sums(k) = [j \in 0 .. scheme[k].num |->
            IF j = 0 THEN 0
            ELSE Sums(k)[j - 1] + array[scheme[k].start + j] * ValuesOf[scheme[k].num - j]]
  BY <1>9 DEF Sums
<1>11. \A j \in D : Sums(k)[j] = IF j = 0 THEN 0 ELSE Sums(k)[j - 1] + Part(j)
  BY <1>10 DEF D, Part
<1>12. ASSUME NEW j \in D PROVE Sums(k)[j] \in Int
  <2> DEFINE T == { i \in D : Sums(k)[i] \notin Int }
  <2> SUFFICES ASSUME T # {} PROVE FALSE
    OBVIOUS
  <2>1. T \in SUBSET Nat
    BY <1>3
  <2>2. PICK i \in T : \A y \in T : i <= y
    BY <2>1, LeastElement
  <2>3. i \in D /\ i \in Nat /\ i # 0 /\ Sums(k)[i] \notin Int
    BY <1>11, <2>1
  <2>4. i - 1 \in D /\ ~(i <= i - 1) /\ i \in 1 .. l
    BY <1>2, <2>3
  <2>5. Sums(k)[i - 1] \in Int
    BY <2>2, <2>4
  <2>6. Sums(k)[i] = Sums(k)[i - 1] + Part(i)
    BY <1>11, <2>3
  <2>7. Sums(k)[i] \in Int
    BY <1>1, <2>4, <2>5, <2>6
  <2> QED
    BY <2>3, <2>7
<1>13. Sums(k)[0] = 0
  BY <1>3, <1>11
<1>14. ASSUME NEW j \in 1 .. l
       PROVE  /\ Sums(k)[j - 1] \in Int /\ Sums(k)[j] \in Int
              /\ Sums(k)[j] = Sums(k)[j - 1] + Part(j)
  <2>1. j \in D /\ j # 0 /\ j - 1 \in D
    BY <1>2, <1>3
  <2> QED
    BY <1>11, <1>12, <2>1
<1> QED
  BY <1>13, <1>14 DEF Part

(* The word of an element is the sum of its bytes by their positions,      *)
(* where no byte behind the first is negative: dropping the upper bits     *)
(* after every shift or once at the end leaves one word.                   *)
LEMMA Assembles ==
  ASSUME scheme \in Schemes, array \in Arrays, NEW k \in DOMAIN scheme,
         \A j \in 2 .. scheme[k].num : array[scheme[k].start + j] >= 0
  PROVE  AssemblyItem(k) = BigEndian(k)
<1> DEFINE l == scheme[k].num
           from == scheme[k].start
           item == Item(k)
           T == Temps(item)
           S == Sums(k)
           m == ValuesOf[WordBytes]
           V(j) == ValuesOf[l - j]
<1>1. /\ l \in Nat /\ l >= 1 /\ from \in Nat /\ from + l <= Len(array)
      /\ array \in Seq(Chars)
  <2>1. scheme \in Seq(ElementDescs) /\ array \in Seq(Chars)
    BY BytesAssemblyAssumption
  <2>2. scheme[k] \in ElementDescs
    BY <2>1
  <2>3. from + l <= Len(array)
    BY BytesAssemblyAssumption
  <2> QED
    BY <2>1, <2>2, <2>3, BytesAssemblyAssumption DEF ElementDescs
<1>2. \A j \in 1 .. l : array[from + j] \in Chars
  BY <1>1
<1>3. Len(item) = l /\ \A j \in 1 .. l : item[j] = array[from + j]
  <2>1. item = SubSeq(array, from + 1, from + l)
    BY DEF Item
  <2>2. Len(SubSeq(array, from + 1, from + l)) = l
    BY <1>1
  <2>3. \A j \in 1 .. l : SubSeq(array, from + 1, from + l)[j] = array[from + j]
    BY <1>1
  <2> QED
    BY <2>1, <2>2, <2>3
<1>4. \A j \in 1 .. l : array[from + j] \in Int
  BY <1>2, CharIsWord
<1>5. /\ \A j \in 1 .. l : T[j] \in Int
      /\ T[1] = array[from + 1]
      /\ \A j \in 2 .. l : T[j] = Signed(T[j - 1] * Byte + array[from + j], WordBytes)
  <2> HIDE DEF item, l
  <2>1. \A j \in 1 .. l : item[j] \in Chars
    BY <1>2, <1>3
  <2>2. \A j \in 1 .. l :
          /\ T[j] \in Int
          /\ T[j] = IF j = 1 \/ item[j] < 0 THEN item[j]
                    ELSE Signed(T[j - 1] * Byte + item[j], WordBytes)
    BY <1>1, <1>3, <2>1, TempsFacts
  <2>3. T[1] = item[1] /\ 1 \in 1 .. l
    BY <1>1, <2>2
  <2>4. ASSUME NEW j \in 2 .. l
        PROVE  T[j] = Signed(T[j - 1] * Byte + array[from + j], WordBytes)
    <3>1. j \in 1 .. l /\ j # 1
      BY <1>1
    <3>2. array[from + j] >= 0
      BY DEF l
    <3>3. item[j] = array[from + j] /\ ~(item[j] < 0)
      BY <1>3, <1>4, <3>1, <3>2
    <3> QED
      BY <2>2, <3>1, <3>3
  <2> QED
    BY <1>3, <2>2, <2>3, <2>4
<1>6. /\ S[0] = 0
      /\ \A j \in 1 .. l : S[j - 1] \in Int /\ S[j] \in Int /\ S[j] = S[j - 1] + array[from + j] * V(j)
  BY <1>1, <1>4, SumsFacts
<1>7. \A j \in 1 .. l : V(j) \in Int /\ (j # 1 => V(j - 1) = V(j) * Byte)
  <2> TAKE j \in 1 .. l
  <2>1. l - j \in Nat /\ l - (j - 1) = (l - j) + 1
    BY <1>1
  <2>2. ValuesOf[l - j] \in Nat /\ ValuesOf[(l - j) + 1] = ValuesOf[l - j] * Byte
    BY <2>1, ValuesFacts
  <2> QED
    BY <2>1, <2>2
<1>8. m \in Int /\ Byte \in Int
  BY ValuesFacts, BytesAssemblyAssumption
<1> HIDE DEF l, from, item, T, S, m, V
<1>9. ASSUME NEW j \in 1 .. l
      PROVE  \E q \in Int : (T[j] + q * m) * V(j) = S[j]
  <2> DEFINE F == { i \in 1 .. l : ~ \E q \in Int : (T[i] + q * m) * V(i) = S[i] }
  <2> SUFFICES ASSUME F # {} PROVE FALSE
    OBVIOUS
  <2>1. F \in SUBSET Nat
    BY <1>1
  <2>2. PICK i \in F : \A y \in F : i <= y
    BY <2>1, LeastElement
  <2>3. i \in 1 .. l /\ ~ \E q \in Int : (T[i] + q * m) * V(i) = S[i]
    OBVIOUS
  <2>4. CASE i = 1
    <3>1. S[1] = S[0] + array[from + 1] * V(1)
      <4>1. S[i] = S[i - 1] + array[from + i] * V(i)
        BY <1>6, <2>3
      <4> QED
        BY <2>4, <4>1
    <3>2. T[1] \in Int /\ V(1) \in Int
      BY <1>5, <1>7, <2>3, <2>4
    <3>3. (T[1] + 0 * m) * V(1) = S[1]
      BY <1>5, <1>6, <1>8, <3>1, <3>2
    <3> QED
      BY <2>3, <2>4, <3>3
  <2>5. CASE i # 1
    <3>1. i - 1 \in 1 .. l /\ i \in 2 .. l /\ ~(i <= i - 1)
      BY <1>1, <2>3, <2>5
    <3>2. PICK q \in Int : (T[i - 1] + q * m) * V(i - 1) = S[i - 1]
      BY <2>2, <3>1
    <3> DEFINE t == T[i - 1]
               b == array[from + i]
               v == V(i)
               u == T[i]
    <3>3. t \in Int /\ b \in Int /\ v \in Int /\ u \in Int /\ V(i - 1) = v * Byte
      BY <1>4, <1>5, <1>7, <2>3, <2>5, <3>1
    <3>4. u = Signed(t * Byte + b, WordBytes)
      BY <1>5, <3>1
    <3>5. S[i] = S[i - 1] + b * v
      BY <1>6, <2>3
    <3> HIDE DEF t, b, v, u
    <3>6. t * Byte + b \in Int
      BY <1>8, <3>3
    <3>7. PICK p \in Int : t * Byte + b = u + p * m
      BY <3>4, <3>6, SignedFacts, BytesAssemblyAssumption DEF m
    <3>8. (t + q * m) * (v * Byte) = S[i - 1]
      BY <3>2, <3>3 DEF t
    <3> DEFINE z == p + q * Byte
    <3>9. z \in Int
      BY <1>8
    <3>10. (u + z * m) * v = (t + q * m) * (v * Byte) + b * v
      <4>1. u + z * m = (t * Byte + b) + (q * m) * Byte
        BY <1>8, <3>3, <3>7
      <4>2. u + z * m = (t + q * m) * Byte + b
        BY <1>8, <3>3, <4>1
      <4> DEFINE x == t + q * m
      <4>3. x \in Int
        BY <1>8, <3>3
      <4> HIDE DEF x
      <4>4. (x * Byte + b) * v = x * (v * Byte) + b * v
        BY <1>8, <3>3, <4>3
      <4> QED
        BY <4>2, <4>4 DEF x
    <3>11. (u + z * m) * v = S[i]
      BY <3>5, <3>8, <3>10
    <3> HIDE DEF z
    <3> QED
      BY <2>3, <3>9, <3>11 DEF u, v
  <2> QED
    BY <2>4, <2>5
<1>10. l \in 1 .. l
  BY <1>1
<1>11. PICK q \in Int : (T[l] + q * m) * V(l) = S[l]
  BY <1>9, <1>10
<1>12. V(l) = 1
  <2>1. l - l = 0
    BY <1>1
  <2> QED
    BY <2>1, ValuesFacts DEF V
<1>13. T[l] \in Int /\ T[l] + q * m = S[l]
  <2>1. T[l] \in Int
    BY <1>5, <1>10
  <2>2. (T[l] + q * m) \in Int
    BY <1>8, <2>1
  <2> QED
    BY <1>11, <1>12, <2>1, <2>2
<1>14. Signed(S[l], WordBytes) = Signed(T[l], WordBytes)
  <2>1. Signed(T[l] + q * ValuesOf[WordBytes], WordBytes) = Signed(T[l], WordBytes)
    BY <1>13, SignedFacts, BytesAssemblyAssumption
  <2>2. S[l] = T[l] + q * ValuesOf[WordBytes]
    BY <1>13 DEF m
  <2> QED
    BY <2>1, <2>2
<1>15. Signed(T[l], WordBytes) = T[l]
  <2>1. CASE l = 1
    BY <1>2, <1>5, <1>10, <2>1, CharIsWord
  <2>2. CASE l # 1
    <3>1. l \in 2 .. l /\ l - 1 \in 1 .. l
      BY <1>1, <2>2
    <3>2. T[l] = Signed(T[l - 1] * Byte + array[from + l], WordBytes)
      BY <1>5, <3>1
    <3>3. T[l - 1] * Byte + array[from + l] \in Int
      BY <1>4, <1>5, <1>8, <1>10, <3>1
    <3> QED
      BY <3>2, <3>3, SignedTwice, BytesAssemblyAssumption
  <2> QED
    BY <2>1, <2>2
<1>16. AssemblyItem(k) = T[l]
  BY <1>3 DEF AssemblyItem, Assembled, T, item
<1>17. BigEndian(k) = Signed(S[l], WordBytes)
  BY DEF BigEndian, S, l
<1> QED
  BY <1>14, <1>15, <1>16, <1>17

-----------------------------------------------------------------------------
LEMMA SchemeTyped ==
  ASSUME scheme \in Schemes
  PROVE  /\ Len(scheme) \in Nat /\ DOMAIN scheme = 1 .. Len(scheme)
         /\ IdsOf(scheme) \subseteq AllIds
         /\ \A k \in DOMAIN scheme :
              /\ scheme[k].id \in Nat \cup {NoNeedPostprocession}
              /\ NeedPostprocess(k) => scheme[k].id \in IdsOf(scheme)
<1>1. scheme \in Schemes /\ scheme \in Seq(ElementDescs)
  BY BytesAssemblyAssumption
<1>2. Len(scheme) \in Nat /\ DOMAIN scheme = 1 .. Len(scheme)
      /\ \A k \in DOMAIN scheme : scheme[k] \in ElementDescs
  BY <1>1
<1>3. IdsOf(scheme) \subseteq AllIds
  BY <1>1 DEF AllIds
<1>4. ASSUME NEW k \in DOMAIN scheme
      PROVE  scheme[k].id \in Nat \cup {NoNeedPostprocession}
             /\ (NeedPostprocess(k) => scheme[k].id \in IdsOf(scheme))
  <2>1. scheme[k].id \in Nat \cup {NoNeedPostprocession}
    BY <1>2 DEF ElementDescs
  <2> QED
    BY <2>1 DEF IdsOf, NeedPostprocess, NoNeedPostprocession
<1> QED
  BY <1>2, <1>3, <1>4

(* put_address fills a package with the addresses of different variables.  *)
LEMMA PackagesTyped ==
  ASSUME scheme \in Schemes, NEW p \in Packages
  PROVE  (\E m \in Nat : p \in PackagesOf(m)) /\ p.fetch = 0
<1>1. PICK l \in Len(scheme) - 1 .. Len(scheme) : \E s \in [1 .. l -> Variables] :
        IsInjective(s) /\ p = Pointing(s)
  BY DEF Packages
<1>2. PICK t \in [1 .. l -> Variables] : IsInjective(t) /\ p = Pointing(t)
  BY <1>1
<1>3. PICK m \in Nat : t \in [1 .. m -> Variables]
  <2>1. l \in Int /\ l >= -1
    BY <1>2, SchemeTyped
  <2>2. CASE l \in Nat
    BY <1>2, <2>2
  <2>3. CASE l = -1
    <3>1. 1 .. l = 1 .. 0
      BY <2>3
    <3> QED
      BY <1>2, <3>1
  <2> QED
    BY <2>1, <2>2, <2>3
<1>4. t \in Seq(Variables) /\ Len(t) = m
  BY <1>3
<1>5. p = [num |-> m, strategy |-> PutWithoutPos, put |-> m, fetch |-> 0,
           paras |-> [k \in 0 .. m - 1 |-> t[k + 1]]]
  BY <1>2, <1>4 DEF Pointing, NewPackage
<1>6. \A i \in 0 .. m - 1 : i + 1 \in 1 .. m
  BY <1>3
<1>7. [k \in 0 .. m - 1 |-> t[k + 1]] \in [0 .. m - 1 -> Variables]
  BY <1>3, <1>6
<1>8. \A i, j \in 0 .. m - 1 : t[i + 1] = t[j + 1] => i = j
  <2>1. \A i, j \in DOMAIN t : t[i] = t[j] => i = j
    BY <1>2 DEF IsInjective
  <2> QED
    BY <1>3, <1>6, <2>1
<1>9. p \in PackagesOf(m)
  BY <1>5, <1>7, <1>8 DEF PackagesOf
<1> QED
  BY <1>5, <1>9

LEMMA PackageFields ==
  ASSUME NEW m \in Nat, NEW p \in PackagesOf(m)
  PROVE  /\ p.num = m /\ p.fetch \in Nat /\ p.paras \in [0 .. m - 1 -> Variables]
         /\ \A i, j \in 0 .. m - 1 : p.paras[i] = p.paras[j] => i = j
         /\ FetchPara(p) \in PackagesOf(m) /\ FetchPara(p).fetch = p.fetch + 1
         /\ FetchPara(p).num = m /\ FetchPara(p).paras = p.paras
         /\ ReuseParameterPackage(p) \in PackagesOf(m) /\ ReuseParameterPackage(p).fetch = 0
         /\ ReuseParameterPackage(p).num = m /\ ReuseParameterPackage(p).paras = p.paras
BY DEF PackagesOf, FetchPara, ReuseParameterPackage

LEMMA InvInit == Init => Inv
<1> SUFFICES ASSUME Init
             PROVE  Inv
  OBVIOUS
<1>1. scheme \in Schemes /\ scheme \in Seq(ElementDescs) /\ pkg \in Packages
  BY BytesAssemblyAssumption DEF Init
<1>2. 1 \in 1 .. Len(scheme) + 1
  BY <1>1
<1>3. (\E m \in Nat : pkg \in PackagesOf(m)) /\ pkg.fetch = 0
  BY <1>1, PackagesTyped
<1>4. TypeOK
  BY <1>2, <1>3 DEF Init, TypeOK
<1>5. LoopSound
  BY <1>3 DEF Init, LoopSound, FetchAligned
<1>6. OthersUntouched
  BY DEF Init, OthersUntouched
<1>7. StoredInPlace
  BY DEF Init, StoredInPlace, Done
<1> QED
  BY <1>4, <1>5, <1>6, <1>7 DEF Inv

-----------------------------------------------------------------------------
(* The steps outside the loop                                              *)

LEMMA InvNewTargets ==
  ASSUME Inv, NEW p \in Packages, NewTargets(p)
  PROVE  Inv'
<1>1. /\ pc = "idle" /\ pkg' = p /\ answer' = "none" /\ before' = memory
      /\ UNCHANGED << scheme, memory, code, array, depth, n, pc >>
  BY DEF NewTargets
<1>2. (\E m \in Nat : p \in PackagesOf(m)) /\ p.fetch = 0
  BY PackagesTyped DEF Inv, TypeOK
<1>3. TypeOK'
  BY <1>1, <1>2 DEF Inv, TypeOK
<1>4. LoopSound'
  BY <1>1, <1>2 DEF LoopSound, FetchAligned
<1>5. OthersUntouched'
  BY <1>1 DEF OthersUntouched
<1>6. StoredInPlace'
  BY <1>1 DEF StoredInPlace, Done
<1> QED
  BY <1>3, <1>4, <1>5, <1>6 DEF Inv

LEMMA InvRefuse ==
  ASSUME Inv, NEW a \in Arrays, NEW d \in Depths, Refuse(a, d)
  PROVE  Inv'
<1>1. /\ pc = "idle" /\ answer' = "1" /\ before' = memory
      /\ array' \in Arrays /\ UNCHANGED << scheme, memory, pkg, code, n, pc >>
  BY DEF Refuse, Receive
<1>2. TypeOK'
  BY <1>1 DEF Inv, TypeOK
<1>3. LoopSound'
  BY <1>1 DEF Inv, LoopSound, FetchAligned
<1>4. OthersUntouched'
  BY <1>1 DEF OthersUntouched
<1>5. StoredInPlace'
  BY <1>1 DEF StoredInPlace, Done
<1> QED
  BY <1>2, <1>3, <1>4, <1>5 DEF Inv

LEMMA InvBegin ==
  ASSUME Inv, NEW a \in Arrays, NEW d \in Depths, Begin(a, d)
  PROVE  Inv'
<1>1. /\ pc = "idle" /\ pc' = "loop" /\ n' = 1 /\ answer' = "none" /\ before' = memory
      /\ pkg.num = Len(scheme) /\ array' \in Arrays
      /\ UNCHANGED << scheme, memory, pkg, code >>
  BY DEF Begin, Receive
<1>2. TypeOK'
  <2>1. 1 \in 1 .. Len(scheme) + 1
    BY SchemeTyped DEF Inv, TypeOK
  <2> QED
    BY <1>1, <2>1 DEF Inv, TypeOK
<1>3. LoopSound'
  BY <1>1 DEF Inv, LoopSound, FetchAligned
<1>4. OthersUntouched'
  BY <1>1 DEF OthersUntouched
<1>5. StoredInPlace'
  <2>1. \A k \in DOMAIN scheme : ~(k < 1)
    BY SchemeTyped DEF Inv, TypeOK
  <2> QED
    BY <1>1, <2>1 DEF StoredInPlace, Done
<1> QED
  BY <1>2, <1>3, <1>4, <1>5 DEF Inv

LEMMA InvNoBlocks ==
  ASSUME Inv, NoBlocks
  PROVE  Inv'
<1>1. /\ pc = "loop" /\ ~BlocksCollected /\ pc' = "crash"
      /\ UNCHANGED << memory, pkg, code, scheme, array, depth, before, n, answer >>
  BY DEF NoBlocks, AtElement, callVars
<1>2. n = 1 /\ pkg.fetch = 0 /\ answer = "none"
  BY <1>1 DEF Inv, LoopSound, FetchAligned
<1>3. TypeOK'
  BY <1>1 DEF Inv, TypeOK
<1>4. LoopSound'
  BY <1>1, <1>2 DEF LoopSound, FetchAligned
<1>5. OthersUntouched'
  BY <1>1 DEF Inv, OthersUntouched, Targets, UsualDepth
<1>6. StoredInPlace'
  BY <1>1, <1>2 DEF StoredInPlace, Done
<1> QED
  BY <1>3, <1>4, <1>5, <1>6 DEF Inv

LEMMA InvFinish ==
  ASSUME Inv, Finish
  PROVE  Inv'
<1>1. /\ pc = "loop" /\ n > Len(scheme) /\ pc' = "idle" /\ answer' = "0"
      /\ pkg' = ReuseParameterPackage(pkg)
      /\ UNCHANGED << memory, code, scheme, array, depth, before, n >>
  BY DEF Finish, callVars
<1>2. PICK m \in Nat : pkg \in PackagesOf(m)
  BY DEF Inv, TypeOK
<1>3. pkg'.num = pkg.num /\ pkg'.paras = pkg.paras /\ pkg'.fetch = 0
      /\ pkg' \in PackagesOf(m)
  BY <1>1, <1>2, PackageFields
<1>4. pkg.num = Len(scheme)
  BY <1>1 DEF Inv, LoopSound
<1>5. TypeOK'
  BY <1>1, <1>3 DEF Inv, TypeOK
<1>6. LoopSound'
  BY <1>1, <1>3, <1>4 DEF LoopSound, FetchAligned
<1>7. OthersUntouched'
  BY <1>1, <1>3 DEF Inv, OthersUntouched, Targets, UsualDepth
<1>8. StoredInPlace'
  <2> SUFFICES ASSUME UsualDepth, NEW k \in DOMAIN scheme
               PROVE  memory[pkg.paras[k - 1]] = Stored(k)'
    BY <1>1, <1>3 DEF StoredInPlace, Done, UsualDepth
  <2>1. k < n
    BY <1>1, SchemeTyped DEF Inv, TypeOK
  <2>2. Stored(k)' = Stored(k)
    BY <1>1, <1>3 DEF Stored, AssemblyItem, Item, NeedPostprocess
  <2> QED
    BY <1>1, <2>1, <2>2 DEF Inv, StoredInPlace, Done
<1> QED
  BY <1>5, <1>6, <1>7, <1>8 DEF Inv

LEMMA InvUnchanged ==
  ASSUME Inv, UNCHANGED vars
  PROVE  Inv'
<1>1. UNCHANGED << scheme, memory, pkg, code, array, depth, before, n, answer, pc >>
  BY DEF vars
<1>2. TypeOK' /\ LoopSound' /\ OthersUntouched'
  BY <1>1 DEF Inv, TypeOK, LoopSound, FetchAligned, BlocksCollected, OthersUntouched,
              Targets, UsualDepth
<1>3. StoredInPlace'
  BY <1>1 DEF Inv, StoredInPlace, Done, UsualDepth, Stored, AssemblyItem, Item, NeedPostprocess
<1> QED
  BY <1>2, <1>3 DEF Inv

-----------------------------------------------------------------------------
(* The steps of the loop                                                   *)

(* An element of the loop, when the code that ran was compiled at the      *)
(* depth of the call, stores its word through its own parameter.           *)
LEMMA InvElement ==
  ASSUME Inv, AtElement, BlocksCollected, Advance,
         UNCHANGED << callVars, answer, pc >>,
         DOMAIN memory' = Variables, DOMAIN code' = AllIds,
         UsualDepth' => UsualDepth /\ memory' = [memory EXCEPT ![VarAddr] = Stored(n)]
  PROVE  Inv'
<1>1. /\ pc = "loop" /\ n <= Len(scheme) /\ n' = n + 1 /\ pkg' = FetchPara(pkg)
      /\ UNCHANGED << scheme, array, depth, before, answer, pc >>
  BY DEF AtElement, Advance, callVars
<1>2. PICK m \in Nat : pkg \in PackagesOf(m)
  BY DEF Inv, TypeOK
<1>3. /\ Len(scheme) \in Nat /\ DOMAIN scheme = 1 .. Len(scheme)
      /\ scheme \in Schemes /\ n \in 1 .. Len(scheme) + 1
  BY SchemeTyped DEF Inv, TypeOK
<1>4. PICK k \in DOMAIN scheme : k = n
  BY <1>1, <1>3
<1>5. m = Len(scheme) /\ pkg.fetch = k - 1 /\ answer = "none" /\ pkg.num = m
  BY <1>1, <1>2, <1>4, PackageFields DEF Inv, LoopSound, FetchAligned
<1>6. /\ pkg' \in PackagesOf(m) /\ pkg'.num = m /\ pkg'.paras = pkg.paras
      /\ pkg'.fetch = k - 1 + 1
  BY <1>1, <1>2, <1>5, PackageFields
<1>7. /\ pkg.paras \in [0 .. m - 1 -> Variables]
      /\ \A i, j \in 0 .. m - 1 : pkg.paras[i] = pkg.paras[j] => i = j
  BY <1>2, PackageFields
<1>8. \A j \in DOMAIN scheme : j - 1 \in 0 .. m - 1 /\ j \in Nat
  BY <1>3, <1>5
<1>9. VarAddr = pkg.paras[k - 1] /\ VarAddr \in Variables /\ VarAddr \in Targets
  BY <1>5, <1>7, <1>8 DEF VarAddr, NextPara, Targets
<1>10. TypeOK'
  BY <1>1, <1>3, <1>4, <1>6 DEF Inv, TypeOK
<1>11. LoopSound'
  <2>1. FetchAligned'
    BY <1>1, <1>4, <1>6, <1>8 DEF FetchAligned
  <2>2. BlocksCollected'
    BY <1>1 DEF BlocksCollected
  <2> QED
    BY <1>1, <1>5, <1>6, <2>1, <2>2 DEF LoopSound
<1>12. OthersUntouched'
  <2> SUFFICES ASSUME NEW v \in Variables, v \notin Targets, UsualDepth'
               PROVE  memory'[v] = before[v]
    BY <1>1, <1>5, <1>6 DEF OthersUntouched, Targets
  <2>1. UsualDepth /\ memory' = [memory EXCEPT ![VarAddr] = Stored(n)]
    OBVIOUS
  <2>2. v # VarAddr
    BY <1>9
  <2>3. memory'[v] = memory[v]
    BY <2>1, <2>2 DEF Inv, TypeOK
  <2> QED
    BY <2>1, <2>3 DEF Inv, OthersUntouched
<1>13. StoredInPlace'
  <2> SUFFICES ASSUME UsualDepth', NEW j \in DOMAIN scheme, j < k + 1
               PROVE  memory'[pkg.paras[j - 1]] = Stored(j)'
    BY <1>1, <1>4, <1>5, <1>6 DEF StoredInPlace, Done
  <2>1. UsualDepth /\ memory' = [memory EXCEPT ![VarAddr] = Stored(k)]
    BY <1>4
  <2>2. Stored(j)' = Stored(j)
    BY <1>1, <1>6 DEF Stored, AssemblyItem, Item, NeedPostprocess
  <2>3. pkg.paras[j - 1] \in Variables
    BY <1>7, <1>8
  <2>4. CASE j = k
    BY <1>9, <2>1, <2>2, <2>4 DEF Inv, TypeOK
  <2>5. CASE j # k
    <3>1. j < k /\ j - 1 # k - 1
      BY <1>8, <2>5
    <3>2. pkg.paras[j - 1] # VarAddr
      BY <1>7, <1>8, <1>9, <3>1
    <3>3. memory[pkg.paras[j - 1]] = Stored(j)
      BY <1>1, <1>4, <2>1, <3>1 DEF Inv, StoredInPlace, Done
    <3> QED
      BY <2>1, <2>2, <2>3, <3>2, <3>3 DEF Inv, TypeOK
  <2> QED
    BY <2>4, <2>5
<1> QED
  BY <1>10, <1>11, <1>12, <1>13 DEF Inv

(* The parameter fetched for an element is the one of its number.          *)
LEMMA VarAddrIs ==
  ASSUME Inv, AtElement
  PROVE  VarAddr = pkg.paras[n - 1]
BY DEF AtElement, Inv, LoopSound, FetchAligned, VarAddr, NextPara

LEMMA InvStoreElement ==
  ASSUME Inv, StoreElement
  PROVE  Inv'
<1>1. /\ AtElement /\ BlocksCollected /\ Advance /\ ~NeedPostprocess(n)
      /\ memory' = [memory EXCEPT ![VarAddr] = Store(VarAddr, AssemblyItem(n))]
      /\ UNCHANGED << callVars, answer, pc >> /\ UNCHANGED code
  BY DEF StoreElement
<1>2. Store(VarAddr, AssemblyItem(n)) = Stored(n)
  BY <1>1, VarAddrIs DEF Stored
<1>3. DOMAIN memory' = Variables /\ DOMAIN code' = AllIds
  BY <1>1 DEF Inv, TypeOK
<1>4. UsualDepth' => UsualDepth
  BY <1>1 DEF UsualDepth, callVars
<1> QED
  BY <1>1, <1>2, <1>3, <1>4, InvElement

LEMMA InvPostprocessElement ==
  ASSUME Inv, PostprocessElement
  PROVE  Inv'
<1> DEFINE id == scheme[n].id
           word == Post[id][AssemblyItem(n)]
<1>1. /\ AtElement /\ BlocksCollected /\ Advance /\ NeedPostprocess(n)
      /\ code' = [code EXCEPT ![id] = Code(id)]
      /\ UNCHANGED << callVars, answer, pc >> /\ UNCHANGED << scheme, depth >>
  BY DEF PostprocessElement, callVars
<1>2. PICK v \in Writes(Code(id)) :
        memory' = IF v = NULL THEN memory ELSE [memory EXCEPT ![v] = Store(v, word)]
  BY DEF PostprocessElement
<1>3. id \in IdsOf(scheme) /\ id \in AllIds /\ DOMAIN code = AllIds
  BY <1>1, SchemeTyped DEF AtElement, Inv, TypeOK
<1>4. Store(VarAddr, word) = Stored(n)
  BY <1>1, VarAddrIs DEF Stored
<1> HIDE DEF word
<1>5. DOMAIN memory' = Variables /\ DOMAIN code' = AllIds
  BY <1>1, <1>2 DEF Inv, TypeOK
<1>6. ASSUME UsualDepth'
      PROVE  UsualDepth /\ Code(id).depth = depth
  <2>1. /\ \A i \in IdsOf(scheme) : code'[i] # NULL => code'[i].depth = depth
        /\ code'[id] = Code(id) /\ \A i \in AllIds \ {id} : code'[i] = code[i]
    BY <1>1, <1>3, <1>6 DEF UsualDepth, IdsOf
  <2>2. Code(id).depth = depth
    BY <1>3, <2>1 DEF Code
  <2>3. \A i \in IdsOf(scheme) : code[i] # NULL => code[i].depth = depth
    <3>1. IdsOf(scheme) \subseteq AllIds
      BY SchemeTyped DEF Inv, TypeOK
    <3> QED
      BY <2>1, <2>2, <3>1 DEF Code
  <2> QED
    BY <2>2, <2>3 DEF UsualDepth
<1>7. UsualDepth' => UsualDepth /\ memory' = [memory EXCEPT ![VarAddr] = Stored(n)]
  <2> SUFFICES ASSUME UsualDepth'
               PROVE  UsualDepth /\ memory' = [memory EXCEPT ![VarAddr] = Stored(n)]
    OBVIOUS
  <2>1. v = VarAddr
    BY <1>2, <1>6 DEF Writes
  <2>2. VarAddr # NULL
    <3>1. PICK m \in Nat : pkg \in PackagesOf(m)
      BY DEF Inv, TypeOK
    <3>2. n - 1 \in 0 .. m - 1
      <4>1. pc = "loop" /\ n <= Len(scheme)
        BY <1>1 DEF AtElement
      <4>2. Len(scheme) \in Nat /\ n \in 1 .. Len(scheme) + 1
        BY SchemeTyped DEF Inv, TypeOK
      <4>3. m = Len(scheme)
        BY <3>1, <4>1, PackageFields DEF Inv, LoopSound
      <4> QED
        BY <4>1, <4>2, <4>3
    <3> QED
      BY <1>1, <3>1, <3>2, VarAddrIs, PackageFields, BytesAssemblyAssumption
  <2> QED
    BY <1>2, <1>4, <1>6, <2>1, <2>2
<1> QED
  BY <1>1, <1>5, <1>7, InvElement

LEMMA InvNext == Inv /\ [Next]_vars => Inv'
<1> SUFFICES ASSUME Inv, [Next]_vars
             PROVE  Inv'
  OBVIOUS
<1>1. CASE \E p \in Packages : NewTargets(p)
  BY <1>1, InvNewTargets
<1>2. CASE \E a \in Arrays, d \in Depths : Refuse(a, d)
  BY <1>2, InvRefuse
<1>3. CASE \E a \in Arrays, d \in Depths : Begin(a, d)
  BY <1>3, InvBegin
<1>4. CASE StoreElement
  BY <1>4, InvStoreElement
<1>5. CASE PostprocessElement
  BY <1>5, InvPostprocessElement
<1>6. CASE NoBlocks
  BY <1>6, InvNoBlocks
<1>7. CASE Finish
  BY <1>7, InvFinish
<1>8. CASE UNCHANGED vars
  BY <1>8, InvUnchanged
<1> QED
  BY <1>1, <1>2, <1>3, <1>4, <1>5, <1>6, <1>7, <1>8 DEF Next

-----------------------------------------------------------------------------
(* The package, the loop and the variables hold together in every state.   *)
THEOREM InvAlways == Spec => []Inv
BY InvInit, InvNext, PTL DEF Spec

(* FetchAligned: the loop fetches one parameter for each element, and each *)
(* call begins with the first.                                             *)
THEOREM FetchAlwaysAligned == Spec => []FetchAligned
<1>1. Inv => FetchAligned
  BY DEF Inv, LoopSound
<1> QED
  BY <1>1, InvAlways, PTL

(* OthersUntouched: a call changes no variable that its package does not   *)
(* point to, and a refused call none.                                      *)
THEOREM OthersAlwaysUntouched == Spec => []OthersUntouched
<1>1. Inv => OthersUntouched
  BY DEF Inv
<1> QED
  BY <1>1, InvAlways, PTL

(* AssembledInPlace: a call that succeeds leaves the word of each element  *)
(* in its own variable, or what the code block makes of it.                *)
THEOREM WordsAlwaysInPlace == Spec => []AssembledInPlace
<1>1. Inv => AssembledInPlace
  <2> SUFFICES ASSUME Inv, answer = "0", UsualDepth, SignOnlyFirst, NEW k \in DOMAIN scheme
               PROVE  memory[pkg.paras[k - 1]] = Expected(k)
    BY DEF AssembledInPlace
  <2>1. memory[pkg.paras[k - 1]] = Stored(k)
    BY DEF Inv, StoredInPlace, Done
  <2>2. AssemblyItem(k) = BigEndian(k)
    BY Assembles DEF Inv, TypeOK, SignOnlyFirst
  <2>3. Stored(k) = Expected(k)
    BY <2>2 DEF Stored, Expected
  <2> QED
    BY <2>1, <2>3
<1> QED
  BY <1>1, InvAlways, PTL

=============================================================================
