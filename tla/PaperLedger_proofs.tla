------------------------- MODULE PaperLedger_proofs -------------------------
(***************************************************************************)
(* The PAPER ledger for any prices, sizes, fees and number of positions:   *)
(* no money is lost or made between the account and its positions, stops   *)
(* only tighten, what a stop costs is bounded in money, fees and slippage  *)
(* included, and the partial is taken once.                                *)
(*                                                                         *)
(* A sum over the rows is a fold over a set, whose definition chooses a    *)
(* recursive function.  What it computes is shown by induction on finite   *)
(* sets, which the well-foundedness of the strict subset gives.            *)
(***************************************************************************)
EXTENDS PaperLedger, FiniteSetTheorems, WellFoundedInduction, TLAPS

(***************************************************************************)
(* Induction on finite sets.                                               *)
(***************************************************************************)
LEMMA MinimalSet ==
  ASSUME NEW S, IsFiniteSet(S), NEW F, F \subseteq SUBSET S, F # {}
  PROVE  \E T \in F : \A U \in F : U \subseteq T => U = T
  <1>1. IsWellFoundedOn(StrictSubsetOrdering(S), FiniteSubsetsOf(S))
    BY FS_StrictSubsetOrderingWellFounded
  <1>2. F \subseteq FiniteSubsetsOf(S)
    BY FS_FiniteSubsetsOfFinite
  <1>3. PICK T \in F : \A U \in F : ~(<<U, T>> \in StrictSubsetOrdering(S))
    BY <1>1, <1>2, WFMin
  <1> QED
    BY <1>3 DEF StrictSubsetOrdering

\* A family with the empty set, closed under adding an element, has them all.
LEMMA SetInduction ==
  ASSUME NEW S, IsFiniteSet(S), NEW F, {} \in F,
         \A T \in SUBSET S : \A x \in S \ T : T \in F => T \cup {x} \in F
  PROVE  SUBSET S \subseteq F
  <1> SUFFICES ASSUME NEW B \in SUBSET S, B \notin F
               PROVE  FALSE
    OBVIOUS
  <1> DEFINE G == (SUBSET S) \ F
  <1>1. G # {} /\ G \subseteq SUBSET S
    OBVIOUS
  <1>2. \E T \in G : \A U \in G : U \subseteq T => U = T
    <2> HIDE DEF G
    <2> QED
      BY <1>1, MinimalSet
  <1>3. PICK T \in G : \A U \in G : U \subseteq T => U = T
    BY <1>2
  <1>4. PICK x \in T : TRUE
    BY <1>3
  <1>5. T \ {x} \in F
    BY <1>3, <1>4
  <1>6. (T \ {x}) \cup {x} = T
    BY <1>4
  <1> QED
    BY <1>3, <1>4, <1>5, <1>6

----------------------------------------------------------------------------
(***************************************************************************)
(* Sums.  A is the sum of c over every subset of D.                        *)
(***************************************************************************)
SumsOf(A, c, D) ==
    /\ A \in [SUBSET D -> Int]
    /\ A[{}] = 0
    /\ \A T \in SUBSET D : \A x \in D \ T : A[T \cup {x}] = A[T] + c[x]

\* Sums exist.
LEMMA SumsExist ==
  ASSUME NEW D, IsFiniteSet(D), NEW c \in [D -> Int]
  PROVE  \E A : SumsOf(A, c, D)
  <1> DEFINE F == {T \in SUBSET D : \E A : SumsOf(A, c, T)}
  <1>1. {} \in F
    <2> DEFINE A == [T \in SUBSET {} |-> 0]
    <2>1. SumsOf(A, c, {})
      BY DEF SumsOf
    <2> QED
      BY <2>1
  <1>2. ASSUME NEW T \in SUBSET D, NEW x \in D \ T, T \in F
        PROVE  T \cup {x} \in F
    <2>1. PICK A : SumsOf(A, c, T)
      BY <1>2
    <2> DEFINE E == T \cup {x}
               B == [U \in SUBSET E |-> IF x \in U THEN A[U \ {x}] + c[x] ELSE A[U]]
    <2>2. \A U \in SUBSET E : U \ {x} \in SUBSET T /\ (x \notin U => U \in SUBSET T)
      OBVIOUS
    <2>3. B \in [SUBSET E -> Int]
      BY <2>1, <2>2 DEF SumsOf
    <2>4. B[{}] = 0
      BY <2>1 DEF SumsOf
    <2>5. ASSUME NEW U \in SUBSET E, NEW y \in E \ U
          PROVE  B[U \cup {y}] = B[U] + c[y]
      <3>1. CASE y = x
        <4>1. /\ (U \cup {y}) \ {x} = U
              /\ x \in U \cup {y} /\ x \notin U
          BY <3>1, <2>5
        <4> QED
          BY <4>1, <3>1
      <3>2. CASE y # x /\ x \notin U
        <4>1. U \in SUBSET T /\ y \in T \ U /\ x \notin U \cup {y}
          BY <3>2
        <4> QED
          BY <4>1, <2>1, <3>2 DEF SumsOf
      <3>3. CASE y # x /\ x \in U
        <4>1. /\ U \ {x} \in SUBSET T /\ y \in T \ (U \ {x})
              /\ (U \cup {y}) \ {x} = (U \ {x}) \cup {y}
          BY <3>3
        <4>2. A[(U \ {x}) \cup {y}] = A[U \ {x}] + c[y]
          BY <4>1, <2>1 DEF SumsOf
        <4>3. A[U \ {x}] \in Int /\ c[x] \in Int /\ c[y] \in Int
          BY <4>1, <2>1 DEF SumsOf
        <4>4. /\ B[U \cup {y}] = A[(U \ {x}) \cup {y}] + c[x]
              /\ B[U] = A[U \ {x}] + c[x]
          BY <4>1, <3>3
        <4> QED
          BY <4>2, <4>3, <4>4
      <3> QED
        BY <3>1, <3>2, <3>3
    <2> HIDE DEF B
    <2>6. SumsOf(B, c, E)
      BY <2>3, <2>4, <2>5 DEF SumsOf
    <2> QED
      BY <2>6
  <1> HIDE DEF F
  <1>3. SUBSET D \subseteq F
    BY <1>1, <1>2, SetInduction
  <1> QED
    BY <1>3 DEF F

\* Sums of terms that agree on E agree on the subsets of E.
LEMMA SumsAgree ==
  ASSUME NEW D, NEW c, NEW A, SumsOf(A, c, D),
         NEW H, NEW e, NEW B, SumsOf(B, e, H),
         NEW E, IsFiniteSet(E), E \subseteq D, E \subseteq H,
         \A x \in E : c[x] = e[x]
  PROVE  \A T \in SUBSET E : A[T] = B[T]
  <1> DEFINE F == {T \in SUBSET E : A[T] = B[T]}
  <1>1. {} \in F
    BY DEF SumsOf
  <1>2. ASSUME NEW T \in SUBSET E, NEW x \in E \ T, T \in F
        PROVE  T \cup {x} \in F
    <2>1. A[T \cup {x}] = A[T] + c[x] /\ B[T \cup {x}] = B[T] + e[x]
      BY DEF SumsOf
    <2> QED
      BY <2>1, <1>2
  <1> HIDE DEF F
  <1>3. SUBSET E \subseteq F
    BY <1>1, <1>2, SetInduction
  <1> QED
    BY <1>3 DEF F

Contributions(rows) == [i \in DOMAIN rows |-> Contribution(rows[i])]

Pick(T) == CHOOSE x \in T : TRUE

\* The definition of the fold, unfolded.
Iterates(rows) ==
    CHOOSE iter : iter = [T \in SUBSET DOMAIN rows |->
        IF T = {} THEN 0 ELSE iter[T \ {Pick(T)}] + Contribution(rows[Pick(T)])]

LEMMA TotalUnfolds ==
  ASSUME NEW rows
  PROVE  Total(rows) = Iterates(rows)[DOMAIN rows]
  BY DEF Total, FoldSet, MapThenFoldSet, Iterates, Pick

\* The fold is the sum.
LEMMA TotalIsSum ==
  ASSUME NEW rows, IsFiniteSet(DOMAIN rows), Contributions(rows) \in [DOMAIN rows -> Int],
         NEW A, SumsOf(A, Contributions(rows), DOMAIN rows)
  PROVE  Total(rows) = A[DOMAIN rows]
  <1> DEFINE D == DOMAIN rows
             Body(f) == [T \in SUBSET D |->
                IF T = {} THEN 0 ELSE f[T \ {Pick(T)}] + Contribution(rows[Pick(T)])]
             iter == Iterates(rows)
  <1>1. ASSUME NEW T \in SUBSET D, T # {}
        PROVE  /\ Pick(T) \in T
               /\ A[T] = A[T \ {Pick(T)}] + Contribution(rows[Pick(T)])
    <2>1. Pick(T) \in T
      BY <1>1 DEF Pick
    <2>2. /\ T \ {Pick(T)} \in SUBSET D /\ Pick(T) \in D \ (T \ {Pick(T)})
          /\ (T \ {Pick(T)}) \cup {Pick(T)} = T
      BY <2>1
    <2>3. A[T] = A[T \ {Pick(T)}] + Contributions(rows)[Pick(T)]
      BY <2>2 DEF SumsOf
    <2> QED
      BY <2>1, <2>3 DEF Contributions
  <1>2. A = Body(A)
    BY <1>1 DEF SumsOf
  <1>3. iter = Body(iter)
    BY <1>2 DEF Iterates
  <1> HIDE DEF iter
  <1> DEFINE G == {T \in SUBSET D : iter[T] # A[T]}
  <1>4. G = {}
    <2> SUFFICES ASSUME G # {}
                 PROVE  FALSE
      OBVIOUS
    <2>1. G \subseteq SUBSET D
      OBVIOUS
    <2>2. \E T \in G : \A U \in G : U \subseteq T => U = T
      <3> HIDE DEF G
      <3> QED
        BY <2>1, MinimalSet
    <2>3. PICK T \in G : \A U \in G : U \subseteq T => U = T
      BY <2>2
    <2>4. T \in SUBSET D /\ iter[T] # A[T]
      BY <2>3
    <2>5. iter[T] = IF T = {} THEN 0
                    ELSE iter[T \ {Pick(T)}] + Contribution(rows[Pick(T)])
      BY <1>3, <2>4
    <2>6. T # {}
      BY <2>4, <2>5 DEF SumsOf
    <2>7. Pick(T) \in T /\ A[T] = A[T \ {Pick(T)}] + Contribution(rows[Pick(T)])
      BY <1>1, <2>4, <2>6
    <2>8. T \ {Pick(T)} \notin G /\ T \ {Pick(T)} \in SUBSET D
      BY <2>3, <2>7
    <2>9. iter[T \ {Pick(T)}] = A[T \ {Pick(T)}]
      BY <2>8
    <2> QED
      BY <2>4, <2>5, <2>6, <2>7, <2>9
  <1>5. iter[D] = A[D]
    BY <1>4
  <1> QED
    BY <1>5, TotalUnfolds DEF iter

----------------------------------------------------------------------------
(***************************************************************************)
(* The total of the rows, under the two things a commit does to them.      *)
(***************************************************************************)
LEMMA PositionFields ==
  ASSUME NEW p \in Position
  PROVE  /\ p.side \in Sides /\ p.status \in {"OPEN", "CLOSED"}
         /\ p.quantity \in Nat /\ p.entry \in Nat /\ p.stop \in Nat
         /\ p.initialStop \in Nat /\ p.highest \in Nat /\ p.lowest \in Nat
         /\ p.entryFee \in Nat /\ p.partialTaken \in BOOLEAN
         /\ p.realized \in Int /\ p.partialRealized \in Int
         /\ p.symbol \in Symbols /\ p.notional \in Nat
  BY DEF Position

LEMMA RowsOfPositions ==
  ASSUME NEW rows \in Seq(Position)
  PROVE  /\ DOMAIN rows = 1..Len(rows) /\ Len(rows) \in Nat
         /\ IsFiniteSet(DOMAIN rows)
         /\ \A i \in DOMAIN rows : rows[i] \in Position
         /\ Contributions(rows) \in [DOMAIN rows -> Int]
  <1>1. DOMAIN rows = 1..Len(rows) /\ Len(rows) \in Nat
    OBVIOUS
  <1>2. IsFiniteSet(DOMAIN rows)
    BY <1>1, FS_Interval
  <1>3. \A i \in DOMAIN rows : rows[i] \in Position
    OBVIOUS
  <1>4. \A i \in DOMAIN rows : Contribution(rows[i]) \in Int
    <2> TAKE i \in DOMAIN rows
    <2> QED
      BY <1>3, PositionFields DEF Contribution
  <1> QED
    BY <1>1, <1>2, <1>3, <1>4 DEF Contributions

\* A new row adds its contribution.
LEMMA TotalAppends ==
  ASSUME NEW rows \in Seq(Position), NEW p \in Position
  PROVE  /\ Total(rows) \in Int
         /\ Total(Append(rows, p)) = Total(rows) + Contribution(p)
  <1> DEFINE more == Append(rows, p)
             D == DOMAIN rows
             H == DOMAIN more
             n == Len(rows) + 1
             c == Contributions(rows)
             e == Contributions(more)
  <1>1. /\ more \in Seq(Position) /\ H = D \cup {n} /\ n \in H /\ n \notin D
        /\ more[n] = p /\ \A i \in D : more[i] = rows[i]
    OBVIOUS
  <1> HIDE DEF more
  <1>2. IsFiniteSet(D) /\ IsFiniteSet(H) /\ c \in [D -> Int] /\ e \in [H -> Int]
    BY <1>1, RowsOfPositions
  <1>3. e[n] = Contribution(p) /\ \A i \in D : c[i] = e[i]
    BY <1>1 DEF Contributions
  <1> HIDE DEF D, H, n, c, e
  <1>4. PICK A : SumsOf(A, c, D)
    BY <1>2, SumsExist
  <1>5. PICK B : SumsOf(B, e, H)
    BY <1>2, SumsExist
  <1>6. \A T \in SUBSET D : A[T] = B[T]
    BY <1>1, <1>2, <1>3, <1>4, <1>5, SumsAgree
  <1>7. A[D] = B[D] /\ A[D] \in Int
    BY <1>4, <1>6 DEF SumsOf
  <1>8. B[H] = B[D] + e[n]
    BY <1>1, <1>5 DEF SumsOf
  <1>9. Total(rows) = A[D] /\ Total(more) = B[H]
    BY <1>2, <1>4, <1>5, TotalIsSum DEF D, H, c, e
  <1> QED
    BY <1>3, <1>7, <1>8, <1>9 DEF more

\* A changed row adds the change of its contribution.
LEMMA TotalUpdates ==
  ASSUME NEW rows \in Seq(Position), NEW i \in DOMAIN rows, NEW q \in Position
  PROVE  Total([rows EXCEPT ![i] = q])
            = Total(rows) + (Contribution(q) - Contribution(rows[i]))
  <1> DEFINE new == [rows EXCEPT ![i] = q]
             D == DOMAIN rows
             c == Contributions(rows)
             e == Contributions(new)
             E == D \ {i}
  <1>1. /\ new \in Seq(Position) /\ DOMAIN new = D /\ new[i] = q
        /\ \A j \in E : new[j] = rows[j]
    OBVIOUS
  <1> HIDE DEF new
  <1>2. IsFiniteSet(D) /\ c \in [D -> Int] /\ e \in [D -> Int]
    BY <1>1, RowsOfPositions
  <1>3. /\ e[i] = Contribution(q) /\ c[i] = Contribution(rows[i])
        /\ \A j \in E : c[j] = e[j]
    BY <1>1 DEF Contributions
  <1>4. /\ E \subseteq D /\ E \cup {i} = D /\ i \in D \ E /\ E \in SUBSET D
        /\ E \in SUBSET E
    OBVIOUS
  <1>5. IsFiniteSet(E)
    BY <1>2, <1>4, FS_Subset
  <1>s. Total(rows) = Total(rows) /\ i \in D
    OBVIOUS
  <1> HIDE DEF D, c, e, E
  <1>6. PICK A : SumsOf(A, c, D)
    BY <1>2, SumsExist
  <1>7. PICK B : SumsOf(B, e, D)
    BY <1>2, SumsExist
  <1>8. \A T \in SUBSET E : A[T] = B[T]
    BY <1>3, <1>4, <1>5, <1>6, <1>7, SumsAgree
  <1>9. A[E] = B[E] /\ A[E] \in Int
    BY <1>4, <1>6, <1>8 DEF SumsOf
  <1>10. A[D] = A[E] + c[i] /\ B[D] = B[E] + e[i]
    BY <1>4, <1>6, <1>7 DEF SumsOf
  <1>11. Total(rows) = A[D] /\ Total(new) = B[D]
    BY <1>1, <1>2, <1>6, <1>7, TotalIsSum DEF D, c, e
  <1>12. c[i] \in Int /\ e[i] \in Int
    BY <1>2, <1>s
  <1> QED
    BY <1>3, <1>9, <1>10, <1>11, <1>12 DEF new

----------------------------------------------------------------------------
(***************************************************************************)
(* Arithmetic.                                                             *)
(***************************************************************************)
LEMMA Quotients ==
  ASSUME NEW a \in Nat, NEW b \in Nat \ {0}
  PROVE  a \div b \in Nat /\ a \div b <= a
  BY SMT

LEMMA WholeShare ==
  ASSUME NEW fee \in Nat, NEW q \in Nat \ {0}
  PROVE  (fee * q) \div q = fee
  BY SMT

LEMMA PartShare ==
  ASSUME NEW fee \in Nat, NEW q \in Nat, NEW p \in Nat \ {0}, q <= p
  PROVE  (fee * q) \div p \in Nat /\ (fee * q) \div p <= fee
  BY SMT

LEMMA PartialShare ==
  ASSUME NEW q \in Nat \ {0}
  PROVE  (35 * q) \div 100 \in Nat /\ (35 * q) \div 100 < q
  BY SMT

LEMMA RiskShares ==
  ASSUME NEW r \in Nat, r >= 20
  PROVE  /\ (5 * r) \div 100 \in 1..r
         /\ (8 * r) \div 10 \in 0..r
         /\ 100 * ((5 * r) \div 100) <= 5 * r
  BY SMT

LEMMA Multiples ==
  ASSUME NEW n \in Nat, NEW a \in Int, NEW b \in Int, a <= b
  PROVE  n * a <= n * b
  BY SMT

\* A quotient moves with its dividend, and not further.
LEMMA QuotientsMove ==
  ASSUME NEW x \in Nat, NEW y \in Nat, x <= y, NEW d \in Nat \ {0}
  PROVE  x \div d <= y \div d /\ y \div d - x \div d <= y - x
  <1> DEFINE a == x \div d
             b == y \div d
  <1>1. /\ a \in Nat /\ d * a <= x /\ x < d * a + d
        /\ b \in Nat /\ d * b <= y /\ y < d * b + d
    BY SMT
  <1> HIDE DEF a, b
  <1>2. a <= b
    <2> SUFFICES ASSUME a >= b + 1
                 PROVE  FALSE
      BY <1>1
    <2>1. d * (b + 1) <= d * a
      BY <1>1, Multiples
    <2>2. d * (b + 1) = d * b + d
      BY <1>1
    <2> QED
      BY <1>1, <2>1, <2>2
  <1>3. b - a <= y - x
    <2> SUFFICES ASSUME b - a >= (y - x) + 1
                 PROVE  FALSE
      BY <1>1
    <2>1. d * ((y - x) + 1) <= d * (b - a)
      BY <1>1, Multiples
    <2>2. d * ((y - x) + 1) = d * (y - x) + d /\ d * (b - a) = d * b - d * a
      BY <1>1
    <2>3. y - x <= d * (y - x)
      BY <1>1, 1 * (y - x) <= d * (y - x)
    <2> QED
      BY <1>1, <2>1, <2>2, <2>3
  <1> QED
    BY <1>2, <1>3 DEF a, b

----------------------------------------------------------------------------
(***************************************************************************)
(* One position.                                                           *)
(***************************************************************************)
\* What holds of every row: its types, that lots are left, that the risk is at
\* least the grain and at most the entry, that the extreme prices enclose the
\* entry, that the stop is not looser than the first one, and the bound on what
\* it costs.
SoundPosition(p) ==
    /\ p \in Position
    /\ p.quantity > 0
    /\ Risk(p) \in 20..p.entry
    /\ Risk(p) = p.entry \div StopDivisor
    /\ p.status = "OPEN" => StopOut(p) >= FirstStopOut(p)
    /\ p.lowest <= p.entry /\ p.entry <= p.highest
    /\ Gain(p.side, p.initialStop, p.stop) >= 0
    /\ p.partialTaken => Better(p.side, p.stop, p.entry)

\* A stop that is the old one or a better one.
Tightened(p, q) == q.stop = p.stop \/ Better(p.side, q.stop, p.stop)

\* The price of a fill is not negative.
LEMMA FillPrices ==
  ASSUME NEW side, NEW price \in Nat
  PROVE  EntryPrice(side, price) \in Nat /\ ExitPrice(side, price) \in Nat
  <1>1. /\ price \div SlippageDivisor \in Nat
        /\ price \div SlippageDivisor <= price
    BY Quotients, SizesAssumption
  <1> QED
    BY <1>1 DEF EntryPrice, ExitPrice, Slip

\* What one lot brings, sold at the price.
PerLot(side, entry, price) ==
    FeeUnit * Gain(side, entry, ExitPrice(side, price)) - ExitPrice(side, price)

LEMMA PerLotIsWhole ==
  ASSUME NEW side, NEW entry \in Nat, NEW price \in Nat
  PROVE  PerLot(side, entry, price) \in Int
  BY FillPrices, SizesAssumption DEF PerLot, Gain

\* An exit brings so much for each lot.
LEMMA ExitIsPerLot ==
  ASSUME NEW p \in Position, NEW n \in Nat, NEW price \in Nat
  PROVE  ExitDelta(p, n, price) = n * PerLot(p.side, p.entry, price)
  <1> DEFINE exit == ExitPrice(p.side, price)
             gain == Gain(p.side, p.entry, exit)
  <1>1. exit \in Nat /\ p.entry \in Nat
    BY FillPrices, PositionFields
  <1>2. gain \in Int
    BY <1>1 DEF Gain
  <1>3. /\ ExitDelta(p, n, price) = (FeeUnit * gain) * n - exit * n
        /\ PerLot(p.side, p.entry, price) = FeeUnit * gain - exit
    BY DEF ExitDelta, Gross, Fee, PerLot
  <1>4. FeeUnit * gain \in Int
    BY <1>2, SizesAssumption
  <1> HIDE DEF exit, gain
  <1> QED
    BY <1>1, <1>3, <1>4

\* A price that is not worse brings no less.
LEMMA PerLotGrows ==
  ASSUME NEW side \in Sides, NEW entry \in Nat, NEW x \in Nat, NEW y \in Nat,
         ~Better(side, x, y)
  PROVE  PerLot(side, entry, x) <= PerLot(side, entry, y)
  <1> DEFINE a == ExitPrice(side, x)
             b == ExitPrice(side, y)
  <1>1. a \in Nat /\ b \in Nat /\ FeeUnit \in Nat
    BY FillPrices, SizesAssumption
  <1>2. SlippageDivisor \in Nat \ {0}
    BY SizesAssumption
  <1>3. CASE side = "LONG"
    <2>1. x <= y
      BY <1>3 DEF Better
    <2>2. a = x - x \div SlippageDivisor /\ b = y - y \div SlippageDivisor
      BY <1>3 DEF ExitPrice, Slip
    <2>3. /\ x \div SlippageDivisor \in Nat /\ y \div SlippageDivisor \in Nat
          /\ y \div SlippageDivisor - x \div SlippageDivisor <= y - x
      BY <1>2, <2>1, Quotients, QuotientsMove
    <2>4. a <= b
      BY <2>2, <2>3
    <2> HIDE DEF a, b
    <2>5. b - a <= FeeUnit * (b - a)
      BY <1>1, <2>4, SizesAssumption, Multiples, 1 * (b - a) <= FeeUnit * (b - a)
    <2>6. FeeUnit * (b - entry) - FeeUnit * (a - entry) = FeeUnit * (b - a)
      BY <1>1
    <2>7. /\ PerLot(side, entry, x) = FeeUnit * (a - entry) - a
          /\ PerLot(side, entry, y) = FeeUnit * (b - entry) - b
      BY <1>3 DEF PerLot, Gain, a, b
    <2>8. FeeUnit * (a - entry) \in Int /\ FeeUnit * (b - entry) \in Int
          /\ FeeUnit * (b - a) \in Int
      BY <1>1
    <2> QED
      BY <1>1, <2>5, <2>6, <2>7, <2>8
  <1>4. CASE side = "SHORT"
    <2>1. y <= x
      BY <1>4 DEF Better
    <2>2. a = x + x \div SlippageDivisor /\ b = y + y \div SlippageDivisor
      BY <1>4 DEF ExitPrice, Slip
    <2>3. /\ x \div SlippageDivisor \in Nat /\ y \div SlippageDivisor \in Nat
          /\ y \div SlippageDivisor <= x \div SlippageDivisor
      BY <1>2, <2>1, Quotients, QuotientsMove
    <2>4. b <= a
      BY <2>1, <2>2, <2>3
    <2> HIDE DEF a, b
    <2>5. FeeUnit * (entry - a) <= FeeUnit * (entry - b)
      BY <1>1, <2>4, Multiples
    <2>6. /\ PerLot(side, entry, x) = FeeUnit * (entry - a) - a
          /\ PerLot(side, entry, y) = FeeUnit * (entry - b) - b
      BY <1>4 DEF PerLot, Gain, a, b
    <2>7. FeeUnit * (entry - a) \in Int /\ FeeUnit * (entry - b) \in Int
      BY <1>1
    <2> QED
      BY <1>1, <2>4, <2>5, <2>6, <2>7
  <1> QED
    BY <1>3, <1>4 DEF Sides

\* What a stop makes of a position depends on its lots, its stops and what it
\* contributes, and is whole.
LEMMA StopOutFigures ==
  ASSUME NEW p \in Position
  PROVE  /\ Contribution(p) \in Int
         /\ PerLot(p.side, p.entry, p.stop) \in Int
         /\ StopOut(p) = Contribution(p) + p.quantity * PerLot(p.side, p.entry, p.stop)
         /\ StopOut(p) \in Int /\ FirstStopOut(p) \in Int
  <1>1. /\ p.quantity \in Nat /\ p.entry \in Nat /\ p.stop \in Nat
        /\ p.initialStop \in Nat /\ Quantity \in Nat
    BY PositionFields, SizesAssumption
  <1>2. Contribution(p) \in Int
    BY PositionFields DEF Contribution
  <1>3. /\ PerLot(p.side, p.entry, p.stop) \in Int
        /\ PerLot(p.side, p.entry, p.initialStop) \in Int
    BY <1>1, PerLotIsWhole
  <1>4. StopOut(p) = Contribution(p) + p.quantity * PerLot(p.side, p.entry, p.stop)
    BY <1>1, ExitIsPerLot DEF StopOut
  <1>5. FirstStopOut(p) = Quantity * PerLot(p.side, p.entry, p.initialStop)
                             - p.entry * Quantity
    BY <1>1, ExitIsPerLot DEF FirstStopOut, Fee
  <1> QED
    BY <1>1, <1>2, <1>3, <1>4, <1>5

LEMMA SameStopOut ==
  ASSUME NEW p, NEW q, q.side = p.side, q.entry = p.entry, q.quantity = p.quantity,
         q.initialStop = p.initialStop, q.stop = p.stop, Contribution(q) = Contribution(p)
  PROVE  StopOut(q) = StopOut(p) /\ FirstStopOut(q) = FirstStopOut(p)
  BY DEF StopOut, FirstStopOut, ExitDelta

\* A LONG's first stop costs no more than its sizing estimated.
LEMMA EstimateCovers ==
  ASSUME NEW p \in Position, p.side = "LONG", Risk(p) = p.entry \div StopDivisor
  PROVE  FirstStopOut(p) >= -EstimatedLoss(p)
  <1> DEFINE risk == p.entry \div StopDivisor
             slip == p.entry \div SlippageDivisor
             out == p.initialStop \div SlippageDivisor
             exit == p.initialStop - out
  <1>1. /\ p.entry \in Nat /\ p.initialStop \in Nat /\ Quantity \in Nat
        /\ FeeUnit \in Nat /\ SlippageDivisor \in Nat \ {0} /\ StopDivisor \in Nat \ {0}
    BY PositionFields, SizesAssumption
  <1>2. risk \in Nat /\ slip \in Nat /\ out \in Nat /\ out <= p.initialStop
    BY <1>1, Quotients
  <1>3. p.entry - p.initialStop = risk
    BY DEF Risk, Gain
  <1>4. out <= slip
    <2>1. p.initialStop <= p.entry
      BY <1>1, <1>2, <1>3
    <2> QED
      BY <1>1, <2>1, QuotientsMove
  <1>5. ExitDelta(p, Quantity, p.initialStop)
           = Quantity * (FeeUnit * (exit - p.entry) - exit)
    <2>1. ExitPrice(p.side, p.initialStop) = exit
      BY DEF ExitPrice, Slip
    <2>2. PerLot(p.side, p.entry, p.initialStop) = FeeUnit * (exit - p.entry) - exit
      BY <2>1 DEF PerLot, Gain
    <2> QED
      BY <1>1, <2>2, ExitIsPerLot
  <1>e. EstimatedLoss(p) = FeeUnit * (risk + slip) * Quantity + 2 * (p.entry * Quantity)
    BY DEF EstimatedLoss, Fee
  <1>f. FirstStopOut(p) = ExitDelta(p, Quantity, p.initialStop) - p.entry * Quantity
    BY DEF FirstStopOut, Fee
  <1> HIDE DEF risk, slip, out
  <1>6. FeeUnit * (exit - p.entry) >= FeeUnit * (-(risk + slip))
    BY <1>1, <1>2, <1>3, <1>4, Multiples
  <1>7. /\ FeeUnit * (-(risk + slip)) = -(FeeUnit * (risk + slip))
        /\ FeeUnit * (risk + slip) \in Int /\ FeeUnit * (exit - p.entry) \in Int
    BY <1>1, <1>2
  <1>8. FeeUnit * (exit - p.entry) - exit >= -(FeeUnit * (risk + slip)) - p.entry
    BY <1>1, <1>2, <1>3, <1>6, <1>7
  <1>9. Quantity * (FeeUnit * (exit - p.entry) - exit)
           >= Quantity * (-(FeeUnit * (risk + slip)) - p.entry)
    BY <1>1, <1>2, <1>7, <1>8, Multiples
  <1>10. Quantity * (-(FeeUnit * (risk + slip)) - p.entry)
            = -(FeeUnit * (risk + slip) * Quantity) - p.entry * Quantity
    BY <1>1, <1>7
  <1>11. /\ FeeUnit * (risk + slip) * Quantity \in Int /\ p.entry * Quantity \in Int
         /\ Quantity * (FeeUnit * (exit - p.entry) - exit) \in Int
    BY <1>1, <1>2, <1>7
  <1> HIDE DEF exit
  <1> QED
    BY <1>5, <1>9, <1>10, <1>11, <1>e, <1>f

LEMMA NewPositionIsSound ==
  ASSUME NEW symbol \in Symbols, NEW side \in Sides, NEW price \in Prices
  PROVE  /\ SoundPosition(NewPosition(symbol, side, price))
         /\ Contribution(NewPosition(symbol, side, price))
               = -Fee(EntryPrice(side, price), Quantity)
         /\ Fee(EntryPrice(side, price), Quantity) \in Nat
  <1> DEFINE entry == EntryPrice(side, price)
             risk == entry \div StopDivisor
             stop == Towards(side, entry, -risk)
             p == NewPosition(symbol, side, price)
  <1>1. entry \in Nat
    BY FillPrices, PricesAssumption
  <1>2. risk \in Nat /\ risk <= entry /\ risk >= 20
    BY <1>1, Quotients, SizesAssumption, GrainAssumption
  <1>3. p = [symbol |-> symbol, side |-> side, status |-> "OPEN",
             quantity |-> Quantity, entry |-> entry, notional |-> entry * Quantity,
             stop |-> stop, initialStop |-> stop, highest |-> entry, lowest |-> entry,
             entryFee |-> Fee(entry, Quantity), partialTaken |-> FALSE,
             realized |-> 0, partialRealized |-> 0]
    BY DEF NewPosition
  <1>4. Quantity \in Nat /\ Quantity > 0
    BY SizesAssumption
  <1> HIDE DEF entry, risk, p
  <1>5. entry * Quantity \in Nat /\ Fee(entry, Quantity) \in Nat
    BY <1>1, <1>4 DEF Fee
  <1>6. /\ stop \in Nat /\ Gain(side, stop, stop) >= 0
        /\ Gain(side, stop, entry) = risk
    BY <1>1, <1>2 DEF Towards, Gain, Sides
  <1> HIDE DEF stop
  <1>7. p \in Position
    BY <1>1, <1>3, <1>4, <1>5, <1>6 DEF Position, Sides
  <1>9. Contribution(p) = -Fee(entry, Quantity)
    BY <1>3, <1>5 DEF Contribution
  <1>o. StopOut(p) >= FirstStopOut(p)
    <2>1. /\ StopOut(p) = -Fee(entry, Quantity) + ExitDelta(p, Quantity, stop)
          /\ FirstStopOut(p) = ExitDelta(p, Quantity, stop) - Fee(entry, Quantity)
      BY <1>3, <1>9 DEF StopOut, FirstStopOut
    <2>2. ExitDelta(p, Quantity, stop) = Quantity * PerLot(p.side, p.entry, stop)
      BY <1>4, <1>6, <1>7, ExitIsPerLot
    <2>3. PerLot(p.side, p.entry, stop) \in Int
      BY <1>6, <1>7, PositionFields, PerLotIsWhole
    <2>4. ExitDelta(p, Quantity, stop) \in Int
      BY <1>4, <2>2, <2>3
    <2> QED
      BY <1>5, <2>1, <2>4
  <1>8. SoundPosition(p)
    <2>1. /\ p.quantity > 0 /\ p.lowest <= p.entry /\ p.entry <= p.highest
          /\ Gain(p.side, p.initialStop, p.stop) >= 0 /\ ~p.partialTaken
      BY <1>1, <1>3, <1>4, <1>6
    <2>2. Risk(p) \in 20..p.entry /\ Risk(p) = risk /\ p.entry = entry
      BY <1>1, <1>2, <1>3, <1>6 DEF Risk
    <2> QED
      BY <1>7, <1>o, <2>1, <2>2 DEF SoundPosition, risk
  <1> QED
    BY <1>5, <1>8, <1>9 DEF p, entry

\* A better candidate becomes the stop; no other does.
LEMMA ImprovedIsSound ==
  ASSUME NEW p, SoundPosition(p), NEW candidate \in Nat
  PROVE  LET q == Improve(p, candidate)
         IN  /\ SoundPosition(q)
             /\ Tightened(p, q)
             /\ q = [p EXCEPT !.stop = q.stop]
             /\ Better(p.side, candidate, p.entry) => Better(q.side, q.stop, q.entry)
             /\ Contribution(q) = Contribution(p)
  <1> DEFINE q == Improve(p, candidate)
  <1>0. p \in Position
    BY DEF SoundPosition
  <1>f. /\ p.side \in Sides /\ p.entry \in Nat /\ p.stop \in Nat /\ p.initialStop \in Nat
    BY <1>0, PositionFields
  <1>1. CASE Better(p.side, candidate, p.stop)
    <2>1. q = [p EXCEPT !.stop = candidate]
      BY <1>1 DEF Improve
    <2>2. /\ q \in Position /\ q.stop = candidate /\ q.side = p.side /\ q.status = p.status
          /\ q.quantity = p.quantity /\ q.entry = p.entry /\ q.initialStop = p.initialStop
          /\ q.highest = p.highest /\ q.lowest = p.lowest /\ q.entryFee = p.entryFee
          /\ q.partialTaken = p.partialTaken /\ q.realized = p.realized
          /\ q.partialRealized = p.partialRealized
      BY <1>0, <2>1 DEF Position
    <2>3. Gain(p.side, p.initialStop, p.stop) >= 0
          /\ (p.partialTaken => Better(p.side, p.stop, p.entry))
      BY DEF SoundPosition
    <2>4. /\ Gain(q.side, q.initialStop, q.stop) >= 0
          /\ q.partialTaken => Better(q.side, q.stop, q.entry)
      BY <1>1, <1>f, <2>2, <2>3 DEF Gain, Better
    <2>6. Contribution(q) = Contribution(p)
      BY <2>2 DEF Contribution
    <2>o. q.status = "OPEN" => StopOut(q) >= FirstStopOut(q)
      <3>1. /\ StopOut(p) = Contribution(p) + p.quantity * PerLot(p.side, p.entry, p.stop)
            /\ StopOut(q) = Contribution(q) + q.quantity * PerLot(q.side, q.entry, q.stop)
            /\ PerLot(p.side, p.entry, p.stop) \in Int
            /\ PerLot(q.side, q.entry, q.stop) \in Int
            /\ FirstStopOut(p) \in Int /\ Contribution(p) \in Int
        BY <1>0, <2>2, StopOutFigures
      <3>2. FirstStopOut(q) = FirstStopOut(p)
        BY <2>2 DEF FirstStopOut, ExitDelta
      <3>3. ~Better(p.side, p.stop, candidate)
        BY <1>1, <1>f DEF Better
      <3>4. PerLot(p.side, p.entry, p.stop) <= PerLot(q.side, q.entry, q.stop)
        BY <1>f, <2>2, <3>3, PerLotGrows
      <3>5. p.quantity \in Nat
        BY <1>0, PositionFields
      <3>6. p.quantity * PerLot(p.side, p.entry, p.stop)
               <= p.quantity * PerLot(q.side, q.entry, q.stop)
        BY <3>1, <3>4, <3>5, Multiples
      <3>7. /\ p.quantity * PerLot(p.side, p.entry, p.stop) \in Int
            /\ p.quantity * PerLot(q.side, q.entry, q.stop) \in Int
        BY <3>1, <3>5
      <3>8. p.status = "OPEN" => StopOut(p) >= FirstStopOut(p)
        BY DEF SoundPosition
      <3> QED
        BY <2>2, <2>6, <3>1, <3>2, <3>6, <3>7, <3>8
    <2>5. SoundPosition(q)
      BY <2>2, <2>4, <2>o DEF SoundPosition, Risk
    <2>7. Tightened(p, q) /\ q = [p EXCEPT !.stop = q.stop]
      BY <1>1, <2>1, <2>2 DEF Tightened
    <2> HIDE DEF q
    <2> QED
      BY <2>2, <2>5, <2>6, <2>7 DEF q
  <1>2. CASE ~Better(p.side, candidate, p.stop)
    <2>1. q = p
      BY <1>2 DEF Improve
    <2>2. p = [p EXCEPT !.stop = p.stop]
      BY <1>0 DEF Position
    <2>3. Better(p.side, candidate, p.entry) => Better(p.side, p.stop, p.entry)
      BY <1>2, <1>f DEF Better
    <2> QED
      BY <2>1, <2>2, <2>3 DEF Tightened
  <1> QED
    BY <1>1, <1>2

\* What an exit adds to the account, and its share of the entry fee, are whole.
LEMMA ExitFigures ==
  ASSUME NEW p, SoundPosition(p), NEW n \in Nat, n <= p.quantity, NEW price \in Nat
  PROVE  /\ ExitDelta(p, n, price) \in Int
         /\ AllocatedEntryFee(p, n) \in Nat /\ AllocatedEntryFee(p, n) <= p.entryFee
         /\ n = p.quantity => AllocatedEntryFee(p, n) = p.entryFee
         /\ Net(p, n, price) = ExitDelta(p, n, price) - AllocatedEntryFee(p, n)
  <1> DEFINE exit == ExitPrice(p.side, price)
  <1>0. /\ p \in Position /\ p.quantity \in Nat \ {0} /\ p.entryFee \in Nat
        /\ p.entry \in Nat
    BY PositionFields DEF SoundPosition
  <1>1. exit \in Nat
    BY FillPrices
  <1>2. /\ AllocatedEntryFee(p, n) \in Nat /\ AllocatedEntryFee(p, n) <= p.entryFee
        /\ n = p.quantity => AllocatedEntryFee(p, n) = p.entryFee
    BY <1>0, WholeShare, PartShare DEF AllocatedEntryFee
  <1> HIDE DEF exit
  <1>3. Gain(p.side, p.entry, exit) \in Int
    BY <1>0, <1>1 DEF Gain
  <1>4. Gross(p.side, p.entry, exit, n) \in Int
    BY <1>3, SizesAssumption DEF Gross
  <1>5. Fee(exit, n) \in Int
    BY <1>1 DEF Fee
  <1>6. ExitDelta(p, n, price) = Gross(p.side, p.entry, exit, n) - Fee(exit, n)
    BY DEF ExitDelta, exit
  <1>7. Net(p, n, price)
           = Gross(p.side, p.entry, exit, n) - AllocatedEntryFee(p, n) - Fee(exit, n)
    BY DEF Net, NetPnL, exit
  <1> QED
    BY <1>2, <1>4, <1>5, <1>6, <1>7

\* A close adds to the position's contribution what it adds to the account.
LEMMA ClosedIsSound ==
  ASSUME NEW p, SoundPosition(p), p.status = "OPEN", NEW price \in Nat
  PROVE  LET q == Closed(p, price)
         IN  /\ SoundPosition(q) /\ q.status = "CLOSED" /\ q.stop = p.stop
             /\ Contribution(q) = Contribution(p) + ExitDelta(p, p.quantity, price)
             /\ ExitDelta(p, p.quantity, price) \in Int
  <1> DEFINE q == Closed(p, price)
  <1>0. p \in Position /\ p.quantity \in Nat /\ p.entryFee \in Nat /\ p.partialRealized \in Int
    BY PositionFields DEF SoundPosition
  <1>1. /\ ExitDelta(p, p.quantity, price) \in Int
        /\ Net(p, p.quantity, price) = ExitDelta(p, p.quantity, price) - p.entryFee
    BY <1>0, ExitFigures
  <1>2. Net(p, p.quantity, price) \in Int
    BY <1>0, <1>1
  <1>3. /\ q \in Position /\ q.status = "CLOSED" /\ q.realized = Net(p, p.quantity, price)
        /\ q.side = p.side /\ q.quantity = p.quantity /\ q.entry = p.entry
        /\ q.initialStop = p.initialStop /\ q.stop = p.stop /\ q.highest = p.highest
        /\ q.lowest = p.lowest /\ q.partialTaken = p.partialTaken
        /\ q.partialRealized = p.partialRealized
    BY <1>0, <1>2 DEF Closed, Position
  <1> HIDE DEF q
  <1>4. SoundPosition(q)
    BY <1>3 DEF SoundPosition, Risk
  <1>5. Contribution(q) = Contribution(p) + ExitDelta(p, p.quantity, price)
    BY <1>0, <1>1, <1>3 DEF Contribution
  <1> QED
    BY <1>1, <1>3, <1>4, <1>5 DEF q

\* So does a partial close, which leaves lots and moves no stop.
LEMMA PartlyClosedIsSound ==
  ASSUME NEW p, SoundPosition(p), p.status = "OPEN", NEW price \in Nat,
         Better(p.side, price, p.stop)
  PROVE  LET n == PartialQuantity(p)
             q == PartlyClosed(p, n, price)
         IN  /\ SoundPosition(q) /\ q.status = "OPEN" /\ q.stop = p.stop
             /\ q.side = p.side /\ q.entry = p.entry
             /\ q.quantity = p.quantity - (35 * p.quantity) \div 100
             /\ Contribution(q) = Contribution(p) + ExitDelta(p, n, price)
             /\ ExitDelta(p, n, price) \in Int
  <1> DEFINE n == PartialQuantity(p)
             q == PartlyClosed(p, n, price)
  <1>0. /\ p \in Position /\ p.quantity \in Nat \ {0} /\ p.entryFee \in Nat
        /\ p.entry \in Nat /\ p.partialRealized \in Int /\ p.realized \in Int
    BY PositionFields DEF SoundPosition
  <1>1. n \in Nat /\ n < p.quantity /\ n = (35 * p.quantity) \div 100
    BY <1>0, PartialShare DEF PartialQuantity
  <1> HIDE DEF n
  <1>2. /\ ExitDelta(p, n, price) \in Int
        /\ AllocatedEntryFee(p, n) \in Nat /\ AllocatedEntryFee(p, n) <= p.entryFee
        /\ Net(p, n, price) = ExitDelta(p, n, price) - AllocatedEntryFee(p, n)
    BY <1>0, <1>1, ExitFigures
  <1>3. /\ p.quantity - n \in Nat /\ p.quantity - n > 0
        /\ p.quantity * p.entry \in Nat
        /\ p.entryFee - AllocatedEntryFee(p, n) \in Nat
        /\ p.partialRealized + Net(p, n, price) \in Int
        /\ p.realized + Net(p, n, price) \in Int
    BY <1>0, <1>1, <1>2
  <1>4. q = [p EXCEPT !.quantity = p.quantity - n, !.notional = p.quantity * p.entry,
                      !.entryFee = p.entryFee - AllocatedEntryFee(p, n),
                      !.partialRealized = p.partialRealized + Net(p, n, price),
                      !.realized = p.realized + Net(p, n, price)]
    BY <1>0 DEF PartlyClosed, Position
  <1> HIDE DEF q
  <1>5. /\ q \in Position /\ q.status = p.status /\ q.quantity = p.quantity - n
        /\ q.side = p.side /\ q.entry = p.entry /\ q.initialStop = p.initialStop
        /\ q.stop = p.stop /\ q.highest = p.highest /\ q.lowest = p.lowest
        /\ q.partialTaken = p.partialTaken
        /\ q.entryFee = p.entryFee - AllocatedEntryFee(p, n)
        /\ q.partialRealized = p.partialRealized + Net(p, n, price)
    BY <1>0, <1>3, <1>4 DEF Position
  <1>7. Contribution(q) = Contribution(p) + ExitDelta(p, n, price)
    BY <1>0, <1>2, <1>5 DEF Contribution
  <1>o. StopOut(q) >= FirstStopOut(q)
    <2> DEFINE sold == PerLot(p.side, p.entry, price)
               kept == PerLot(p.side, p.entry, p.stop)
    <2>1. /\ StopOut(p) = Contribution(p) + p.quantity * kept
          /\ kept \in Int /\ FirstStopOut(p) \in Int /\ Contribution(p) \in Int
      BY <1>0, StopOutFigures
    <2>2. StopOut(q) = Contribution(q) + (p.quantity - n) * kept
      BY <1>5, StopOutFigures
    <2>3. FirstStopOut(q) = FirstStopOut(p)
      BY <1>5 DEF FirstStopOut, ExitDelta
    <2>4. ExitDelta(p, n, price) = n * sold
      BY <1>0, <1>1, ExitIsPerLot
    <2>5. kept <= sold
      <3>1. ~Better(p.side, p.stop, price)
        BY <1>0, PositionFields DEF Better
      <3> QED
        BY <1>0, <3>1, PositionFields, PerLotGrows
    <2>6. sold \in Int
      BY <1>0, PerLotIsWhole
    <2> HIDE DEF sold, kept
    <2>7. n * kept <= n * sold
      BY <1>1, <2>1, <2>5, <2>6, Multiples
    <2>8. /\ (p.quantity - n) * kept = p.quantity * kept - n * kept
          /\ p.quantity * kept \in Int /\ n * kept \in Int /\ n * sold \in Int
      BY <1>0, <1>1, <2>1, <2>6
    <2>9. StopOut(p) >= FirstStopOut(p)
      BY DEF SoundPosition
    <2> QED
      BY <1>7, <2>1, <2>2, <2>3, <2>4, <2>7, <2>8, <2>9
  <1>6. SoundPosition(q)
    BY <1>3, <1>5, <1>o DEF SoundPosition, Risk
  <1> QED
    BY <1>1, <1>2, <1>5, <1>6, <1>7 DEF n, q

\* The break-even candidate is beyond the entry, and no candidate is negative.
LEMMA Candidates ==
  ASSUME NEW p, SoundPosition(p)
  PROVE  /\ BreakEvenStop(p) \in Nat /\ Better(p.side, BreakEvenStop(p), p.entry)
         /\ TrailingStop(p) \in Nat
         /\ \A price \in Nat :
               ReachesR(p, price, 8) => Better(p.side, price, BreakEvenStop(p))
  <1> DEFINE r == Risk(p)
             five == (5 * r) \div 100
             eight == (8 * r) \div 10
  <1>1. /\ p.side \in Sides /\ p.entry \in Nat /\ p.highest \in Nat /\ p.lowest \in Nat
        /\ p.lowest <= p.entry /\ p.entry <= p.highest
        /\ r \in Nat /\ r >= 20 /\ r <= p.entry
    BY PositionFields DEF SoundPosition
  <1> HIDE DEF r
  <1>2. five \in 1..r /\ eight \in 0..r /\ 100 * five <= 5 * r
    BY <1>1, RiskShares
  <1>3. /\ BreakEvenStop(p) = Towards(p.side, p.entry, five)
        /\ TrailingStop(p) = Towards(p.side, IF p.side = "LONG" THEN p.highest ELSE p.lowest,
                                      -eight)
    BY DEF BreakEvenStop, TrailingStop, r
  <1> HIDE DEF five, eight
  <1>4. /\ BreakEvenStop(p) \in Nat /\ Better(p.side, BreakEvenStop(p), p.entry)
        /\ TrailingStop(p) \in Nat
    BY <1>1, <1>2, <1>3 DEF Towards, Better, Sides
  <1>5. ASSUME NEW price \in Nat, ReachesR(p, price, 8)
        PROVE  Better(p.side, price, BreakEvenStop(p))
    <2>1. 10 * Gain(p.side, p.entry, price) >= 8 * r
      BY <1>5 DEF ReachesR, r
    <2> QED
      BY <1>1, <1>2, <1>3, <2>1 DEF Gain, Towards, Better, Sides
  <1> QED
    BY <1>4, <1>5

----------------------------------------------------------------------------
(***************************************************************************)
(* The inductive invariant.                                                *)
(***************************************************************************)
RowsAreSound == \A i \in DOMAIN positions : SoundPosition(positions[i])

\* An evaluation is of an open position; up to the partial its price is beyond the
\* stop, which was not hit; and once the price has reached the break-even threshold
\* the stop is beyond the entry before the partial.
ManagerKnows ==
    manager # Resting =>
        LET p == positions[manager.id]
        IN  /\ manager.id \in OpenIds
            /\ manager.phase \in {"breakEven", "partial"} => Better(p.side, manager.price, p.stop)
            /\ manager.phase = "partial" /\ ReachesR(p, manager.price, 8)
                  => Better(p.side, p.stop, p.entry)
            /\ manager.phase = "flag" => Better(p.side, p.stop, p.entry)

\* Whose partial was taken: flagged, or about to be.
PartialIsKnown(i) == \/ positions[i].partialTaken
                     \/ manager.phase = "flag" /\ manager.id = i

Rest == Quantity - (35 * Quantity) \div 100

\* While the process lives, lots are missing only where it knows.
PartialsAreKnown ==
    crashes = 0 =>
        \A i \in OpenIds : \/ positions[i].quantity = Quantity
                           \/ positions[i].quantity = Rest /\ PartialIsKnown(i)

LedgerInv == /\ TypeOK
             /\ RowsAreSound
             /\ ManagerKnows
             /\ PartialsAreKnown
             /\ MoneyIsConserved

\* A position in the middle of an evaluation.
LEMMA Evaluated ==
  ASSUME LedgerInv, NEW phase \in {"stop", "breakEven", "partial", "flag", "trail"},
         Evaluating(phase)
  PROVE  /\ manager \in Evaluation /\ manager # Resting /\ manager.phase = phase
         /\ manager.id \in OpenIds /\ manager.id \in DOMAIN positions
         /\ manager.price \in Nat
         /\ SoundPosition(positions[manager.id])
         /\ positions[manager.id].status = "OPEN"
  <1>1. manager # Resting
    BY DEF Evaluating, Resting
  <1>2. manager \in Evaluation /\ manager.id \in OpenIds
    BY <1>1 DEF LedgerInv, TypeOK, ManagerKnows
  <1> QED
    BY <1>1, <1>2 DEF LedgerInv, RowsAreSound, Evaluating, Evaluation, OpenIds

\* One row is changed, and no closed one is opened.
LEMMA RowChanges ==
  ASSUME LedgerInv, NEW i \in DOMAIN positions, NEW q, SoundPosition(q),
         q.status = "OPEN" => positions[i].status = "OPEN",
         positions' = [positions EXCEPT ![i] = q]
  PROVE  /\ positions' \in Seq(Position) /\ DOMAIN positions' = DOMAIN positions
         /\ positions'[i] = q /\ \A j \in DOMAIN positions \ {i} : positions'[j] = positions[j]
         /\ RowsAreSound'
         /\ OpenIds' = IF q.status = "OPEN" THEN OpenIds ELSE OpenIds \ {i}
         /\ Total(positions') = Total(positions)
                                   + (Contribution(q) - Contribution(positions[i]))
  <1>0. q \in Position /\ positions \in Seq(Position)
    BY DEF SoundPosition, LedgerInv, TypeOK
  <1>1. /\ positions' \in Seq(Position) /\ DOMAIN positions' = DOMAIN positions
        /\ positions'[i] = q /\ \A j \in DOMAIN positions \ {i} : positions'[j] = positions[j]
    BY <1>0
  <1>2. RowsAreSound'
    BY <1>1 DEF LedgerInv, RowsAreSound
  <1>3. OpenIds' = IF q.status = "OPEN" THEN OpenIds ELSE OpenIds \ {i}
    <2>1. OpenIds' = {j \in DOMAIN positions : positions'[j].status = "OPEN"}
      BY <1>1 DEF OpenIds
    <2>2. \A j \in DOMAIN positions :
             positions'[j].status = "OPEN"
                <=> IF j = i THEN q.status = "OPEN" ELSE positions[j].status = "OPEN"
      BY <1>1
    <2> QED
      BY <2>1, <2>2 DEF OpenIds
  <1>5. Total(positions') = Total(positions)
                              + (Contribution(q) - Contribution(positions[i]))
    BY <1>0, TotalUpdates
  <1> QED
    BY <1>1, <1>2, <1>3, <1>5

LEMMA LargerOfTwo ==
  ASSUME NEW a \in Int, NEW b \in Int
  PROVE  Max({a, b}) = IF a >= b THEN a ELSE b
  <1>1. (IF a >= b THEN a ELSE b) \in {a, b}
        /\ \A y \in {a, b} : (IF a >= b THEN a ELSE b) >= y
    OBVIOUS
  <1> QED
    BY <1>1 DEF Max

\* What an exit credits, the total gains.
LEMMA CreditConserves ==
  ASSUME LedgerInv, NEW d \in Int, account' = Credit(account, d),
         Total(positions') = Total(positions) + d
  PROVE  MoneyIsConserved' /\ account' \in Account
  <1>1. /\ account \in Account
        /\ account.realized = Total(positions)
        /\ account.equity = InitialEquity + account.realized
        /\ account.peak >= Max({InitialEquity, account.equity})
    BY DEF LedgerInv, TypeOK, MoneyIsConserved
  <1>2. /\ account.equity \in Int /\ account.realized \in Int /\ account.peak \in Int
        /\ InitialEquity \in Int
    BY <1>1, SizesAssumption DEF Account
  <1>3. /\ account'.equity = account.equity + d /\ account'.realized = account.realized + d
        /\ account'.peak = IF account.equity + d > account.peak THEN account.equity + d
                                                              ELSE account.peak
        /\ account' \in Account
    BY <1>2 DEF Credit, Account
  <1>4. account.peak >= InitialEquity /\ account.peak >= account.equity
    BY <1>1, <1>2, LargerOfTwo
  <1>5. Max({InitialEquity, account'.equity})
           = IF InitialEquity >= account'.equity THEN InitialEquity ELSE account'.equity
    BY <1>2, <1>3, LargerOfTwo
  <1> QED
    BY <1>1, <1>2, <1>3, <1>4, <1>5 DEF MoneyIsConserved

\* A change that contributes nothing leaves the account right.
LEMMA StillConserved ==
  ASSUME LedgerInv, account' = account, Total(positions') = Total(positions)
  PROVE  MoneyIsConserved' /\ account' \in Account
  BY DEF LedgerInv, TypeOK, MoneyIsConserved

LEMMA TotalIsWhole ==
  ASSUME LedgerInv
  PROVE  Total(positions) \in Int
  BY DEF LedgerInv, MoneyIsConserved, TypeOK, Account

----------------------------------------------------------------------------
(***************************************************************************)
(* The steps.                                                              *)
(***************************************************************************)
LEMMA LedgerInitially == Init => LedgerInv
  <1> SUFFICES ASSUME Init
               PROVE  LedgerInv
    OBVIOUS
  <1>1. /\ account = [equity |-> InitialEquity, peak |-> InitialEquity, realized |-> 0]
        /\ positions = <<>> /\ manager = Resting /\ crashes = 0
    BY DEF Init
  <1>2. InitialEquity \in Nat
    BY SizesAssumption
  <1>3. TypeOK
    BY <1>1, <1>2 DEF TypeOK, Account
  <1>4. DOMAIN positions = {} /\ OpenIds = {}
    BY <1>1 DEF OpenIds
  <1>5. Total(positions) = 0
    <2>1. SumsOf([T \in SUBSET {} |-> 0], Contributions(positions), DOMAIN positions)
      BY <1>4 DEF SumsOf
    <2>2. IsFiniteSet(DOMAIN positions)
          /\ Contributions(positions) \in [DOMAIN positions -> Int]
      BY <1>3, RowsOfPositions DEF TypeOK
    <2>3. Total(positions) = [T \in SUBSET {} |-> 0][DOMAIN positions]
      BY <2>1, <2>2, TotalIsSum
    <2> QED
      BY <2>3, <1>4
  <1>6. MoneyIsConserved
    <2>1. Max({InitialEquity, InitialEquity}) = InitialEquity
      BY <1>2, LargerOfTwo
    <2> QED
      BY <1>1, <1>2, <1>5, <2>1 DEF MoneyIsConserved
  <1>8. RowsAreSound /\ ManagerKnows /\ PartialsAreKnown
    BY <1>1, <1>4 DEF RowsAreSound, ManagerKnows, PartialsAreKnown
  <1> QED
    BY <1>3, <1>6, <1>8 DEF LedgerInv

LEMMA OpenStep ==
  ASSUME LedgerInv, NEW symbol \in Symbols, NEW side \in Sides, NEW price \in Prices,
         Open(symbol, side, price)
  PROVE  LedgerInv' /\ \A i \in OpenIds : Tightened(positions[i], positions'[i])
  <1> DEFINE p == NewPosition(symbol, side, price)
             n == Len(positions) + 1
             fee == Fee(EntryPrice(side, price), Quantity)
  <1>1. /\ positions' = Append(positions, p) /\ account' = Debit(account, fee)
        /\ manager = Resting /\ manager' = manager /\ crashes' = crashes
    BY DEF Open
  <1>2. SoundPosition(p) /\ p \in Position /\ Contribution(p) = -fee /\ fee \in Nat
    BY NewPositionIsSound DEF SoundPosition
  <1>3. p.status = "OPEN" /\ p.quantity = Quantity
    BY DEF NewPosition
  <1>4. positions \in Seq(Position) /\ Len(positions) \in Nat
    BY DEF LedgerInv, TypeOK
  <1> HIDE DEF p, fee
  <1>5. /\ positions' \in Seq(Position) /\ DOMAIN positions' = DOMAIN positions \cup {n}
        /\ n \notin DOMAIN positions /\ positions'[n] = p
        /\ \A i \in DOMAIN positions : positions'[i] = positions[i]
    BY <1>1, <1>2, <1>4
  <1>6. RowsAreSound'
    BY <1>2, <1>5 DEF LedgerInv, RowsAreSound
  <1>7. OpenIds' = OpenIds \cup {n} /\ n \notin OpenIds
    BY <1>3, <1>5 DEF OpenIds
  <1>9. MoneyIsConserved' /\ account' \in Account
    <2>1. /\ account \in Account
          /\ account.realized = Total(positions)
          /\ account.equity = InitialEquity + account.realized
          /\ account.peak >= Max({InitialEquity, account.equity})
      BY DEF LedgerInv, TypeOK, MoneyIsConserved
    <2>2. /\ account.equity \in Int /\ account.realized \in Int /\ account.peak \in Int
          /\ InitialEquity \in Int
      BY <2>1, SizesAssumption DEF Account
    <2>3. /\ account'.equity = account.equity - fee
          /\ account'.realized = account.realized - fee
          /\ account'.peak = account.peak /\ account' \in Account
      BY <1>1, <1>2, <2>2 DEF Debit, Account
    <2>4. Total(positions') = Total(positions) - fee
      BY <1>1, <1>2, <1>4, TotalAppends
    <2>5. account.peak >= InitialEquity /\ account.peak >= account.equity
      BY <2>1, <2>2, LargerOfTwo
    <2>6. Max({InitialEquity, account'.equity})
             = IF InitialEquity >= account'.equity THEN InitialEquity ELSE account'.equity
      BY <1>2, <2>2, <2>3, LargerOfTwo
    <2> QED
      BY <1>2, <2>1, <2>2, <2>3, <2>4, <2>5, <2>6 DEF MoneyIsConserved
  <1>10. TypeOK'
    BY <1>1, <1>5, <1>9 DEF LedgerInv, TypeOK
  <1>11. ManagerKnows'
    BY <1>1 DEF ManagerKnows
  <1>12. PartialsAreKnown'
    <2> SUFFICES ASSUME crashes = 0, NEW i \in OpenIds'
                 PROVE  \/ positions'[i].quantity = Quantity
                        \/ positions'[i].quantity = Rest /\ PartialIsKnown(i)'
      BY <1>1 DEF PartialsAreKnown
    <2>1. CASE i = n
      BY <1>3, <1>5, <2>1
    <2>2. CASE i \in OpenIds
      <3>1. positions'[i] = positions[i]
        BY <1>5, <2>2 DEF OpenIds
      <3> QED
        BY <1>1, <2>2, <3>1 DEF LedgerInv, PartialsAreKnown, PartialIsKnown
    <2> QED
      BY <1>7, <2>1, <2>2
  <1>13. \A i \in OpenIds : Tightened(positions[i], positions'[i])
    BY <1>5 DEF Tightened, OpenIds
  <1> QED
    BY <1>6, <1>9, <1>10, <1>11, <1>12, <1>13 DEF LedgerInv

\* A close by the stop or by hand, after which no evaluation is under way.
LEMMA CloseStep ==
  ASSUME LedgerInv, NEW i \in OpenIds, NEW price \in Nat, CloseAt(i, price),
         manager' = Resting, crashes' = crashes,
         manager # Resting => manager.id = i
  PROVE  LedgerInv' /\ \A j \in OpenIds : Tightened(positions[j], positions'[j])
  <1> DEFINE p == positions[i]
             q == Closed(p, price)
             d == ExitDelta(p, p.quantity, price)
  <1>0. /\ i \in DOMAIN positions /\ SoundPosition(p) /\ p.status = "OPEN"
        /\ TypeOK /\ positions \in Seq(Position)
    BY DEF OpenIds, LedgerInv, RowsAreSound, TypeOK
  <1>1. /\ SoundPosition(q) /\ q.status = "CLOSED" /\ q.stop = p.stop
        /\ Contribution(q) = Contribution(p) + d /\ d \in Int
    BY <1>0, ClosedIsSound
  <1>2. positions' = [positions EXCEPT ![i] = q] /\ account' = Credit(account, d)
    BY <1>0 DEF CloseAt
  <1>3. Contribution(p) \in Int
    BY <1>0, PositionFields DEF SoundPosition, Contribution
  <1> HIDE DEF q, d
  <1>4. /\ positions' \in Seq(Position) /\ DOMAIN positions' = DOMAIN positions
        /\ positions'[i] = q /\ \A j \in DOMAIN positions \ {i} : positions'[j] = positions[j]
        /\ RowsAreSound'
        /\ OpenIds' = OpenIds \ {i}
        /\ Total(positions') = Total(positions) + (Contribution(q) - Contribution(p))
    BY <1>0, <1>1, <1>2, RowChanges
  <1>5. Total(positions') = Total(positions) + d
    BY <1>1, <1>3, <1>4
  <1>6. MoneyIsConserved' /\ account' \in Account
    BY <1>1, <1>2, <1>5, CreditConserves
  <1>7. TypeOK' /\ ManagerKnows'
    BY <1>0, <1>4, <1>6 DEF TypeOK, ManagerKnows
  <1>8. PartialsAreKnown'
    <2> SUFFICES ASSUME crashes = 0, NEW j \in OpenIds \ {i}
                 PROVE  \/ positions'[j].quantity = Quantity
                        \/ positions'[j].quantity = Rest /\ PartialIsKnown(j)'
      BY <1>4 DEF PartialsAreKnown
    <2>1. positions'[j] = positions[j]
      BY <1>4 DEF OpenIds
    <2>2. manager.phase = "flag" => manager.id = i
      BY DEF Resting
    <2> QED
      BY <2>1, <2>2 DEF LedgerInv, PartialsAreKnown, PartialIsKnown
  <1>9. \A j \in OpenIds : Tightened(positions[j], positions'[j])
    BY <1>1, <1>4 DEF Tightened, OpenIds
  <1> QED
    BY <1>4, <1>6, <1>7, <1>8, <1>9 DEF LedgerInv

\* A step of the manager that changes an open row, but neither what the account
\* knows of it nor its lots.
LEMMA QuietRowStep ==
  ASSUME LedgerInv, NEW i \in OpenIds, NEW q, SoundPosition(q), q.status = "OPEN",
         positions' = [positions EXCEPT ![i] = q],
         account' = account, crashes' = crashes,
         Contribution(q) = Contribution(positions[i]),
         q.quantity = positions[i].quantity,
         Tightened(positions[i], q),
         manager' \in {Resting} \cup Evaluation,
         q.partialTaken \/ ~PartialIsKnown(i),
         \A j \in OpenIds \ {i} : ~(manager.phase = "flag" /\ manager.id = j)
  PROVE  /\ TypeOK' /\ RowsAreSound' /\ PartialsAreKnown'
         /\ MoneyIsConserved' /\ OpenIds' = OpenIds /\ positions'[i] = q
         /\ \A j \in OpenIds : Tightened(positions[j], positions'[j])
  <1>0. /\ i \in DOMAIN positions /\ SoundPosition(positions[i])
        /\ positions[i].status = "OPEN" /\ TypeOK
    BY DEF OpenIds, LedgerInv, RowsAreSound
  <1>1. /\ positions' \in Seq(Position) /\ DOMAIN positions' = DOMAIN positions
        /\ positions'[i] = q /\ \A j \in DOMAIN positions \ {i} : positions'[j] = positions[j]
        /\ RowsAreSound'
        /\ OpenIds' = OpenIds
        /\ Total(positions') = Total(positions) + (Contribution(q) - Contribution(positions[i]))
    BY <1>0, RowChanges
  <1>2. Contribution(positions[i]) \in Int
    BY <1>0, PositionFields DEF SoundPosition, Contribution
  <1>3. Total(positions') = Total(positions)
    BY <1>1, <1>2, TotalIsWhole
  <1>4. MoneyIsConserved' /\ account' \in Account
    BY <1>3, StillConserved
  <1>5. TypeOK'
    BY <1>0, <1>1, <1>4 DEF TypeOK
  <1>6. PartialsAreKnown'
    <2> SUFFICES ASSUME crashes = 0, NEW j \in OpenIds
                 PROVE  \/ positions'[j].quantity = Quantity
                        \/ positions'[j].quantity = Rest /\ PartialIsKnown(j)'
      BY <1>1 DEF PartialsAreKnown
    <2>1. \/ positions[j].quantity = Quantity
          \/ positions[j].quantity = Rest /\ PartialIsKnown(j)
      BY DEF LedgerInv, PartialsAreKnown
    <2>2. CASE j = i
      BY <1>1, <2>1, <2>2 DEF PartialIsKnown
    <2>3. CASE j # i
      <3>1. positions'[j] = positions[j]
        BY <1>1, <2>3 DEF OpenIds
      <3> QED
        BY <2>1, <2>3, <3>1 DEF PartialIsKnown
    <2> QED
      BY <2>2, <2>3
  <1>7. \A j \in OpenIds : Tightened(positions[j], positions'[j])
    BY <1>1 DEF Tightened, OpenIds
  <1> QED
    BY <1>1, <1>4, <1>5, <1>6, <1>7

\* The manager goes on without writing.
LEMMA ManagerMovesOn ==
  ASSUME LedgerInv, UNCHANGED <<positions, account, crashes>>,
         manager' \in {Resting} \cup Evaluation, ManagerKnows',
         manager.phase # "flag"
  PROVE  LedgerInv' /\ \A j \in OpenIds : Tightened(positions[j], positions'[j])
  <1>1. OpenIds' = OpenIds
    BY DEF OpenIds
  <1>2. TypeOK' /\ RowsAreSound'
    BY <1>1 DEF LedgerInv, TypeOK, RowsAreSound
  <1>3. MoneyIsConserved'
    BY StillConserved
  <1>4. PartialsAreKnown'
    BY <1>1 DEF LedgerInv, PartialsAreKnown, PartialIsKnown
  <1> QED
    BY <1>2, <1>3, <1>4 DEF LedgerInv, Tightened

\* ProceedTo
LEMMA NextPhase ==
  ASSUME manager \in Evaluation, NEW phase \in {"breakEven", "partial", "flag", "trail"},
         ProceedTo(phase)
  PROVE  /\ manager' \in Evaluation /\ manager' # Resting
         /\ manager'.phase = phase /\ manager'.id = manager.id
         /\ manager'.price = manager.price
  <1>1. manager' \in Evaluation /\ manager'.phase = phase /\ manager'.id = manager.id
        /\ manager'.price = manager.price
    BY DEF ProceedTo, Evaluation
  <1> QED
    BY <1>1 DEF Resting

LEMMA ManualStep ==
  ASSUME LedgerInv, NEW i \in DOMAIN positions, NEW price \in Prices,
         CloseManually(i, price)
  PROVE  LedgerInv' /\ \A j \in OpenIds : Tightened(positions[j], positions'[j])
  <1>1. /\ i \in OpenIds /\ price \in Nat /\ CloseAt(i, price)
        /\ manager = Resting /\ manager' = Resting /\ crashes' = crashes
    BY PricesAssumption DEF CloseManually
  <1> QED
    BY <1>1, CloseStep

LEMMA StartStep ==
  ASSUME LedgerInv, NEW i \in DOMAIN positions, NEW price \in Prices,
         StartEvaluation(i, price)
  PROVE  LedgerInv' /\ \A j \in OpenIds : Tightened(positions[j], positions'[j])
  <1> DEFINE p == positions[i]
             q == [p EXCEPT !.highest = IF price > p.highest THEN price ELSE p.highest,
                            !.lowest = IF price < p.lowest THEN price ELSE p.lowest]
  <1>0. /\ i \in OpenIds /\ p.status = "OPEN" /\ SoundPosition(p) /\ p \in Position
        /\ price \in Nat /\ manager = Resting /\ positions \in Seq(Position)
    BY PricesAssumption
       DEF StartEvaluation, OpenIds, LedgerInv, RowsAreSound, SoundPosition, TypeOK
  <1>1. /\ positions' = [positions EXCEPT ![i] = q]
        /\ manager' = [phase |-> "stop", id |-> i, price |-> price]
        /\ account' = account /\ crashes' = crashes
    <2>1. positions' = [positions EXCEPT ![i].highest = IF price > @ THEN price ELSE @,
                                         ![i].lowest  = IF price < @ THEN price ELSE @]
      BY DEF StartEvaluation
    <2>2. positions' = [positions EXCEPT ![i] = q]
      BY <1>0, <2>1 DEF Position
    <2> QED
      BY <2>2 DEF StartEvaluation
  <1>2. /\ p.highest \in Nat /\ p.lowest \in Nat /\ p.entry \in Nat
    BY <1>0, PositionFields
  <1>3. /\ q \in Position
        /\ q.highest = IF price > p.highest THEN price ELSE p.highest
        /\ q.lowest = IF price < p.lowest THEN price ELSE p.lowest
        /\ q.status = p.status /\ q.side = p.side /\ q.quantity = p.quantity
        /\ q.entry = p.entry /\ q.initialStop = p.initialStop /\ q.stop = p.stop
        /\ q.entryFee = p.entryFee /\ q.partialTaken = p.partialTaken
        /\ q.realized = p.realized /\ q.partialRealized = p.partialRealized
    BY <1>0, <1>2 DEF Position
  <1> HIDE DEF q
  <1>4. SoundPosition(q)
    <2>1. Contribution(q) = Contribution(p)
      BY <1>3 DEF Contribution
    <2>2. StopOut(q) = StopOut(p) /\ FirstStopOut(q) = FirstStopOut(p)
      BY <1>3, <2>1, SameStopOut
    <2> QED
      BY <1>0, <1>2, <1>3, <2>2 DEF SoundPosition, Risk
  <1>5. /\ Contribution(q) = Contribution(p) /\ Tightened(p, q)
        /\ q.partialTaken \/ ~PartialIsKnown(i)
        /\ \A j \in OpenIds \ {i} : ~(manager.phase = "flag" /\ manager.id = j)
    BY <1>0, <1>3 DEF Contribution, Tightened, PartialIsKnown, Resting
  <1>6. manager' \in Evaluation /\ manager' # Resting /\ manager'.id = i
        /\ manager'.phase = "stop"
    BY <1>0, <1>1 DEF Evaluation, Resting
  <1>7. /\ TypeOK' /\ RowsAreSound' /\ PartialsAreKnown' /\ MoneyIsConserved'
        /\ OpenIds' = OpenIds
        /\ \A j \in OpenIds : Tightened(positions[j], positions'[j])
    BY <1>0, <1>1, <1>3, <1>4, <1>5, <1>6, QuietRowStep
  <1>8. ManagerKnows'
    BY <1>0, <1>6, <1>7 DEF ManagerKnows
  <1> QED
    BY <1>7, <1>8 DEF LedgerInv

LEMMA StopStep ==
  ASSUME LedgerInv, ProtectiveStop
  PROVE  LedgerInv' /\ \A j \in OpenIds : Tightened(positions[j], positions'[j])
  <1> DEFINE i == manager.id
             p == positions[i]
  <1>1. /\ manager \in Evaluation /\ manager # Resting /\ manager.phase = "stop"
        /\ i \in OpenIds /\ SoundPosition(p) /\ p.status = "OPEN"
    BY Evaluated DEF ProtectiveStop
  <1>2. CASE StopHit(p, manager.price)
    <2>1. CloseAt(i, p.stop) /\ manager' = Resting /\ crashes' = crashes
      BY <1>2 DEF ProtectiveStop
    <2>2. p.stop \in Nat
      BY <1>1, PositionFields DEF SoundPosition
    <2> QED
      BY <1>1, <2>1, <2>2, CloseStep
  <1>3. CASE ~StopHit(p, manager.price)
    <2>1. ProceedTo("breakEven") /\ UNCHANGED <<positions, account, crashes>>
      BY <1>3 DEF ProtectiveStop
    <2>2. /\ manager' \in Evaluation /\ manager' # Resting
          /\ manager'.phase = "breakEven" /\ manager'.id = i
          /\ manager'.price = manager.price
      BY <1>1, <2>1, NextPhase
    <2>3. ManagerKnows'
      BY <1>1, <1>3, <2>1, <2>2 DEF StopHit, ManagerKnows, OpenIds
    <2> QED
      BY <1>1, <2>1, <2>2, <2>3, ManagerMovesOn
  <1> QED
    BY <1>2, <1>3

LEMMA BreakEvenStep ==
  ASSUME LedgerInv, BreakEven
  PROVE  LedgerInv' /\ \A j \in OpenIds : Tightened(positions[j], positions'[j])
  <1> DEFINE i == manager.id
             p == positions[i]
             q == Improve(p, BreakEvenStop(p))
  <1>1. /\ manager \in Evaluation /\ manager # Resting /\ manager.phase = "breakEven"
        /\ i \in OpenIds /\ i \in DOMAIN positions /\ SoundPosition(p) /\ p.status = "OPEN"
    BY Evaluated DEF BreakEven
  <1>2. /\ ProceedTo("partial") /\ account' = account /\ crashes' = crashes
    BY DEF BreakEven
  <1>3. /\ manager' \in Evaluation /\ manager' # Resting
        /\ manager'.phase = "partial" /\ manager'.id = i /\ manager'.price = manager.price
    BY <1>1, <1>2, NextPhase
  <1>4. CASE ReachesR(p, manager.price, 8)
    <2>1. positions' = [positions EXCEPT ![i] = q]
      BY <1>1, <1>4 DEF BreakEven
    <2>2. /\ SoundPosition(q) /\ Tightened(p, q) /\ q = [p EXCEPT !.stop = q.stop]
          /\ Better(q.side, q.stop, q.entry) /\ Contribution(q) = Contribution(p)
      BY <1>1, Candidates, ImprovedIsSound
    <2>s. q.stop \in {p.stop, BreakEvenStop(p)}
      BY <1>1 DEF Improve, SoundPosition, Position
    <2> HIDE DEF q
    <2>3. /\ q.status = "OPEN" /\ q.quantity = p.quantity /\ q.partialTaken = p.partialTaken
          /\ q.entry = p.entry /\ q.side = p.side /\ q.initialStop = p.initialStop
      BY <1>1, <2>2 DEF SoundPosition, Position
    <2>4. q.partialTaken \/ ~PartialIsKnown(i)
      BY <1>1, <2>3 DEF PartialIsKnown
    <2>5. /\ TypeOK' /\ RowsAreSound' /\ PartialsAreKnown'
          /\ MoneyIsConserved' /\ OpenIds' = OpenIds /\ positions'[i] = q
          /\ \A j \in OpenIds : Tightened(positions[j], positions'[j])
      BY <1>1, <1>2, <1>3, <2>1, <2>2, <2>3, <2>4, QuietRowStep
    <2>b. Better(q.side, manager.price, q.stop)
      <3>1. Better(p.side, manager.price, p.stop)
        BY <1>1 DEF LedgerInv, ManagerKnows
      <3>2. Better(p.side, manager.price, BreakEvenStop(p))
        <4>1. manager.price \in Nat
          BY <1>1 DEF Evaluation
        <4> QED
          BY <1>1, <1>4, <4>1, Candidates
      <3>3. q.stop \in {p.stop, BreakEvenStop(p)}
        BY <2>s
      <3> QED
        BY <2>3, <3>1, <3>2, <3>3
    <2>6. ManagerKnows'
      BY <1>1, <1>3, <2>2, <2>5, <2>b DEF ManagerKnows
    <2> QED
      BY <2>5, <2>6 DEF LedgerInv
  <1>5. CASE ~ReachesR(p, manager.price, 8)
    <2>1. positions' = positions
      BY <1>5 DEF BreakEven
    <2>2. ManagerKnows'
      <3>1. Better(p.side, manager.price, p.stop)
        BY <1>1 DEF LedgerInv, ManagerKnows
      <3> QED
        BY <1>1, <1>3, <1>5, <2>1, <3>1 DEF ManagerKnows, OpenIds
    <2> QED
      BY <1>1, <1>2, <1>3, <2>1, <2>2, ManagerMovesOn
  <1> QED
    BY <1>4, <1>5

\* Whoever has gained one and a half times the risk has gained eight tenths.
LEMMA PartialIsPastBreakEven ==
  ASSUME NEW p, SoundPosition(p), NEW price \in Nat, ReachesR(p, price, 15)
  PROVE  ReachesR(p, price, 8)
  <1>1. p.entry \in Nat /\ Risk(p) \in Nat
    BY PositionFields DEF SoundPosition
  <1>2. Gain(p.side, p.entry, price) \in Int
    BY <1>1 DEF Gain
  <1> QED
    BY <1>1, <1>2 DEF ReachesR

LEMMA PartialStep ==
  ASSUME LedgerInv, TakePartial
  PROVE  LedgerInv' /\ \A j \in OpenIds : Tightened(positions[j], positions'[j])
  <1> DEFINE i == manager.id
             p == positions[i]
             n == PartialQuantity(p)
             q == PartlyClosed(p, n, manager.price)
             d == ExitDelta(p, n, manager.price)
  <1>1. /\ manager \in Evaluation /\ manager # Resting /\ manager.phase = "partial"
        /\ i \in OpenIds /\ i \in DOMAIN positions /\ SoundPosition(p) /\ p.status = "OPEN"
        /\ manager.price \in Nat /\ crashes' = crashes
    BY Evaluated DEF TakePartial
  <1>2. CASE PartialDue(p, manager.price)
    <2>1. /\ positions' = [positions EXCEPT ![i] = q]
          /\ account' = Credit(account, d) /\ ProceedTo("flag")
      BY <1>1, <1>2 DEF TakePartial
    <2>2. /\ manager' \in Evaluation /\ manager' # Resting
          /\ manager'.phase = "flag" /\ manager'.id = i
      BY <1>1, <2>1, NextPhase
    <2>b. Better(p.side, manager.price, p.stop)
      BY <1>1 DEF LedgerInv, ManagerKnows
    <2>3. /\ SoundPosition(q) /\ q.status = "OPEN" /\ q.stop = p.stop /\ q.side = p.side
          /\ q.entry = p.entry
          /\ q.quantity = p.quantity - (35 * p.quantity) \div 100
          /\ Contribution(q) = Contribution(p) + d /\ d \in Int
      BY <1>1, <2>b, PartlyClosedIsSound
    <2>4. Better(p.side, p.stop, p.entry)
      BY <1>1, <1>2, PartialIsPastBreakEven DEF PartialDue, LedgerInv, ManagerKnows
    <2>5. Contribution(p) \in Int
      BY <1>1, PositionFields DEF SoundPosition, Contribution
    <2> HIDE DEF q, d, n
    <2>6. /\ positions' \in Seq(Position) /\ DOMAIN positions' = DOMAIN positions
          /\ positions'[i] = q /\ \A j \in DOMAIN positions \ {i} : positions'[j] = positions[j]
          /\ RowsAreSound' /\ OpenIds' = OpenIds
          /\ Total(positions') = Total(positions) + (Contribution(q) - Contribution(p))
      BY <1>1, <2>1, <2>3, RowChanges
    <2>7. MoneyIsConserved' /\ account' \in Account
      <3>1. Total(positions') = Total(positions) + d
        BY <2>3, <2>5, <2>6
      <3> QED
        BY <2>1, <2>3, <3>1, CreditConserves
    <2>8. TypeOK'
      BY <1>1, <2>2, <2>6, <2>7 DEF LedgerInv, TypeOK
    <2>9. ManagerKnows'
      BY <1>1, <2>2, <2>3, <2>4, <2>6 DEF ManagerKnows
    <2>10. PartialsAreKnown'
      <3> SUFFICES ASSUME crashes = 0, NEW j \in OpenIds
                   PROVE  \/ positions'[j].quantity = Quantity
                          \/ positions'[j].quantity = Rest /\ PartialIsKnown(j)'
        BY <1>1, <2>6 DEF PartialsAreKnown
      <3>1. \/ positions[j].quantity = Quantity
            \/ positions[j].quantity = Rest /\ positions[j].partialTaken
        BY <1>1 DEF LedgerInv, PartialsAreKnown, PartialIsKnown
      <3>2. CASE j = i
        <4>1. p.quantity = Quantity
          BY <1>2, <3>1, <3>2 DEF PartialDue
        <4>2. positions'[j].quantity = Rest /\ PartialIsKnown(j)'
          BY <2>2, <2>3, <2>6, <3>2, <4>1 DEF Rest, PartialIsKnown
        <4> QED
          BY <4>2
      <3>3. CASE j # i
        <4>1. positions'[j] = positions[j]
          BY <2>6, <3>3 DEF OpenIds
        <4> QED
          BY <3>1, <4>1 DEF PartialIsKnown
      <3> QED
        BY <3>2, <3>3
    <2>11. \A j \in OpenIds : Tightened(positions[j], positions'[j])
      BY <2>3, <2>6 DEF Tightened, OpenIds
    <2> QED
      BY <2>6, <2>7, <2>8, <2>9, <2>10, <2>11 DEF LedgerInv
  <1>3. CASE ~PartialDue(p, manager.price)
    <2>1. ProceedTo("trail") /\ UNCHANGED <<positions, account, crashes>>
      BY <1>1, <1>3 DEF TakePartial
    <2>2. /\ manager' \in Evaluation /\ manager' # Resting
          /\ manager'.phase = "trail" /\ manager'.id = i
      BY <1>1, <2>1, NextPhase
    <2>3. ManagerKnows'
      BY <1>1, <2>1, <2>2 DEF ManagerKnows, OpenIds
    <2> QED
      BY <1>1, <2>1, <2>2, <2>3, ManagerMovesOn
  <1> QED
    BY <1>2, <1>3

LEMMA FlagStep ==
  ASSUME LedgerInv, FlagPartial
  PROVE  LedgerInv' /\ \A j \in OpenIds : Tightened(positions[j], positions'[j])
  <1> DEFINE i == manager.id
             p == positions[i]
             q == [p EXCEPT !.partialTaken = TRUE]
  <1>1. /\ manager \in Evaluation /\ manager # Resting /\ manager.phase = "flag"
        /\ i \in OpenIds /\ i \in DOMAIN positions /\ SoundPosition(p) /\ p.status = "OPEN"
    BY Evaluated DEF FlagPartial
  <1>2. /\ positions' = [positions EXCEPT ![i] = q]
        /\ ProceedTo("trail") /\ account' = account /\ crashes' = crashes
    BY DEF FlagPartial
  <1>3. /\ manager' \in Evaluation /\ manager' # Resting
        /\ manager'.phase = "trail" /\ manager'.id = i
    BY <1>1, <1>2, NextPhase
  <1>4. Better(p.side, p.stop, p.entry)
    BY <1>1 DEF LedgerInv, ManagerKnows
  <1>5. /\ q \in Position /\ q.partialTaken /\ q.highest = p.highest /\ q.lowest = p.lowest
        /\ q.status = p.status /\ q.side = p.side /\ q.quantity = p.quantity
        /\ q.entry = p.entry /\ q.initialStop = p.initialStop /\ q.stop = p.stop
        /\ q.entryFee = p.entryFee /\ q.realized = p.realized
        /\ q.partialRealized = p.partialRealized
    BY <1>1 DEF SoundPosition, Position
  <1> HIDE DEF q
  <1>6. /\ SoundPosition(q) /\ Contribution(q) = Contribution(p) /\ Tightened(p, q)
    <2>1. Contribution(q) = Contribution(p)
      BY <1>5 DEF Contribution
    <2>2. StopOut(q) = StopOut(p) /\ FirstStopOut(q) = FirstStopOut(p)
      BY <1>5, <2>1, SameStopOut
    <2> QED
      BY <1>1, <1>4, <1>5, <2>1, <2>2 DEF SoundPosition, Risk, Tightened
  <1>7. /\ TypeOK' /\ RowsAreSound' /\ PartialsAreKnown' /\ MoneyIsConserved'
        /\ OpenIds' = OpenIds /\ positions'[i] = q
        /\ \A j \in OpenIds : Tightened(positions[j], positions'[j])
    BY <1>1, <1>2, <1>3, <1>5, <1>6, QuietRowStep
  <1>8. ManagerKnows'
    BY <1>1, <1>3, <1>7 DEF ManagerKnows
  <1> QED
    BY <1>7, <1>8 DEF LedgerInv

LEMMA TrailStep ==
  ASSUME LedgerInv, Trail
  PROVE  LedgerInv' /\ \A j \in OpenIds : Tightened(positions[j], positions'[j])
  <1> DEFINE i == manager.id
             p == positions[i]
             q == Improve(p, TrailingStop(p))
  <1>1. /\ manager # Resting /\ manager.phase = "trail"
        /\ i \in OpenIds /\ i \in DOMAIN positions /\ SoundPosition(p) /\ p.status = "OPEN"
    BY Evaluated DEF Trail
  <1>2. manager' = Resting /\ account' = account /\ crashes' = crashes
    BY DEF Trail
  <1>3. ManagerKnows'
    BY <1>2 DEF ManagerKnows
  <1>4. CASE ReachesR(p, manager.price, 20)
    <2>1. positions' = [positions EXCEPT ![i] = q]
      BY <1>1, <1>4 DEF Trail
    <2>2. /\ SoundPosition(q) /\ Tightened(p, q) /\ q = [p EXCEPT !.stop = q.stop]
          /\ Contribution(q) = Contribution(p)
      BY <1>1, Candidates, ImprovedIsSound
    <2> HIDE DEF q
    <2>3. q.status = "OPEN" /\ q.quantity = p.quantity /\ q.partialTaken = p.partialTaken
      BY <1>1, <2>2 DEF SoundPosition, Position
    <2>4. q.partialTaken \/ ~PartialIsKnown(i)
      BY <1>1, <2>3 DEF PartialIsKnown
    <2>5. /\ TypeOK' /\ RowsAreSound' /\ PartialsAreKnown'
          /\ MoneyIsConserved'
          /\ \A j \in OpenIds : Tightened(positions[j], positions'[j])
      BY <1>1, <1>2, <2>1, <2>2, <2>3, <2>4, QuietRowStep
    <2> QED
      BY <1>3, <2>5 DEF LedgerInv
  <1>5. CASE ~ReachesR(p, manager.price, 20)
    BY <1>1, <1>2, <1>3, <1>5, ManagerMovesOn DEF Trail
  <1> QED
    BY <1>4, <1>5

LEMMA CrashStep ==
  ASSUME LedgerInv, Crash
  PROVE  LedgerInv' /\ \A j \in OpenIds : Tightened(positions[j], positions'[j])
  <1>1. /\ positions' = positions /\ account' = account /\ manager' = Resting
        /\ crashes' = crashes + 1 /\ crashes \in Nat
    BY DEF Crash, LedgerInv, TypeOK
  <1>2. OpenIds' = OpenIds
    BY <1>1 DEF OpenIds
  <1>3. TypeOK' /\ RowsAreSound' /\ ManagerKnows'
    BY <1>1, <1>2 DEF LedgerInv, TypeOK, RowsAreSound, ManagerKnows
  <1>4. MoneyIsConserved'
    BY <1>1, StillConserved
  <1>5. PartialsAreKnown'
    BY <1>1 DEF PartialsAreKnown
  <1> QED
    BY <1>1, <1>3, <1>4, <1>5 DEF LedgerInv, Tightened

LEMMA LedgerStep ==
  ASSUME LedgerInv, Next
  PROVE  LedgerInv' /\ \A j \in OpenIds : Tightened(positions[j], positions'[j])
  <1>1. CASE \E symbol \in Symbols, side \in Sides, price \in Prices :
                Open(symbol, side, price)
    BY <1>1, OpenStep
  <1>2. CASE \E i \in DOMAIN positions, price \in Prices : CloseManually(i, price)
    BY <1>2, ManualStep
  <1>3. CASE \E i \in DOMAIN positions, price \in Prices : StartEvaluation(i, price)
    BY <1>3, StartStep
  <1>4. CASE ManagerStep
    BY <1>4, StopStep, BreakEvenStep, PartialStep, FlagStep, TrailStep DEF ManagerStep
  <1>5. CASE Crash
    BY <1>5, CrashStep
  <1> QED
    BY <1>1, <1>2, <1>3, <1>4, <1>5 DEF Next

LEMMA LedgerInvariant == Spec => []LedgerInv
  <1>1. LedgerInv /\ [Next]_vars => LedgerInv'
    <2> SUFFICES ASSUME LedgerInv, UNCHANGED vars
                 PROVE  LedgerInv'
      BY LedgerStep
    <2>1. /\ positions' = positions /\ account' = account /\ manager' = manager
          /\ crashes' = crashes
      BY DEF vars
    <2>2. OpenIds' = OpenIds
      BY <2>1 DEF OpenIds
    <2>3. MoneyIsConserved'
      BY <2>1, StillConserved
    <2> QED
      BY <2>1, <2>2, <2>3
         DEF LedgerInv, TypeOK, RowsAreSound, ManagerKnows, PartialsAreKnown,
             PartialIsKnown
  <1> QED
    BY <1>1, LedgerInitially, PTL DEF Spec

----------------------------------------------------------------------------
\* Type correctness of account, positions and manager.
THEOREM LedgerTypeCorrect == Spec => []TypeOK
  <1>1. LedgerInv => TypeOK
    BY DEF LedgerInv
  <1> QED
    BY <1>1, LedgerInvariant, PTL

\* Every unit of money in the account is explained by the positions, for any
\* prices, fees, sizes and number of positions, wherever the process dies
\* between two commits (execution/service.py open, partial_close, close_position).
THEOREM MoneyConserved == Spec => []MoneyIsConserved
  <1>1. LedgerInv => MoneyIsConserved
    BY DEF LedgerInv
  <1> QED
    BY <1>1, LedgerInvariant, PTL

\* A stop is never loosened by break-even, partial, trail or an entry.
THEOREM StopsTighten == Spec => StopNeverLoosens
  <1> DEFINE Step == \A i \in OpenIds :
                        positions'[i].stop = positions[i].stop
                        \/ Better(positions[i].side, positions'[i].stop, positions[i].stop)
  <1>1. LedgerInv /\ [Next]_vars => [Step]_vars
    BY LedgerStep DEF Tightened
  <1> QED
    BY <1>1, LedgerInvariant, PTL DEF Spec, StopNeverLoosens

\* The loss in money when a stop closes an open position, slippage and fees
\* included: at most what the first stop would have cost, for a LONG at most what
\* its sizing estimated, and past a flagged partial at most the costs of an exit
\* at the entry price.  Wherever the process died: the rows alone bound it.
THEOREM StopOutsAreBounded == Spec => []StopOutIsBounded
  <1>1. ASSUME LedgerInv
        PROVE  StopOutIsBounded
    <2> SUFFICES ASSUME NEW i \in OpenIds
                 PROVE  LET p == positions[i] IN
                        /\ StopOut(p) >= FirstStopOut(p)
                        /\ p.side = "LONG" => StopOut(p) >= -EstimatedLoss(p)
                        /\ p.partialTaken =>
                              ExitDelta(p, p.quantity, p.stop)
                                 >= ExitDelta(p, p.quantity, p.entry)
      BY DEF StopOutIsBounded
    <2> DEFINE p == positions[i]
    <2>1. SoundPosition(p) /\ p \in Position /\ p.status = "OPEN"
      BY <1>1 DEF LedgerInv, RowsAreSound, OpenIds, SoundPosition
    <2> HIDE DEF p
    <2>2. StopOut(p) >= FirstStopOut(p) /\ StopOut(p) \in Int /\ FirstStopOut(p) \in Int
      BY <2>1, StopOutFigures DEF SoundPosition
    <2>3. p.side = "LONG" => StopOut(p) >= -EstimatedLoss(p)
      <3> SUFFICES ASSUME p.side = "LONG"
                   PROVE  StopOut(p) >= -EstimatedLoss(p)
        OBVIOUS
      <3>1. FirstStopOut(p) >= -EstimatedLoss(p)
        BY <2>1, EstimateCovers DEF SoundPosition
      <3>2. EstimatedLoss(p) \in Int
        BY <2>1, PositionFields, Quotients, SizesAssumption DEF EstimatedLoss, Fee
      <3> QED
        BY <2>2, <3>1, <3>2
    <2>4. ASSUME p.partialTaken
          PROVE  ExitDelta(p, p.quantity, p.stop) >= ExitDelta(p, p.quantity, p.entry)
      <3>1. /\ p.side \in Sides /\ p.entry \in Nat /\ p.stop \in Nat /\ p.quantity \in Nat
        BY <2>1, PositionFields
      <3>2. ~Better(p.side, p.entry, p.stop)
        BY <2>1, <2>4, <3>1 DEF SoundPosition, Better
      <3>3. PerLot(p.side, p.entry, p.entry) <= PerLot(p.side, p.entry, p.stop)
        BY <3>1, <3>2, PerLotGrows
      <3>4. /\ PerLot(p.side, p.entry, p.entry) \in Int
            /\ PerLot(p.side, p.entry, p.stop) \in Int
        BY <3>1, PerLotIsWhole
      <3>5. p.quantity * PerLot(p.side, p.entry, p.entry)
               <= p.quantity * PerLot(p.side, p.entry, p.stop)
        BY <3>1, <3>3, <3>4, Multiples
      <3>6. /\ ExitDelta(p, p.quantity, p.stop) = p.quantity * PerLot(p.side, p.entry, p.stop)
            /\ ExitDelta(p, p.quantity, p.entry) = p.quantity * PerLot(p.side, p.entry, p.entry)
        BY <2>1, <3>1, ExitIsPerLot
      <3>7. /\ p.quantity * PerLot(p.side, p.entry, p.entry) \in Int
            /\ p.quantity * PerLot(p.side, p.entry, p.stop) \in Int
        BY <3>1, <3>4
      <3> QED
        BY <3>5, <3>6, <3>7
    <2> QED
      BY <2>2, <2>3, <2>4 DEF p
  <1> QED
    BY <1>1, LedgerInvariant, PTL

\* Without a crash the partial is taken at most once.
THEOREM PartialsAreSingle == Spec => []AtMostOnePartial
  <1>1. LedgerInv => AtMostOnePartial
    BY DEF LedgerInv, PartialsAreKnown, AtMostOnePartial, Rest
  <1> QED
    BY <1>1, LedgerInvariant, PTL
=============================================================================
