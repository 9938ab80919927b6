---------------------------- MODULE ContextProofs ----------------------------
(***************************************************************************)
(* Proofs about Context, for any limits, sizes, runs, faults and restarts: *)
(* type correctness, that what a summary covers was read for it, and that  *)
(* a request is honest about what it leaves out.                           *)
(***************************************************************************)
EXTENDS Context, FiniteSetTheorems, WellFoundedInduction, TLAPS

-----------------------------------------------------------------------------
(* Finite sets of runs: what Max and Total are.  The induction over finite *)
(* sets is by a smallest counterexample (WFMin).                           *)

\* A family of subsets of a finite set has a smallest member.
LEMMA Smallest ==
    ASSUME NEW S, IsFiniteSet(S), NEW Family \in SUBSET (SUBSET S), Family # {}
    PROVE  \E T \in Family : \A U \in Family : U \subseteq T => U = T
<1>1. Family \subseteq FiniteSubsetsOf(S)
    BY FS_Subset DEF FiniteSubsetsOf
<1>2. IsWellFoundedOn(StrictSubsetOrdering(S), FiniteSubsetsOf(S))
    BY FS_StrictSubsetOrderingWellFounded
<1>3. \E T \in Family : \A U \in Family : <<U, T>> \notin StrictSubsetOrdering(S)
    BY <1>1, <1>2, WFMin
<1> QED BY <1>3 DEF StrictSubsetOrdering

\* A finite set of naturals that is not empty has a maximum.
LEMMA MaxIs ==
    ASSUME NEW S, IsFiniteSet(S), S # {}
    PROVE  S \subseteq Nat => Max(S) \in S /\ \A x \in S : x <= Max(S)
<1> DEFINE HasMax(T) == \E x \in T : \A y \in T : x >= y
           Family == {T \in SUBSET S : T # {} /\ ~HasMax(T)}
<1>1. Family \in SUBSET (SUBSET S)
    OBVIOUS
<1> HIDE DEF Family
<1>2. Family # {} => \E T \in Family : \A U \in Family : U \subseteq T => U = T
    BY <1>1, Smallest
<1> USE DEF Family
<1>3. HAVE S \subseteq Nat
<1>4. ASSUME Family # {}
      PROVE  FALSE
    <2>1. PICK T \in Family : \A U \in Family : U \subseteq T => U = T
        BY <1>2, <1>4
    <2>2. PICK x \in T : TRUE
        BY <2>1
    <2>3. T \ {x} # {}
        <3>1. T = {x} => HasMax(T)
            BY <1>3
        <3> QED BY <2>1, <2>2, <3>1
    <2>4. T \ {x} \notin Family
        BY <2>1, <2>2
    <2>5. HasMax(T \ {x})
        BY <2>1, <2>3, <2>4
    <2>6. PICK m \in T \ {x} : \A y \in T \ {x} : m >= y
        BY <2>5
    <2>7. x \in Nat /\ m \in Nat /\ \A y \in T : y \in Nat
        BY <1>3, <2>1, <2>2, <2>6
    <2>8. CASE x >= m
        BY <2>1, <2>2, <2>6, <2>7, <2>8
    <2>9. CASE m >= x
        BY <2>1, <2>2, <2>6, <2>7, <2>9
    <2> QED BY <2>7, <2>8, <2>9
<1>5. HasMax(S)
    BY <1>4
<1>6. \A x, y \in S : x >= y <=> y <= x
    BY <1>3
<1> HIDE DEF Family
<1> QED BY <1>5, <1>6 DEF Max

\* The sum that Total is defined by, for the subsets of S.
Chosen(set) == CHOOSE r \in set : TRUE
Sums(f, S) ==
    f = [set \in SUBSET S |->
            IF set = {} THEN 0 ELSE runs[Chosen(set)].size + f[set \ {Chosen(set)}]]

\* Total is the value at S of the sum that the library chooses.
LEMMA TotalOfSums == ASSUME NEW S PROVE Total(S) = (CHOOSE f : Sums(f, S))[S]
BY DEF Total, MapThenSumSet, MapThenFoldSet, Sums, Chosen

\* No run takes nothing.
LEMMA TotalOfNone == Total({}) = 0
<1>1. Sums([set \in SUBSET {} |-> 0], {})
    BY DEF Sums
<1>2. Sums((CHOOSE f : Sums(f, {})), {})
    BY <1>1
<1> QED BY <1>2, TotalOfSums DEF Sums

\* Total depends on nothing but the runs.
LEMMA TotalStays == ASSUME NEW S, runs' = runs PROVE Total(S)' = Total(S)
BY DEF Total, MapThenSumSet, MapThenFoldSet

\* There is such a sum for a finite set, and it gives the total of every subset.
Summed(T) == (\E f : Sums(f, T)) /\ \A f : Sums(f, T) => \A U \in SUBSET T : f[U] = Total(U)

\* Every subset of a finite set has one.
LEMMA AllSummed == ASSUME NEW S, IsFiniteSet(S) PROVE \A T \in SUBSET S : Summed(T)
<1> DEFINE Family == {T \in SUBSET S : ~Summed(T)}
<1>0. Family \in SUBSET (SUBSET S)
    OBVIOUS
<1>1. ASSUME Family # {}
      PROVE  FALSE
    <2> HIDE DEF Family
    <2>1. PICK T \in Family : \A U \in Family : U \subseteq T => U = T
        BY <1>0, <1>1, Smallest
    <2> USE DEF Family
    <2>2. \A U \in SUBSET T : U # T => Summed(U)
        BY <2>1
    <2>3. \A U \in SUBSET T : U # {} => Chosen(U) \in U
        BY DEF Chosen
    <2> HIDE DEF Family
    <2>4. ASSUME NEW U \in SUBSET T, U # {}, NEW f, Sums(f, U)
          PROVE  /\ f[U] = runs[Chosen(U)].size + Total(U \ {Chosen(U)})
        <3>1. U \ {Chosen(U)} \in SUBSET U /\ U \ {Chosen(U)} # U /\ U \ {Chosen(U)} # T
            BY <2>3, <2>4
        <3>2. f[U] = runs[Chosen(U)].size + f[U \ {Chosen(U)}]
            BY <2>4 DEF Sums
        <3> DEFINE V == U \ {Chosen(U)}
                   g == [set \in SUBSET V |-> f[set]]
        <3>3. Sums(g, V)
            <4>1. \A set \in SUBSET V : set \in SUBSET U /\ set \ {Chosen(set)} \in SUBSET V
                OBVIOUS
            <4>2. \A set \in SUBSET V : f[set] = IF set = {} THEN 0
                                          ELSE runs[Chosen(set)].size + f[set \ {Chosen(set)}]
                BY <2>4, <4>1 DEF Sums
            <4>3. \A set \in SUBSET V : g[set] = f[set] /\ g[set \ {Chosen(set)}] = f[set \ {Chosen(set)}]
                BY <4>1
            <4>4. g = [set \in SUBSET V |-> IF set = {} THEN 0
                                          ELSE runs[Chosen(set)].size + g[set \ {Chosen(set)}]]
                BY <4>2, <4>3
            <4> QED BY <4>4 DEF Sums
        <3>4. g[V] = Total(V)
            BY <2>2, <3>1, <3>3 DEF Summed
        <3> QED BY <3>2, <3>4
    <2>5. \A U \in SUBSET T : U # T /\ U # {} => Total(U) = runs[Chosen(U)].size + Total(U \ {Chosen(U)})
        <3> SUFFICES ASSUME NEW U \in SUBSET T, U # T, U # {}
                     PROVE  Total(U) = runs[Chosen(U)].size + Total(U \ {Chosen(U)})
            OBVIOUS
        <3>1. PICK f : Sums(f, U)
            BY <2>2 DEF Summed
        <3>2. f[U] = Total(U)
            BY <2>2, <3>1 DEF Summed
        <3> QED BY <2>4, <3>1, <3>2
    <2> DEFINE F == [set \in SUBSET T |-> IF set = {} THEN 0
                                          ELSE runs[Chosen(set)].size + Total(set \ {Chosen(set)})]
    <2>6. Sums(F, T)
        <3>1. \A U \in SUBSET T : U # {} => F[U \ {Chosen(U)}] = Total(U \ {Chosen(U)})
            <4> SUFFICES ASSUME NEW U \in SUBSET T, U # {}
                         PROVE  F[U \ {Chosen(U)}] = Total(U \ {Chosen(U)})
                OBVIOUS
            <4>1. U \ {Chosen(U)} \in SUBSET T /\ U \ {Chosen(U)} # T
                BY <2>3
            <4> QED BY <2>5, <4>1, TotalOfNone
        <3>2. F = [set \in SUBSET T |-> IF set = {} THEN 0
                                        ELSE runs[Chosen(set)].size + F[set \ {Chosen(set)}]]
            BY <3>1
        <3> QED BY <3>2 DEF Sums
    <2>7. ASSUME NEW f, Sums(f, T), NEW U \in SUBSET T
          PROVE  f[U] = Total(U)
        <3>1. CASE U = {}
            BY <2>7, <3>1, TotalOfNone DEF Sums
        <3>2. CASE U # {}
            <4>0. f[U] = runs[Chosen(U)].size + f[U \ {Chosen(U)}]
                BY <2>7, <3>2 DEF Sums
            <4>1. CASE U # T
                <5> DEFINE g == [set \in SUBSET U |-> f[set]]
                <5>1. Sums(g, U)
                    <6>1. \A set \in SUBSET U : set \in SUBSET T /\ set \ {Chosen(set)} \in SUBSET U
                        OBVIOUS
                    <6>2. \A set \in SUBSET U : f[set] = IF set = {} THEN 0
                                          ELSE runs[Chosen(set)].size + f[set \ {Chosen(set)}]
                        BY <2>7, <6>1 DEF Sums
                    <6>3. \A set \in SUBSET U : g[set] = f[set] /\ g[set \ {Chosen(set)}] = f[set \ {Chosen(set)}]
                        BY <6>1
                    <6>4. g = [set \in SUBSET U |-> IF set = {} THEN 0
                                          ELSE runs[Chosen(set)].size + g[set \ {Chosen(set)}]]
                        BY <6>2, <6>3
                    <6> QED BY <6>4 DEF Sums
                <5> QED BY <2>2, <4>1, <5>1 DEF Summed
            <4>2. CASE U = T
                <5>1. f[T] = runs[Chosen(T)].size + Total(T \ {Chosen(T)})
                    BY <2>4, <2>7, <3>2, <4>2
                <5>2. Sums((CHOOSE h : Sums(h, T)), T)
                    BY <2>6
                <5>3. (CHOOSE h : Sums(h, T))[T] = runs[Chosen(T)].size + Total(T \ {Chosen(T)})
                    BY <2>4, <3>2, <4>2, <5>2
                <5> QED BY <4>2, <5>1, <5>3, TotalOfSums
            <4> QED BY <4>1, <4>2
        <3> QED BY <3>1, <3>2
    <2>8. Summed(T)
        BY <2>6, <2>7 DEF Summed
    <2> QED BY <2>1, <2>8 DEF Family
<1> QED BY <1>1

\* A set takes what one of its runs takes and what the others take.
LEMMA TotalOfSome ==
    ASSUME NEW S, IsFiniteSet(S), S # {}
    PROVE  Chosen(S) \in S /\ Total(S) = runs[Chosen(S)].size + Total(S \ {Chosen(S)})
<1> DEFINE f == CHOOSE g : Sums(g, S)
<1>1. Chosen(S) \in S
    BY DEF Chosen
<1>2. Summed(S)
    BY AllSummed
<1>3. Sums(f, S)
    BY <1>2 DEF Summed
<1>4. f[S] = Total(S) /\ f[S \ {Chosen(S)}] = Total(S \ {Chosen(S)})
    BY <1>2, <1>3 DEF Summed
<1>5. f[S] = runs[Chosen(S)].size + f[S \ {Chosen(S)}]
    BY <1>3 DEF Sums
<1> QED BY <1>1, <1>4, <1>5

\* Whichever of its runs that is.
Splits(T) == Total(T) \in Nat /\ \A r \in T : Total(T) = runs[r].size + Total(T \ {r})

\* Every subset of a finite set of runs does that.
LEMMA AllSplit ==
    ASSUME NEW S, IsFiniteSet(S), \A r \in S : runs[r].size \in Nat
    PROVE  \A T \in SUBSET S : Splits(T)
<1> DEFINE Family == {T \in SUBSET S : ~Splits(T)}
<1>1. Family \in SUBSET (SUBSET S)
    OBVIOUS
<1>2. ASSUME Family # {}
      PROVE  FALSE
    <2> HIDE DEF Family
    <2>1. PICK T \in Family : \A U \in Family : U \subseteq T => U = T
        BY <1>1, <1>2, Smallest
    <2>2. T \in SUBSET S /\ ~Splits(T) /\ \A U \in SUBSET T : U # T => Splits(U)
        BY <2>1 DEF Family
    <2>3. T # {}
        <3>1. Splits({})
            BY TotalOfNone DEF Splits
        <3> QED BY <2>2, <3>1
    <2>4. IsFiniteSet(T)
        BY <2>2, FS_Subset
    <2> DEFINE c == Chosen(T)
    <2>5. c \in T /\ Total(T) = runs[c].size + Total(T \ {c})
        BY <2>3, <2>4, TotalOfSome
    <2> HIDE DEF c
    <2>6. Splits(T \ {c}) /\ runs[c].size \in Nat
        BY <2>2, <2>5
    <2>7. Total(T) \in Nat
        BY <2>5, <2>6 DEF Splits
    <2>8. ASSUME NEW r \in T
          PROVE  Total(T) = runs[r].size + Total(T \ {r})
        <3>1. CASE r = c
            BY <2>5, <3>1
        <3>2. CASE r # c
            <4>1. Splits(T \ {r}) /\ Splits((T \ {r}) \ {c}) /\ runs[r].size \in Nat
                BY <2>2, <2>5, <3>2
            <4>2. (T \ {r}) \ {c} = (T \ {c}) \ {r}
                OBVIOUS
            <4>3. Total(T \ {r}) = runs[c].size + Total((T \ {r}) \ {c})
                BY <2>5, <3>2, <4>1 DEF Splits
            <4>4. Total(T \ {c}) = runs[r].size + Total((T \ {r}) \ {c})
                BY <2>6, <3>2, <4>2 DEF Splits
            <4>5. Total((T \ {r}) \ {c}) \in Nat
                BY <4>1 DEF Splits
            <4> QED BY <2>5, <2>6, <4>1, <4>3, <4>4, <4>5
        <3> QED BY <3>1, <3>2
    <2> QED BY <2>2, <2>7, <2>8 DEF Splits
<1> QED BY <1>2

\* More runs take no less.
LEMMA TotalGrows ==
    ASSUME NEW S, IsFiniteSet(S), \A r \in S : runs[r].size \in Nat, NEW T \in SUBSET S
    PROVE  Total(T) \in Nat /\ Total(S) \in Nat /\ Total(T) <= Total(S)
<1> DEFINE Family == {U \in SUBSET S : T \subseteq U /\ ~(Total(T) <= Total(U))}
<1>1. Family \in SUBSET (SUBSET S)
    OBVIOUS
<1>2. \A U \in SUBSET S : Splits(U)
    BY AllSplit
<1>3. \A U \in SUBSET S : Total(U) \in Nat
    BY <1>2 DEF Splits
<1>4. ASSUME Family # {}
      PROVE  FALSE
    <2> HIDE DEF Family
    <2>1. PICK U \in Family : \A V \in Family : V \subseteq U => V = U
        BY <1>1, <1>4, Smallest
    <2>2. U \in SUBSET S /\ T \subseteq U /\ ~(Total(T) <= Total(U))
        BY <2>1 DEF Family
    <2>3. U # T
        BY <1>3, <2>2
    <2>4. PICK r \in U \ T : TRUE
        BY <2>2, <2>3
    <2>5. U \ {r} \in SUBSET S /\ T \subseteq U \ {r} /\ U \ {r} # U
        BY <2>2, <2>4
    <2>6. Total(T) <= Total(U \ {r})
        BY <2>1, <2>5 DEF Family
    <2>7. Total(U) = runs[r].size + Total(U \ {r}) /\ runs[r].size \in Nat
        BY <1>2, <2>2, <2>4 DEF Splits
    <2> QED BY <1>3, <2>2, <2>5, <2>6, <2>7
<1> QED BY <1>3, <1>4

-----------------------------------------------------------------------------
(* The inductive invariant.                                                *)

RunsTyped ==
    /\ runs \in Seq([first : Nat, last : Nat, size : Sizes, open : BOOLEAN])
    /\ current \in {0} \cup DOMAIN runs
    /\ current # 0 => runs[current].open
    /\ tried \in BOOLEAN

\* Runs begin one after the other, end after they began, and no two end with one message.
RunsOrdered ==
    /\ \A r \in DOMAIN runs : runs[r].first <= runs[r].last
    /\ \A r, q \in DOMAIN runs : r < q => runs[r].first < runs[q].first
    /\ \A r, q \in DOMAIN runs : r # q /\ ~runs[r].open /\ ~runs[q].open => runs[r].last # runs[q].last

\* A summary covers no more than there is, and was made from runs of the session.
SummaryFits ==
    /\ summary.covered \in Nat /\ summary.covered <= LastSeq
    /\ source \subseteq DOMAIN runs

\* While the model works on a summary, what it was asked for is still what would be taken.
AskedFits ==
    asked # Nothing =>
        /\ current # 0 /\ Taken # {}
        /\ asked.runs = Taken /\ asked.covered = runs[Max(Taken)].last
        /\ asked.size \in Sizes /\ asked.size <= Limit

ContextInv ==
    /\ RunsTyped /\ RunsOrdered /\ SummaryFits /\ AskedFits
    /\ CoveredWasReadOrInside /\ RequestIsHonest

-----------------------------------------------------------------------------
(* What the steps of the session and the builder rely on.                  *)

RunRow == [first : Nat, last : Nat, size : Sizes, open : BOOLEAN]

\* What the assumption on the constants says of the limits.
LEMMA SizesAreNaturals == Sizes \subseteq Nat /\ Limit \in Nat /\ RecentRuns \in Nat /\ SummaryLimit \in Nat
BY ContextAssumption

\* The last message of a session.
LEMMA LastIs ==
    ASSUME NEW R \in Seq(RunRow)
    PROVE  LET last == Max({R[r].last : r \in DOMAIN R} \cup {0}) IN
           /\ last \in Nat /\ \A r \in DOMAIN R : R[r].last <= last
           /\ last = 0 \/ \E r \in DOMAIN R : last = R[r].last
<1> DEFINE Ends == {R[r].last : r \in DOMAIN R}
           f == [r \in DOMAIN R |-> R[r].last]
<1>1. DOMAIN R = 1..Len(R) /\ Len(R) \in Nat /\ \A r \in DOMAIN R : R[r] \in RunRow
    OBVIOUS
<1>2. IsFiniteSet(DOMAIN R)
    BY <1>1, FS_Interval
<1>3. f \in Surjection(DOMAIN R, Ends)
    BY DEF Surjection
<1>4. IsFiniteSet(Ends)
    BY <1>2, <1>3, FS_Surjection
<1>5. IsFiniteSet(Ends \cup {0})
    BY <1>4, FS_AddElement
<1>6. Ends \cup {0} \subseteq Nat
    BY <1>1 DEF RunRow
<1> HIDE DEF Ends, f
<1>7. Max(Ends \cup {0}) \in Ends \cup {0} /\ \A x \in Ends \cup {0} : x <= Max(Ends \cup {0})
    BY <1>5, <1>6, MaxIs
<1> QED BY <1>6, <1>7 DEF Ends

\* The last message of the session.
LEMMA LastSeqIs ==
    ASSUME RunsTyped
    PROVE  /\ LastSeq \in Nat /\ \A r \in DOMAIN runs : runs[r].last <= LastSeq
           /\ LastSeq = 0 \/ \E r \in DOMAIN runs : LastSeq = runs[r].last
BY LastIs DEF RunsTyped, RunRow, LastSeq

\* The rows of a session.
LEMMA RowsIn ==
    ASSUME NEW R \in Seq(RunRow)
    PROVE  /\ DOMAIN R = 1..Len(R) /\ Len(R) \in Nat /\ IsFiniteSet(DOMAIN R)
           /\ \A r \in DOMAIN R : /\ r \in Nat \ {0} /\ R[r] \in RunRow
                                 /\ R[r].first \in Nat /\ R[r].last \in Nat
                                 /\ R[r].size \in Nat /\ R[r].open \in BOOLEAN
<1>1. DOMAIN R = 1..Len(R) /\ Len(R) \in Nat /\ \A r \in DOMAIN R : R[r] \in RunRow
    OBVIOUS
<1>2. IsFiniteSet(1..Len(R))
    BY <1>1, FS_Interval
<1>3. \A r \in 1..Len(R) : r \in Nat \ {0}
    BY <1>1
<1>4. \A row \in RunRow : /\ row.first \in Nat /\ row.last \in Nat
                         /\ row.size \in Nat /\ row.open \in BOOLEAN
    BY SizesAreNaturals DEF RunRow
<1> QED BY <1>1, <1>2, <1>3, <1>4

\* Its rows.
LEMMA RowsAre ==
    ASSUME RunsTyped
    PROVE  /\ DOMAIN runs = 1..Len(runs) /\ Len(runs) \in Nat /\ IsFiniteSet(DOMAIN runs)
           /\ \A r \in DOMAIN runs : /\ r \in Nat \ {0} /\ runs[r] \in RunRow
                                    /\ runs[r].first \in Nat /\ runs[r].last \in Nat
                                    /\ runs[r].size \in Nat /\ runs[r].open \in BOOLEAN
<1>1. runs \in Seq(RunRow)
    BY DEF RunsTyped, RunRow
<1> QED BY <1>1, RowsIn

\* The sets of runs that the builder works with are sets of ended runs of the session.
LEMMA SetsAre ==
    ASSUME RunsTyped, NEW covered, NEW n
    PROVE  /\ Taken \subseteq Candidates /\ Candidates \subseteq Behind(summary.covered)
           /\ Latest(Behind(covered), n) \subseteq Behind(covered) /\ Behind(covered) \subseteq History
           /\ History \subseteq {r \in DOMAIN runs : ~runs[r].open}
           /\ IsFiniteSet(History) /\ IsFiniteSet(Behind(covered)) /\ IsFiniteSet(Candidates)
           /\ Taken # {} => Max(Taken) \in Taken /\ \A r \in Taken : r <= Max(Taken)
<1>1. /\ Taken \subseteq Candidates /\ Candidates \subseteq Behind(summary.covered)
      /\ Latest(Behind(covered), n) \subseteq Behind(covered) /\ Behind(covered) \subseteq History
      /\ Behind(summary.covered) \subseteq History
      /\ History \subseteq {r \in DOMAIN runs : ~runs[r].open}
    BY DEF Taken, Candidates, Latest, Behind, History
<1>2. IsFiniteSet(History) /\ IsFiniteSet(Behind(covered)) /\ IsFiniteSet(Candidates) /\ IsFiniteSet(Taken)
    <2>1. IsFiniteSet(DOMAIN runs)
        BY RowsAre
    <2>2. /\ History \in SUBSET DOMAIN runs /\ Behind(covered) \in SUBSET DOMAIN runs
          /\ Candidates \in SUBSET DOMAIN runs /\ Taken \in SUBSET DOMAIN runs
        BY <1>1
    <2> QED BY <2>1, <2>2, FS_Subset
<1>3. Taken \subseteq Nat
    BY <1>1, RowsAre
<1>4. Taken # {} => Max(Taken) \in Taken /\ \A r \in Taken : r <= Max(Taken)
    BY <1>2, <1>3, MaxIs
<1> QED BY <1>1, <1>2, <1>4

\* Of what is behind a number, the n latest are no gap away from the newest.
LEMMA LatestIs ==
    ASSUME NEW set, IsFiniteSet(set), set \subseteq Nat, NEW n \in Nat
    PROVE  /\ Latest(set, 0) = {}
           /\ \A r \in Latest(set, n), q \in set : q > r => q \in Latest(set, n)
<1>1. \A r : IsFiniteSet({p \in set : p > r}) /\ Cardinality({p \in set : p > r}) \in Nat
    <2> SUFFICES ASSUME NEW r
                 PROVE  IsFiniteSet({p \in set : p > r}) /\ Cardinality({p \in set : p > r}) \in Nat
        OBVIOUS
    <2>1. IsFiniteSet({p \in set : p > r})
        BY FS_Subset
    <2> QED BY <2>1, FS_CardinalityType
<1>2. Latest(set, 0) = {}
    BY <1>1 DEF Latest
<1>3. ASSUME NEW r \in Latest(set, n), NEW q \in set, q > r
      PROVE  q \in Latest(set, n)
    <2> DEFINE Above(p) == {o \in set : o > p}
    <2>1. Above(q) \in SUBSET Above(r)
        <3>1. r \in Nat /\ q \in Nat
            BY <1>3 DEF Latest
        <3>2. \A o \in set : o > q => o > r
            BY <1>3, <3>1
        <3> QED BY <3>2
    <2>2. Cardinality(Above(q)) <= Cardinality(Above(r))
        <3> HIDE DEF Above
        <3>1. IsFiniteSet(Above(r))
            BY <1>1 DEF Above
        <3> QED BY <2>1, <3>1, FS_Subset
    <2>3. Cardinality(Above(r)) < n /\ Cardinality(Above(r)) \in Nat /\ Cardinality(Above(q)) \in Nat
        BY <1>1, <1>3 DEF Latest
    <2>4. Cardinality(Above(q)) < n
        BY <2>2, <2>3
    <2> QED BY <2>4 DEF Latest
<1> QED BY <1>2, <1>3

\* What makes a request with a summary up to a covered number honest.
Honest(req, covered) ==
    /\ req.own + One(req.summary) + One(req.notice) + Total(req.shown) <= Limit
    /\ req.shown \subseteq Behind(covered)
    /\ \A r \in req.shown, q \in Behind(covered) : q > r => q \in req.shown
    /\ covered > 0 /\ ~req.summary =>
          req.shown = {} /\ req.own + 1 + One(History # {}) > Limit
    /\ req.shown # History /\ ~req.notice => req.own = Limit

\* Fit builds one: either what it shows fits with all that goes with it, or it shows nothing.
LEMMA FitHonest ==
    ASSUME RunsTyped, NEW own \in Nat, own <= Limit, NEW sum, sum.covered \in Nat
    PROVE  Honest(Fit(own, sum), sum.covered)
<1> DEFINE fits == {n \in 0..RecentRuns : SizeOf(own, sum, n) <= Limit}
           most == IF fits = {} THEN 0 ELSE Max(fits)
           shown == Latest(Behind(sum.covered), most)
           notice == One(shown # History)
           keep == own + One(sum.covered > 0) + notice + Total(shown) <= Limit
<1>1. most \in Nat /\ (most \in fits \/ (most = 0 /\ fits = {}))
    <2>1. IsFiniteSet(0..RecentRuns)
        BY SizesAreNaturals, FS_Interval
    <2>2. IsFiniteSet(fits)
        BY <2>1, FS_Subset
    <2>3. fits \subseteq Nat
        OBVIOUS
    <2> HIDE DEF fits
    <2>4. fits # {} => Max(fits) \in fits
        BY <2>2, <2>3, MaxIs
    <2> QED BY <2>3, <2>4
<1>2. /\ IsFiniteSet(Behind(sum.covered)) /\ Behind(sum.covered) \subseteq Nat
      /\ shown \in SUBSET Behind(sum.covered)
    <2>1. /\ IsFiniteSet(Behind(sum.covered)) /\ Behind(sum.covered) \subseteq DOMAIN runs
          /\ shown \in SUBSET Behind(sum.covered)
        BY SetsAre
    <2> QED BY <2>1, RowsAre
<1>3. Total(shown) \in Nat
    <2>1. \A r \in Behind(sum.covered) : runs[r].size \in Nat
        BY SetsAre, RowsAre
    <2> QED BY <1>2, <2>1, TotalGrows
<1>4. \A r \in shown, q \in Behind(sum.covered) : q > r => q \in shown
    <2> HIDE DEF most
    <2> QED BY <1>1, <1>2, LatestIs
<1>5. most = 0 => shown = {} /\ Total(shown) = 0
    <2>1. Latest(Behind(sum.covered), 0) = {}
        BY <1>2, LatestIs
    <2> QED BY <2>1, TotalOfNone
<1>6. most \in fits => keep
    BY DEF SizeOf, One
<1>7. keep \/ (shown = {} /\ Total(shown) = 0)
    BY <1>1, <1>5, <1>6
<1>8. Fit(own, sum) = [shown |-> shown, summary |-> sum.covered > 0 /\ keep,
                       notice |-> shown # History /\ (keep \/ own + notice <= Limit), own |-> own]
    BY DEF Fit
<1> DEFINE req == Fit(own, sum)
<1> HIDE DEF most, fits
<1>9. /\ req.shown = shown /\ req.own = own
      /\ req.summary = (sum.covered > 0 /\ keep)
      /\ req.notice = (shown # History /\ (keep \/ own + notice <= Limit))
    BY <1>8
<1> HIDE DEF shown, req
<1>10. /\ One(req.summary) = One(sum.covered > 0 /\ keep)
       /\ One(req.notice) = One(shown # History /\ (keep \/ own + notice <= Limit))
       /\ Total(req.shown) = Total(shown)
       /\ req.summary <=> sum.covered > 0 /\ keep
       /\ req.notice <=> shown # History /\ (keep \/ own + notice <= Limit)
    BY <1>9
<1>11. req.own + One(req.summary) + One(req.notice) + Total(req.shown) <= Limit
    <2>1. CASE keep
        BY <1>3, <1>9, <1>10, <2>1 DEF One
    <2>2. CASE ~keep
        <3>1. One(req.summary) = 0 /\ Total(req.shown) = 0
            BY <1>7, <1>10, <2>2 DEF One
        <3>2. own + One(req.notice) <= Limit
            BY <1>10, <2>2, SizesAreNaturals DEF One
        <3>3. One(req.notice) \in Nat
            BY DEF One
        <3> QED BY <1>9, <3>1, <3>2, <3>3
    <2> QED BY <2>1, <2>2
<1>12. sum.covered > 0 /\ ~req.summary =>
          req.shown = {} /\ req.own + 1 + One(History # {}) > Limit
    <2> SUFFICES ASSUME sum.covered > 0, ~req.summary
                 PROVE  req.shown = {} /\ req.own + 1 + One(History # {}) > Limit
        OBVIOUS
    <2>1. ~keep
        BY <1>10
    <2>2. shown = {} /\ Total(shown) = 0
        BY <1>7, <2>1
    <2>3. own + 1 + One(History # {}) > Limit
        BY <2>1, <2>2, SizesAreNaturals DEF One
    <2> QED BY <1>9, <2>2, <2>3
<1>13. req.shown # History /\ ~req.notice => req.own = Limit
    <2> SUFFICES ASSUME req.shown # History, ~req.notice
                 PROVE  own = Limit
        BY <1>9
    <2>1. shown # History
        BY <1>9
    <2>2. ~(own + 1 <= Limit)
        BY <1>10, <2>1 DEF One
    <2> QED BY <2>2, SizesAreNaturals
<1> QED BY <1>2, <1>4, <1>9, <1>11, <1>12, <1>13 DEF Honest, req

\* The steps that build a request leave the session alone, so that it is honest of it.
LEMMA BuiltHonest ==
    ASSUME RunsTyped, UNCHANGED <<runs, current>>, summary'.covered \in Nat,
           NEW own \in Nat, own <= Limit, request' = Fit(own, summary')
    PROVE  RequestIsHonest'
<1>1. Honest(request', summary'.covered)
    BY FitHonest
<1>2. \A S : Total(S)' = Total(S)
    BY TotalStays
<1>3. History' = History
    BY DEF History
<1>4. \A c : Behind(c)' = Behind(c)
    BY <1>3 DEF Behind
<1> QED BY <1>1, <1>2, <1>3, <1>4 DEF Honest, RequestIsHonest, One

-----------------------------------------------------------------------------
(* The steps of the session.  Whatever they do, a run keeps its first      *)
(* message, and keeps its last one too once it is over: a run that ends    *)
(* now, ends behind all messages there are.                                *)

Grows ==
    /\ DOMAIN runs \subseteq DOMAIN runs'
    /\ \A r \in DOMAIN runs :
          /\ runs'[r].first = runs[r].first
          /\ \/ runs'[r] = runs[r]
             \/ runs[r].open /\ ~runs'[r].open /\ runs'[r].last > LastSeq
    /\ \A r \in DOMAIN runs' \ DOMAIN runs : runs'[r].open

\* Then what a summary covers, and what it was made from, stays what it was.
LEMMA GrowsKeeps ==
    ASSUME RunsTyped, RunsTyped', SummaryFits, CoveredWasReadOrInside, Grows,
           UNCHANGED <<summary, source>>, asked' = Nothing, request' = NoRequest
    PROVE  SummaryFits' /\ AskedFits' /\ CoveredWasReadOrInside' /\ RequestIsHonest'
<1>1. /\ LastSeq \in Nat /\ \A r \in DOMAIN runs : runs[r].last <= LastSeq
      /\ LastSeq # 0 => \E r \in DOMAIN runs : LastSeq = runs[r].last
    BY LastSeqIs
<1>2. LastSeq' \in Nat /\ \A r \in DOMAIN runs' : runs'[r].last <= LastSeq'
    <2>1. runs' \in Seq(RunRow)
        BY DEF RunsTyped, RunRow
    <2> QED BY <2>1, LastIs DEF LastSeq
<1>3. \A r \in DOMAIN runs :
         /\ r \in DOMAIN runs' /\ runs'[r].first = runs[r].first
         /\ runs[r].first \in Nat /\ runs[r].last \in Nat /\ runs'[r].last \in Nat
         /\ runs[r].last <= runs'[r].last
    <2> SUFFICES ASSUME NEW r \in DOMAIN runs
                 PROVE  /\ r \in DOMAIN runs' /\ runs'[r].first = runs[r].first
                        /\ runs[r].first \in Nat /\ runs[r].last \in Nat /\ runs'[r].last \in Nat
                        /\ runs[r].last <= runs'[r].last
        OBVIOUS
    <2>1. r \in DOMAIN runs' /\ runs'[r].first = runs[r].first
        BY DEF Grows
    <2>2. runs[r].first \in Nat /\ runs[r].last \in Nat
        BY RowsAre
    <2>3. runs' \in Seq(RunRow)
        BY DEF RunsTyped, RunRow
    <2>4. runs'[r].last \in Nat
        BY <2>1, <2>3, RowsIn
    <2>5. runs'[r] = runs[r] \/ runs'[r].last > LastSeq
        BY DEF Grows
    <2> QED BY <1>1, <2>1, <2>2, <2>4, <2>5
<1>4. LastSeq <= LastSeq'
    BY <1>1, <1>2, <1>3
<1>5. SummaryFits'
    <2>1. summary.covered \in Nat /\ summary.covered <= LastSeq
        BY DEF SummaryFits
    <2>2. summary.covered <= LastSeq'
        BY <1>1, <1>2, <1>4, <2>1
    <2>3. source \subseteq DOMAIN runs'
        BY DEF SummaryFits, Grows
    <2> QED BY <2>1, <2>2, <2>3 DEF SummaryFits
<1>6. CoveredWasReadOrInside'
    <2>1. ASSUME NEW r \in DOMAIN runs', ~runs'[r].open, runs'[r].last <= summary.covered
          PROVE  r \in source \/ \E q \in source : Inside(r, q)'
        <3>1. r \in DOMAIN runs
            BY <2>1 DEF Grows
        <3>2. runs'[r] = runs[r]
            BY <1>1, <1>3, <2>1, <3>1 DEF Grows, SummaryFits
        <3>3. r \in source \/ \E q \in source : Inside(r, q)
            BY <2>1, <3>1, <3>2 DEF CoveredWasReadOrInside
        <3>4. ASSUME NEW q \in source, Inside(r, q)
              PROVE  Inside(r, q)'
            <4>1. q \in DOMAIN runs
                BY DEF SummaryFits
            <4> QED BY <1>3, <3>1, <3>2, <3>4, <4>1 DEF Inside
        <3> QED BY <3>3, <3>4
    <2>2. ASSUME NEW r \in summary.quotes
          PROVE  r \in source /\ runs'[r].first <= summary.covered
        <3>1. r \in source /\ runs[r].first <= summary.covered
            BY DEF CoveredWasReadOrInside
        <3>2. r \in DOMAIN runs
            BY <3>1 DEF SummaryFits
        <3> QED BY <1>3, <3>1, <3>2
    <2> QED BY <2>1, <2>2 DEF CoveredWasReadOrInside
<1> QED BY <1>5, <1>6 DEF AskedFits, RequestIsHonest

\* An order of the runs that a step keeps for the old ones holds for the new ones too.
LEMMA GrowsOrders ==
    ASSUME RunsTyped, RunsTyped', RunsOrdered, Grows,
           \A r \in DOMAIN runs' \ DOMAIN runs :
              /\ runs'[r].first = runs'[r].last /\ runs'[r].first > LastSeq
              /\ \A q \in DOMAIN runs' \ DOMAIN runs : q = r
              /\ \A q \in DOMAIN runs : q < r,
           \A r, q \in DOMAIN runs :
              r < q /\ runs'[r] # runs[r] /\ runs'[q] # runs[q] => runs'[r].last # runs'[q].last
    PROVE  RunsOrdered'
<1>1. LastSeq \in Nat /\ \A r \in DOMAIN runs : runs[r].last <= LastSeq
    BY LastSeqIs
<1>2. \A r \in DOMAIN runs : /\ r \in Nat /\ runs[r].first \in Nat /\ runs[r].last \in Nat
                            /\ runs[r].first <= runs[r].last
    BY RowsAre DEF RunsOrdered
<1>3. \A r \in DOMAIN runs' : r \in Nat /\ runs'[r].first \in Nat /\ runs'[r].last \in Nat
    <2>1. runs' \in Seq(RunRow)
        BY DEF RunsTyped, RunRow
    <2> QED BY <2>1, RowsIn
<1>4. ASSUME NEW r \in DOMAIN runs'
      PROVE  runs'[r].first <= runs'[r].last
    BY <1>1, <1>2, <1>3 DEF Grows
<1>5. ASSUME NEW r \in DOMAIN runs', NEW q \in DOMAIN runs', r < q
      PROVE  runs'[r].first < runs'[q].first
    <2>1. CASE q \in DOMAIN runs
        <3>1. r \in DOMAIN runs
            BY <1>2, <1>3, <1>5, <2>1
        <3> QED BY <1>5, <2>1, <3>1 DEF Grows, RunsOrdered
    <2>2. CASE q \notin DOMAIN runs
        <3>1. r \in DOMAIN runs
            BY <1>3, <1>5, <2>2
        <3> QED BY <1>1, <1>2, <1>3, <2>2, <3>1 DEF Grows
    <2> QED BY <2>1, <2>2
<1>6. ASSUME NEW r \in DOMAIN runs', NEW q \in DOMAIN runs', r # q, ~runs'[r].open, ~runs'[q].open
      PROVE  runs'[r].last # runs'[q].last
    <2>1. r \in DOMAIN runs /\ q \in DOMAIN runs
        BY <1>6 DEF Grows
    <2>2. CASE runs'[r] = runs[r] /\ runs'[q] = runs[q]
        BY <1>6, <2>1, <2>2 DEF RunsOrdered
    <2>3. CASE runs'[r] = runs[r] /\ runs'[q] # runs[q]
        BY <1>1, <1>2, <1>3, <2>1, <2>3 DEF Grows
    <2>4. CASE runs'[r] # runs[r] /\ runs'[q] = runs[q]
        BY <1>1, <1>2, <1>3, <2>1, <2>4 DEF Grows
    <2>5. CASE runs'[r] # runs[r] /\ runs'[q] # runs[q]
        <3>1. r < q \/ q < r
            BY <1>2, <1>6, <2>1
        <3> QED BY <2>1, <2>5, <3>1
    <2> QED BY <2>2, <2>3, <2>4, <2>5
<1> QED BY <1>4, <1>5, <1>6 DEF RunsOrdered

\* What becomes of the row of a run that ends.
Ended(row, number) == [row EXCEPT !.last = number, !.open = FALSE]

\* It is a row with the same first message.
LEMMA EndedIs ==
    ASSUME NEW row \in RunRow, NEW number \in Nat
    PROVE  /\ Ended(row, number) \in RunRow /\ Ended(row, number).first = row.first
           /\ Ended(row, number).last = number /\ ~Ended(row, number).open
<1>1. Ended(row, number) \in RunRow
    BY DEF RunRow, Ended
<1>2. Ended(row, number).first = row.first /\ Ended(row, number).last = number
    BY DEF RunRow, Ended
<1>3. ~Ended(row, number).open
    BY DEF RunRow, Ended
<1> QED BY <1>1, <1>2, <1>3

\* A run begins: its question is a new first message, and the only one of the run so far.
LEMMA SubmitStep ==
    ASSUME ContextInv, NEW size \in Sizes, Submit(size)
    PROVE  ContextInv'
<1> DEFINE new == [first |-> LastSeq + 1, last |-> LastSeq + 1, size |-> size, open |-> TRUE]
<1>1. /\ RunsTyped /\ RunsOrdered /\ SummaryFits /\ CoveredWasReadOrInside
      /\ runs \in Seq(RunRow) /\ Len(runs) \in Nat /\ DOMAIN runs = 1..Len(runs)
    BY RowsAre DEF ContextInv, RunsTyped, RunRow
<1>2. LastSeq \in Nat /\ \A r \in DOMAIN runs : runs[r].last <= LastSeq
    BY <1>1, LastSeqIs
<1>3. new \in RunRow
    BY <1>2 DEF RunRow
<1>4. runs' = Append(runs, new) /\ current' = Len(runs')
    BY DEF Submit
<1> HIDE DEF new
<1>5. /\ runs' \in Seq(RunRow) /\ Len(runs') = Len(runs) + 1 /\ DOMAIN runs' = 1..Len(runs')
      /\ \A r \in DOMAIN runs : runs'[r] = runs[r]
      /\ runs'[Len(runs')] = new
    BY <1>1, <1>3, <1>4
<1>6. /\ DOMAIN runs \subseteq DOMAIN runs'
      /\ \A r \in DOMAIN runs' \ DOMAIN runs :
            r = Len(runs') /\ runs'[r] = new /\ \A q \in DOMAIN runs : q < r
      /\ current' \in DOMAIN runs'
    BY <1>1, <1>4, <1>5
<1>7. new.open /\ new.first = new.last /\ new.first > LastSeq
    BY <1>2 DEF new
<1>8. RunsTyped'
    BY <1>4, <1>5, <1>6, <1>7 DEF RunsTyped, RunRow, Submit, Idle
<1>9. Grows
    BY <1>5, <1>6, <1>7 DEF Grows
<1>10. RunsOrdered'
    BY <1>1, <1>5, <1>6, <1>7, <1>8, <1>9, GrowsOrders
<1>11. SummaryFits' /\ AskedFits' /\ CoveredWasReadOrInside' /\ RequestIsHonest'
    BY <1>1, <1>8, <1>9, GrowsKeeps DEF Submit, Idle
<1> QED BY <1>8, <1>10, <1>11 DEF ContextInv

\* A run ends: its last message is behind all others.
LEMMA EndRunStep ==
    ASSUME ContextInv, EndRun
    PROVE  ContextInv'
<1>1. /\ RunsTyped /\ RunsOrdered /\ SummaryFits /\ CoveredWasReadOrInside
      /\ runs \in Seq(RunRow) /\ Len(runs) \in Nat /\ DOMAIN runs = 1..Len(runs)
      /\ current \in DOMAIN runs /\ runs[current].open
    BY RowsAre DEF ContextInv, RunsTyped, RunRow, EndRun
<1>2. LastSeq \in Nat /\ \A r \in DOMAIN runs : runs[r].last <= LastSeq
    BY <1>1, LastSeqIs
<1> DEFINE ended == Ended(runs[current], LastSeq + 1)
<1>3. runs[current] \in RunRow
    BY <1>1
<1>4. ended \in RunRow /\ ended.first = runs[current].first /\ ended.last > LastSeq /\ ~ended.open
    <2>1. LastSeq + 1 \in Nat /\ LastSeq + 1 > LastSeq
        BY <1>2
    <2>2. /\ ended \in RunRow /\ ended.first = runs[current].first
          /\ ended.last = LastSeq + 1 /\ ~ended.open
        BY <1>3, <2>1, EndedIs
    <2> QED BY <2>1, <2>2
<1>5. runs' = [runs EXCEPT ![current] = ended]
    BY <1>1, <1>3 DEF EndRun, RunRow, Ended
<1> HIDE DEF ended
<1>6. /\ runs' \in Seq(RunRow) /\ DOMAIN runs' = DOMAIN runs
      /\ runs'[current] = ended /\ \A r \in DOMAIN runs : r # current => runs'[r] = runs[r]
    BY <1>1, <1>4, <1>5
<1>7. RunsTyped'
    BY <1>6 DEF RunsTyped, RunRow, EndRun, Idle
<1>8. Grows
    BY <1>1, <1>4, <1>6 DEF Grows
<1>9. \A r, q \in DOMAIN runs : runs'[r] # runs[r] /\ runs'[q] # runs[q] => r = q
    BY <1>6
<1>10. RunsOrdered'
    <2>1. \A r, q \in DOMAIN runs :
             r < q /\ runs'[r] # runs[r] /\ runs'[q] # runs[q] => runs'[r].last # runs'[q].last
        BY <1>1, <1>9
    <2> QED BY <1>1, <1>6, <1>7, <1>8, <2>1, GrowsOrders
<1>11. SummaryFits' /\ AskedFits' /\ CoveredWasReadOrInside' /\ RequestIsHonest'
    BY <1>1, <1>7, <1>8, GrowsKeeps DEF EndRun, Idle
<1> QED BY <1>7, <1>10, <1>11 DEF ContextInv

\* Its row cannot be written: it stays open, and nothing else is different.
LEMMA EndFaultStep ==
    ASSUME ContextInv, EndFault
    PROVE  ContextInv'
<1>1. RunsTyped /\ RunsOrdered /\ SummaryFits /\ CoveredWasReadOrInside
    BY DEF ContextInv
<1>2. RunsTyped' /\ RunsOrdered'
    BY <1>1 DEF RunsTyped, RunsOrdered, EndFault, Idle
<1>3. Grows
    BY DEF EndFault, Grows
<1>4. SummaryFits' /\ AskedFits' /\ CoveredWasReadOrInside' /\ RequestIsHonest'
    BY <1>1, <1>2, <1>3, GrowsKeeps DEF EndFault, Idle
<1> QED BY <1>2, <1>4 DEF ContextInv

\* A restart ends the open runs in their order, each behind the one before it.
LEMMA RestartStep ==
    ASSUME ContextInv, Restart
    PROVE  ContextInv'
<1> DEFINE Open(r) == {q \in 1..r : runs[q].open}
           ended(r) == Ended(runs[r], LastSeq + Cardinality(Open(r)))
<1>1. /\ RunsTyped /\ RunsOrdered /\ SummaryFits /\ CoveredWasReadOrInside
      /\ runs \in Seq(RunRow) /\ Len(runs) \in Nat /\ DOMAIN runs = 1..Len(runs)
      /\ \A r \in DOMAIN runs : runs[r] \in RunRow /\ r \in Nat \ {0}
    BY RowsAre DEF ContextInv, RunsTyped, RunRow
<1>2. LastSeq \in Nat /\ \A r \in DOMAIN runs : runs[r].last <= LastSeq
    BY <1>1, LastSeqIs
<1>3. \A r \in DOMAIN runs : IsFiniteSet(Open(r)) /\ Cardinality(Open(r)) \in Nat
    <2> SUFFICES ASSUME NEW r \in DOMAIN runs
                 PROVE  IsFiniteSet(Open(r)) /\ Cardinality(Open(r)) \in Nat
        OBVIOUS
    <2>1. IsFiniteSet(1..r)
        BY <1>1, FS_Interval
    <2>2. IsFiniteSet(Open(r))
        BY <2>1, FS_Subset
    <2> QED BY <2>2, FS_CardinalityType
<1>4. ASSUME NEW r \in DOMAIN runs, runs[r].open
      PROVE  Cardinality(Open(r)) > 0
    <2>1. r \in Open(r)
        BY <1>1, <1>4
    <2> HIDE DEF Open
    <2>2. Cardinality(Open(r)) # 0
        BY <1>3, <2>1, FS_EmptySet
    <2> QED BY <1>3, <2>2
<1>5. ASSUME NEW r \in DOMAIN runs, NEW q \in DOMAIN runs, r < q, runs[q].open
      PROVE  Cardinality(Open(r)) < Cardinality(Open(q))
    <2>1. Open(r) \in SUBSET Open(q) /\ q \in Open(q) /\ q \notin Open(r)
        BY <1>1, <1>5
    <2> HIDE DEF Open
    <2>2. /\ Cardinality(Open(r)) <= Cardinality(Open(q))
          /\ Cardinality(Open(r)) # Cardinality(Open(q))
        BY <1>3, <2>1, FS_Subset
    <2> QED BY <1>3, <2>2
<1> HIDE DEF Open
<1>6. \A r \in DOMAIN runs : runs[r].open =>
         /\ ended(r) \in RunRow /\ ended(r).first = runs[r].first /\ ~ended(r).open
         /\ ended(r).last = LastSeq + Cardinality(Open(r)) /\ ended(r).last > LastSeq
    <2> SUFFICES ASSUME NEW r \in DOMAIN runs, runs[r].open
                 PROVE  /\ ended(r) \in RunRow /\ ended(r).first = runs[r].first /\ ~ended(r).open
                        /\ ended(r).last = LastSeq + Cardinality(Open(r)) /\ ended(r).last > LastSeq
        OBVIOUS
    <2>1. /\ LastSeq + Cardinality(Open(r)) \in Nat
          /\ LastSeq + Cardinality(Open(r)) > LastSeq /\ runs[r] \in RunRow
        BY <1>1, <1>2, <1>3, <1>4
    <2> QED BY <2>1, EndedIs
<1>7. runs' = [r \in DOMAIN runs |-> IF runs[r].open THEN ended(r) ELSE runs[r]]
    BY DEF Restart, Open, Ended
<1> HIDE DEF ended
<1>8. /\ runs' \in Seq(RunRow) /\ DOMAIN runs' = DOMAIN runs
      /\ \A r \in DOMAIN runs : runs'[r] = IF runs[r].open THEN ended(r) ELSE runs[r]
    BY <1>1, <1>6, <1>7
<1>9. RunsTyped'
    BY <1>8 DEF RunsTyped, RunRow, Restart, Idle
<1>10. Grows
    BY <1>6, <1>8 DEF Grows
<1>11. RunsOrdered'
    <2>1. ASSUME NEW r \in DOMAIN runs, NEW q \in DOMAIN runs, r < q,
                 runs'[r] # runs[r], runs'[q] # runs[q]
          PROVE  runs'[r].last # runs'[q].last
        <3>1. /\ runs[r].open /\ runs[q].open
              /\ runs'[r].last = LastSeq + Cardinality(Open(r))
              /\ runs'[q].last = LastSeq + Cardinality(Open(q))
            BY <1>6, <1>8, <2>1
        <3>2. Cardinality(Open(r)) < Cardinality(Open(q))
            BY <1>5, <2>1, <3>1
        <3> QED BY <1>2, <1>3, <3>1, <3>2
    <2> QED BY <1>1, <1>8, <1>9, <1>10, <2>1, GrowsOrders
<1>12. SummaryFits' /\ AskedFits' /\ CoveredWasReadOrInside' /\ RequestIsHonest'
    BY <1>1, <1>9, <1>10, GrowsKeeps DEF Restart, Idle
<1> QED BY <1>9, <1>11, <1>12 DEF ContextInv

-----------------------------------------------------------------------------
(* The steps of the builder.  They leave the session as it is, and with it *)
(* what it takes and which runs a summary would be made from.              *)

\* While neither the runs nor the run that builds change, nothing read off them does.
LEMMA SameSession ==
    ASSUME UNCHANGED <<runs, current>>
    PROVE  /\ LastSeq' = LastSeq /\ History' = History
           /\ UNCHANGED summary => Taken' = Taken
           /\ RunsOrdered => RunsOrdered'
           /\ RunsTyped /\ tried' \in BOOLEAN => RunsTyped'
<1>1. LastSeq' = LastSeq
    BY DEF LastSeq
<1>2. History' = History
    BY DEF History
<1>3. ASSUME UNCHANGED summary
      PROVE  Taken' = Taken
    <2>1. Candidates' = Candidates
        BY <1>2, <1>3 DEF Candidates, Behind, Latest
    <2>2. \A S : Total(S)' = Total(S)
        BY TotalStays
    <2> QED BY <1>3, <2>1, <2>2 DEF Taken, One
<1>4. (RunsOrdered => RunsOrdered') /\ (RunsTyped /\ tried' \in BOOLEAN => RunsTyped')
    BY DEF RunsOrdered, RunsTyped
<1> QED BY <1>1, <1>2, <1>3, <1>4

\* A request is built, or a summary of what is taken is asked for.
LEMMA BuildStep ==
    ASSUME ContextInv, NEW own \in Sizes, Build(own) \/ AskSummary(own)
    PROVE  ContextInv'
<1>1. /\ RunsTyped /\ RunsOrdered /\ SummaryFits /\ CoveredWasReadOrInside
      /\ own \in Nat /\ own <= Limit /\ own \in Sizes
    BY SizesAreNaturals DEF ContextInv, Build, AskSummary, Builds
<1>2. UNCHANGED <<runs, current, summary, source>>
    BY DEF Build, AskSummary
<1>3. RunsTyped' /\ RunsOrdered' /\ Taken' = Taken /\ LastSeq' = LastSeq
    <2>1. tried' \in BOOLEAN
        BY <1>1 DEF Build, AskSummary, RunsTyped
    <2> QED BY <1>1, <1>2, <2>1, SameSession
<1>4. SummaryFits'
    BY <1>1, <1>2, <1>3 DEF SummaryFits
<1>5. CoveredWasReadOrInside'
    BY <1>1, <1>2 DEF CoveredWasReadOrInside, Inside
<1>6. CASE Build(own)
    <2>1. AskedFits'
        BY <1>6 DEF Build, Builds, AskedFits
    <2>2. RequestIsHonest'
        BY <1>1, <1>2, <1>6, BuiltHonest DEF Build, SummaryFits
    <2> QED BY <1>3, <1>4, <1>5, <2>1, <2>2 DEF ContextInv
<1>7. CASE AskSummary(own)
    <2>1. AskedFits'
        <3>1. /\ asked'.runs = Taken /\ asked'.covered = runs[Max(Taken)].last /\ asked'.size = own
              /\ current # 0 /\ Taken # {}
            BY <1>7 DEF AskSummary, Builds
        <3> QED BY <1>1, <1>2, <1>3, <3>1 DEF AskedFits
    <2>2. RequestIsHonest'
        BY <1>7 DEF AskSummary, RequestIsHonest
    <2> QED BY <1>3, <1>4, <1>5, <2>1, <2>2 DEF ContextInv
<1> QED BY <1>6, <1>7

\* The summary stays what it was: so does the rest, and a request is built with it.
LEMMA KeepSummaryStep ==
    ASSUME ContextInv, KeepSummary
    PROVE  ContextInv'
<1>1. /\ RunsTyped /\ RunsOrdered /\ SummaryFits /\ CoveredWasReadOrInside
      /\ asked.size \in Nat /\ asked.size <= Limit
    BY SizesAreNaturals DEF ContextInv, AskedFits, KeepSummary
<1>2. UNCHANGED <<runs, current, summary, source, tried>> /\ asked' = Nothing
    BY DEF KeepSummary
<1>3. RunsTyped' /\ RunsOrdered' /\ LastSeq' = LastSeq
    <2>1. tried' \in BOOLEAN
        BY <1>1, <1>2 DEF RunsTyped
    <2> QED BY <1>1, <1>2, <2>1, SameSession
<1>4. SummaryFits' /\ AskedFits'
    BY <1>1, <1>2, <1>3 DEF SummaryFits, AskedFits
<1>5. CoveredWasReadOrInside'
    BY <1>1, <1>2 DEF CoveredWasReadOrInside, Inside
<1>6. RequestIsHonest'
    BY <1>1, <1>2, BuiltHonest DEF KeepSummary, SummaryFits
<1> QED BY <1>3, <1>4, <1>5, <1>6 DEF ContextInv

\* Every ended run that a summary of what is taken would newly cover is taken, or lies
\* inside the last one that is: the candidates are taken from the oldest on.
LEMMA TakenIsCovered ==
    ASSUME RunsTyped, RunsOrdered, SummaryFits, current # 0, Taken # {},
           NEW r \in DOMAIN runs, ~runs[r].open,
           runs[r].last > summary.covered, runs[r].last <= runs[Max(Taken)].last
    PROVE  r \in Taken \/ Inside(r, Max(Taken))
<1> DEFINE m == Max(Taken)
           B == Behind(summary.covered)
           UpTo(p) == {q \in Candidates : q <= p}
           taken(p) == One(summary.covered > 0) + Total(UpTo(p)) <= SummaryLimit
<1>1. /\ m \in Taken /\ m \in Candidates /\ m \in B /\ m \in History
      /\ m \in DOMAIN runs /\ ~runs[m].open
    BY SetsAre
<1> HIDE DEF m
<1>2. /\ r \in Nat /\ m \in Nat /\ current \in DOMAIN runs /\ runs[current].open
      /\ runs[r].last \in Nat /\ runs[m].last \in Nat /\ runs[r].last <= runs[m].last
      /\ runs[r].first \in Nat /\ runs[m].first \in Nat /\ runs[current].first \in Nat
    <2>1. current \in DOMAIN runs /\ runs[current].open /\ runs[r].last <= runs[m].last
        BY DEF RunsTyped, m
    <2> QED BY <1>1, <2>1, RowsAre
<1>3. r \in B
    <2>1. runs[m].last < runs[current].first
        BY <1>1 DEF History
    <2>2. r # current /\ runs[r].last < runs[current].first
        BY <1>2, <2>1
    <2> QED BY <2>2 DEF Behind, History
<1>4. CASE r <= m
    <2>1. IsFiniteSet(B) /\ B \subseteq Nat /\ IsFiniteSet(Candidates) /\ Candidates \subseteq DOMAIN runs
        <3>1. /\ IsFiniteSet(B) /\ IsFiniteSet(Candidates)
              /\ B \subseteq DOMAIN runs /\ Candidates \subseteq DOMAIN runs
            BY SetsAre
        <3> QED BY <3>1, RowsAre
    <2> HIDE DEF B
    <2>2. r \in Candidates
        <3>1. m \notin Latest(B, RecentRuns)
            BY <1>1 DEF Candidates, B
        <3>2. r = m \/ m > r
            BY <1>2, <1>4
        <3>3. r \notin Latest(B, RecentRuns)
            BY <1>1, <2>1, <3>1, <3>2, LatestIs, SizesAreNaturals
        <3> QED BY <1>3, <3>3 DEF Candidates, B
    <2>3. taken(m)
        BY <1>1 DEF Taken
    <2>4. UpTo(r) \in SUBSET UpTo(m) /\ IsFiniteSet(UpTo(m))
        <3>1. \A q \in Candidates : q \in Nat
            BY <2>1, RowsAre
        <3>2. \A q \in Candidates : q <= r => q <= m
            BY <1>2, <1>4, <3>1
        <3>3. IsFiniteSet(UpTo(m))
            BY <2>1, FS_Subset
        <3> QED BY <3>2, <3>3
    <2>5. \A q \in UpTo(m) : runs[q].size \in Nat
        BY <2>1, RowsAre
    <2> HIDE DEF UpTo
    <2>6. Total(UpTo(r)) \in Nat /\ Total(UpTo(m)) \in Nat /\ Total(UpTo(r)) <= Total(UpTo(m))
        BY <2>4, <2>5, TotalGrows
    <2>7. taken(r)
        BY <2>3, <2>6, SizesAreNaturals DEF One
    <2> QED BY <2>2, <2>7 DEF Taken, UpTo
<1>5. CASE m < r
    <2>1. runs[m].first < runs[r].first
        BY <1>1, <1>5 DEF RunsOrdered
    <2>2. runs[r].last # runs[m].last
        BY <1>1, <1>2, <1>5 DEF RunsOrdered
    <2> QED BY <1>2, <2>1, <2>2 DEF Inside, m
<1> QED BY <1>2, <1>4, <1>5

\* A valid summary becomes the active one: what it covers was read for it.
LEMMA SaveSummaryStep ==
    ASSUME ContextInv, NEW quotes \in SUBSET Quotable, SaveSummary(quotes)
    PROVE  ContextInv'
<1>1. /\ RunsTyped /\ RunsOrdered /\ SummaryFits /\ CoveredWasReadOrInside
      /\ current # 0 /\ Taken # {}
      /\ asked.runs = Taken /\ asked.covered = runs[Max(Taken)].last
      /\ asked.size \in Nat /\ asked.size <= Limit
    BY SizesAreNaturals DEF ContextInv, AskedFits, SaveSummary
<1>2. /\ UNCHANGED <<runs, current, tried>> /\ asked' = Nothing
      /\ summary'.covered = asked.covered /\ summary'.quotes = quotes
      /\ source' = source \cup Taken /\ request' = Fit(asked.size, summary') /\ Valid(quotes)
    BY <1>1 DEF SaveSummary
<1>3. RunsTyped' /\ RunsOrdered' /\ LastSeq' = LastSeq
    <2>1. tried' \in BOOLEAN
        BY <1>1, <1>2 DEF RunsTyped
    <2> QED BY <1>1, <1>2, <2>1, SameSession
<1>4. Max(Taken) \in Taken /\ Taken \subseteq DOMAIN runs
    BY <1>1, SetsAre
<1>5. asked.covered \in Nat /\ asked.covered <= LastSeq
    BY <1>1, <1>4, LastSeqIs, RowsAre
<1>6. SummaryFits'
    BY <1>1, <1>2, <1>3, <1>4, <1>5 DEF SummaryFits
<1>7. AskedFits'
    BY <1>2 DEF AskedFits
<1>8. CoveredWasReadOrInside'
    <2>1. ASSUME NEW r \in DOMAIN runs, ~runs[r].open, runs[r].last <= asked.covered
          PROVE  r \in source' \/ \E q \in source' : Inside(r, q)
        <3>1. CASE runs[r].last <= summary.covered
            BY <1>1, <1>2, <2>1, <3>1 DEF CoveredWasReadOrInside
        <3>2. CASE runs[r].last > summary.covered
            BY <1>1, <1>2, <1>4, <2>1, <3>2, TakenIsCovered
        <3>3. runs[r].last \in Nat /\ summary.covered \in Nat
            BY <1>1, RowsAre DEF SummaryFits
        <3> QED BY <3>1, <3>2, <3>3
    <2>2. ASSUME NEW r \in quotes
          PROVE  r \in source' /\ runs[r].first <= asked.covered
        <3>1. r \in summary.quotes \cup Taken
            BY <1>1 DEF Quotable
        <3> QED BY <1>1, <1>2, <3>1 DEF Valid, CoveredWasReadOrInside
    <2> QED BY <1>2, <2>1, <2>2 DEF CoveredWasReadOrInside, Inside
<1>9. RequestIsHonest'
    BY <1>1, <1>2, <1>5, BuiltHonest
<1> QED BY <1>3, <1>6, <1>7, <1>8, <1>9 DEF ContextInv

-----------------------------------------------------------------------------
(* The theorems.                                                           *)

\* A session without runs satisfies the invariant.
LEMMA ContextInitial == ContextInit => ContextInv
<1> SUFFICES ASSUME ContextInit
             PROVE  ContextInv
    OBVIOUS
<1>1. RunsTyped
    <2>1. runs = <<>> /\ current = 0 /\ tried = FALSE
        BY DEF ContextInit
    <2>2. <<>> \in Seq(RunRow)
        OBVIOUS
    <2> QED BY <2>1, <2>2 DEF RunsTyped, RunRow
<1>2. DOMAIN runs = {} /\ LastSeq \in Nat
    BY <1>1, LastSeqIs DEF ContextInit
<1>3. RunsOrdered /\ SummaryFits /\ AskedFits /\ CoveredWasReadOrInside /\ RequestIsHonest
    BY <1>2 DEF ContextInit, RunsOrdered, SummaryFits, AskedFits, CoveredWasReadOrInside, RequestIsHonest
<1> QED BY <1>1, <1>3 DEF ContextInv

\* Every step of the session and of the builder keeps the inductive invariant.
LEMMA ContextStep == ContextInv /\ [ContextNext]_vars => ContextInv'
<1> SUFFICES ASSUME ContextInv, [ContextNext]_vars
             PROVE  ContextInv'
    OBVIOUS
<1>1. ASSUME NEW size \in Sizes, Submit(size) \/ Build(size) \/ AskSummary(size)
      PROVE  ContextInv'
    BY <1>1, SubmitStep, BuildStep
<1>2. ASSUME NEW quotes \in SUBSET Quotable, SaveSummary(quotes)
      PROVE  ContextInv'
    BY <1>2, SaveSummaryStep
<1>3. CASE KeepSummary
    BY <1>3, KeepSummaryStep
<1>4. CASE EndRun \/ EndFault \/ Restart
    BY <1>4, EndRunStep, EndFaultStep, RestartStep
<1>5. CASE UNCHANGED vars
    <2>1. \A S : Total(S)' = Total(S)
        BY <1>5, TotalStays DEF vars
    <2>2. /\ RunsTyped' /\ RunsOrdered' /\ LastSeq' = LastSeq /\ History' = History /\ Taken' = Taken
        BY <1>5, SameSession DEF ContextInv, RunsTyped, vars
    <2>3. SummaryFits' /\ AskedFits'
        BY <1>5, <2>2 DEF ContextInv, SummaryFits, AskedFits, vars
    <2>4. CoveredWasReadOrInside'
        BY <1>5 DEF ContextInv, CoveredWasReadOrInside, Inside, vars
    <2>5. RequestIsHonest'
        BY <1>5, <2>1, <2>2 DEF ContextInv, RequestIsHonest, Behind, One, vars
    <2> QED BY <2>2, <2>3, <2>4, <2>5 DEF ContextInv
<1> QED BY <1>1, <1>2, <1>3, <1>4, <1>5 DEF ContextNext

\* It holds throughout.
LEMMA ContextInvariant == ContextSpec => []ContextInv
BY ContextInitial, ContextStep, PTL DEF ContextSpec

\* Type correctness, with what the builder holds: a run that builds is open, a summary
\* covers nothing that is not there, and only ended runs are sent to be summarised.
THEOREM ContextTyping == ContextSpec => []ContextTypeOK
<1>1. ASSUME ContextInv
      PROVE  ContextTypeOK
    <2>1. RunsTyped /\ SummaryFits /\ AskedFits
        BY <1>1 DEF ContextInv
    <2>2. LastSeq \in Nat /\ \A r \in DOMAIN runs : runs[r].last <= LastSeq
        BY <2>1, LastSeqIs
    <2>3. asked.covered <= LastSeq /\ asked.runs \subseteq {r \in DOMAIN runs : ~runs[r].open}
        <3>1. CASE asked = Nothing
            BY <2>2, <3>1 DEF Nothing
        <3>2. CASE asked # Nothing
            <4>1. /\ Max(Taken) \in Taken /\ Taken \subseteq Candidates
                  /\ Candidates \subseteq Behind(summary.covered)
                  /\ Behind(summary.covered) \subseteq History
                  /\ History \subseteq {r \in DOMAIN runs : ~runs[r].open}
                BY <2>1, <3>2, SetsAre DEF AskedFits
            <4> QED BY <2>1, <2>2, <3>2, <4>1 DEF AskedFits
        <3> QED BY <3>1, <3>2
    <2> QED BY <2>1, <2>3 DEF ContextTypeOK, RunsTyped, SummaryFits
<1> QED BY <1>1, ContextInvariant, PTL

\* What the active summary covers, and therefore never comes back into a request, was read
\* for it or for one that it was made from, whatever the sizes and limits are, and however
\* runs end, fail to end or are ended by restarts while a summary is asked for.
THEOREM CoveredIsRead == ContextSpec => []CoveredWasReadOrInside
<1>1. ContextInv => CoveredWasReadOrInside
    BY DEF ContextInv
<1> QED BY <1>1, ContextInvariant, PTL

\* No request exceeds its limit, shows a run that is covered or not over, skips one between
\* two that it shows, or leaves something out without a notice that there was room for.
THEOREM RequestsAreHonest == ContextSpec => []RequestIsHonest
<1>1. ContextInv => RequestIsHonest
    BY DEF ContextInv
<1> QED BY <1>1, ContextInvariant, PTL

=============================================================================
