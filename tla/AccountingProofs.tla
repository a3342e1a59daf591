-------------------------- MODULE AccountingProofs --------------------------
(***************************************************************************)
(* How stock and orders belong together, by what the audit trail says: who *)
(* has been deducted and restored, and where every unit is.                *)
(*                                                                         *)
(* The arguments count lines of the trail and sum columns, one commit at a *)
(* time.  The first section is about sums alone, for every function of     *)
(* integers: SumFunctionOnSet takes the elements of a set in an order of   *)
(* its own; the lemmas say that the order does not matter and let the      *)
(* other proofs add one element.  Each of their inductions looks at a      *)
(* smallest subset for which the claim fails.                              *)
(***************************************************************************)
EXTENDS StockAccounting, InventoryProofs, FiniteSetTheorems

Chosen(s) == CHOOSE x \in s : TRUE

\* iter is the recursive function by which the sums of f over subsets of S are defined.
SumsUp(f, S, iter) ==
    iter = [s \in SUBSET S |->
                IF s = {} THEN 0 ELSE f[Chosen(s)] + iter[s \ {Chosen(s)}]]

\* A property of subsets that fails, fails for a smallest one.
LEMMA SmallestSubset ==
    ASSUME NEW S, IsFiniteSet(S), NEW T \in SUBSET SUBSET S, T # {}
    PROVE  \E s \in T : \A r \in SUBSET s : r # s => r \notin T
<1>1. IsWellFoundedOn(StrictSubsetOrdering(S), SUBSET S)
  BY FS_StrictSubsetOrderingWellFounded, FS_FiniteSubsetsOfFinite
<1>2. PICK s \in T : \A r \in T : ~ (<<r, s>> \in StrictSubsetOrdering(S))
  BY <1>1, WFMin
<1>3. ASSUME NEW r \in SUBSET s, r # s, r \in T PROVE FALSE
  <2>1. <<r, s>> \in StrictSubsetOrdering(S)
    BY <1>3 DEF StrictSubsetOrdering
  <2> QED
    BY <1>2, <1>3, <2>1
<1> QED
  BY <1>2, <1>3

\* What the definition unfolds to.
LEMMA SumIsChosen ==
    ASSUME NEW f, NEW S
    PROVE  SumFunctionOnSet(f, S) = (CHOOSE iter : SumsUp(f, S, iter))[S]
BY DEF SumFunctionOnSet, FoldFunctionOnSet, MapThenFoldSet, SumsUp, Chosen

\* Two such functions agree wherever both are defined.
LEMMA SumsAgree ==
    ASSUME NEW f, NEW S, NEW R, NEW g, NEW h, SumsUp(f, S, g), SumsUp(f, R, h),
           NEW q \in SUBSET S, q \in SUBSET R, IsFiniteSet(q)
    PROVE  g[q] = h[q]
<1> DEFINE T == {s \in SUBSET q : g[s] # h[s]}
<1> SUFFICES ASSUME T # {} PROVE FALSE
  OBVIOUS
<1>1. PICK s \in T : \A r \in SUBSET s : r # s => r \notin T
  <2>1. T \in SUBSET SUBSET q
    OBVIOUS
  <2> HIDE DEF T
  <2> QED
    BY <2>1, SmallestSubset
<1>2. s \in SUBSET S /\ s \in SUBSET R /\ g[s] # h[s]
  BY <1>1
<1>3. /\ g[s] = IF s = {} THEN 0 ELSE f[Chosen(s)] + g[s \ {Chosen(s)}]
      /\ h[s] = IF s = {} THEN 0 ELSE f[Chosen(s)] + h[s \ {Chosen(s)}]
  BY <1>2 DEF SumsUp
<1>4. s # {} /\ g[s \ {Chosen(s)}] # h[s \ {Chosen(s)}]
  BY <1>2, <1>3
<1>5. Chosen(s) \in s
  BY <1>4 DEF Chosen
<1> QED
  BY <1>1, <1>4, <1>5

\* Where the sums exist for a set and for what is left of it, one is made of the other.
LEMMA SumUnfolds ==
    ASSUME NEW f, NEW S, IsFiniteSet(S), \A r \in SUBSET S : \E iter : SumsUp(f, r, iter)
    PROVE  SumFunctionOnSet(f, S) =
               IF S = {} THEN 0
               ELSE f[Chosen(S)] + SumFunctionOnSet(f, S \ {Chosen(S)})
<1> DEFINE rest == S \ {Chosen(S)}
           g == CHOOSE iter : SumsUp(f, S, iter)
           h == CHOOSE iter : SumsUp(f, rest, iter)
<1>1. SumsUp(f, S, g) /\ SumsUp(f, rest, h)
  OBVIOUS
<1>2. SumFunctionOnSet(f, S) = g[S] /\ SumFunctionOnSet(f, rest) = h[rest]
  BY SumIsChosen
<1>3. IsFiniteSet(rest)
  BY FS_Subset
<1> HIDE DEF g, h
<1>4. g[rest] = h[rest]
  BY <1>1, <1>3, SumsAgree
<1>5. g[S] = IF S = {} THEN 0 ELSE f[Chosen(S)] + g[rest]
  BY <1>1 DEF SumsUp
<1> QED
  BY <1>2, <1>4, <1>5

\* The recursion is well founded: over a finite set there is such a function.
LEMMA SumsExist ==
    ASSUME NEW f, NEW S, IsFiniteSet(S)
    PROVE  \E iter : SumsUp(f, S, iter)
<1> DEFINE T == {s \in SUBSET S : ~ \E iter : SumsUp(f, s, iter)}
<1> SUFFICES ASSUME T # {} PROVE FALSE
  OBVIOUS
<1>1. PICK s \in T : \A r \in SUBSET s : r # s => r \notin T
  <2>1. T \in SUBSET SUBSET S
    OBVIOUS
  <2> HIDE DEF T
  <2> QED
    BY <2>1, SmallestSubset
<1>2. s \in SUBSET S /\ ~ \E iter : SumsUp(f, s, iter)
  BY <1>1
<1>3. ASSUME NEW r \in SUBSET s, r # s PROVE \E iter : SumsUp(f, r, iter)
  BY <1>1, <1>3
<1> DEFINE it == [r \in SUBSET s |->
                     IF r = {} THEN 0
                     ELSE f[Chosen(r)] + SumFunctionOnSet(f, r \ {Chosen(r)})]
<1>4. ASSUME NEW r \in SUBSET s, r # s PROVE it[r] = SumFunctionOnSet(f, r)
  <2>1. IsFiniteSet(r)
    BY <1>2, FS_Subset
  <2>2. \A q \in SUBSET r : \E iter : SumsUp(f, q, iter)
    BY <1>3, <1>4
  <2> QED
    BY <2>1, <2>2, SumUnfolds
<1>5. ASSUME NEW r \in SUBSET s
      PROVE  it[r] = IF r = {} THEN 0 ELSE f[Chosen(r)] + it[r \ {Chosen(r)}]
  <2>1. CASE r # {}
    <3>1. Chosen(r) \in r
      BY <2>1 DEF Chosen
    <3>2. r \ {Chosen(r)} \in SUBSET s /\ r \ {Chosen(r)} # s
      BY <3>1
    <3> QED
      BY <1>4, <2>1, <3>2
  <2> QED
    BY <2>1
<1>6. SumsUp(f, s, it)
  <2> HIDE DEF it
  <2>1. it = [r \in SUBSET s |-> it[r]]
    BY DEF it
  <2> QED
    BY <1>5, <2>1 DEF SumsUp
<1> QED
  BY <1>2, <1>6

-----------------------------------------------------------------------------
(* The facts that the other proofs cite.                                   *)

\* Nothing adds up to nothing.
LEMMA SumEmpty == ASSUME NEW f PROVE SumFunctionOnSet(f, {}) = 0
BY SumsExist, SumUnfolds, FS_EmptySet

\* The element that the definition takes first.
LEMMA SumChosen ==
    ASSUME NEW f, NEW S, IsFiniteSet(S), S # {}
    PROVE  /\ Chosen(S) \in S
           /\ SumFunctionOnSet(f, S) = f[Chosen(S)] + SumFunctionOnSet(f, S \ {Chosen(S)})
<1>1. \A r \in SUBSET S : \E iter : SumsUp(f, r, iter)
  BY SumsExist, FS_Subset
<1> QED
  BY <1>1, SumUnfolds DEF Chosen

\* A sum of integers is an integer.
LEMMA SumInt ==
    ASSUME NEW f, NEW S, IsFiniteSet(S), \A x \in S : f[x] \in Int
    PROVE  SumFunctionOnSet(f, S) \in Int
<1> DEFINE T == {s \in SUBSET S : SumFunctionOnSet(f, s) \notin Int}
<1> SUFFICES ASSUME T # {} PROVE FALSE
  OBVIOUS
<1>1. PICK s \in T : \A r \in SUBSET s : r # s => r \notin T
  <2>1. T \in SUBSET SUBSET S
    OBVIOUS
  <2> HIDE DEF T
  <2> QED
    BY <2>1, SmallestSubset
<1>2. s \in SUBSET S /\ IsFiniteSet(s) /\ SumFunctionOnSet(f, s) \notin Int
  BY <1>1, FS_Subset
<1>3. s # {}
  BY <1>2, SumEmpty
<1>4. /\ Chosen(s) \in s
      /\ SumFunctionOnSet(f, s) = f[Chosen(s)] + SumFunctionOnSet(f, s \ {Chosen(s)})
  BY <1>2, <1>3, SumChosen
<1>5. SumFunctionOnSet(f, s \ {Chosen(s)}) \in Int
  BY <1>1, <1>4
<1> QED
  BY <1>2, <1>4, <1>5

\* The order does not matter: any element may be taken out.
LEMMA SumRemove ==
    ASSUME NEW f, NEW S, IsFiniteSet(S), \A x \in S : f[x] \in Int, NEW a \in S
    PROVE  SumFunctionOnSet(f, S) = f[a] + SumFunctionOnSet(f, S \ {a})
<1> DEFINE T == {s \in SUBSET S :
                   \E x \in s : SumFunctionOnSet(f, s) # f[x] + SumFunctionOnSet(f, s \ {x})}
<1> SUFFICES ASSUME T # {} PROVE FALSE
  OBVIOUS
<1>1. PICK s \in T : \A r \in SUBSET s : r # s => r \notin T
  <2>1. T \in SUBSET SUBSET S
    OBVIOUS
  <2> HIDE DEF T
  <2> QED
    BY <2>1, SmallestSubset
<1>2. PICK x \in s : SumFunctionOnSet(f, s) # f[x] + SumFunctionOnSet(f, s \ {x})
  BY <1>1
<1>3. s \in SUBSET S /\ IsFiniteSet(s)
  BY <1>1, FS_Subset
<1> DEFINE c == Chosen(s)
           rest == s \ {c, x}
<1>4. c \in s /\ SumFunctionOnSet(f, s) = f[c] + SumFunctionOnSet(f, s \ {c})
  BY <1>2, <1>3, SumChosen
<1> HIDE DEF c
<1>5. c # x
  BY <1>2, <1>4
<1>6. /\ SumFunctionOnSet(f, s \ {c}) = f[x] + SumFunctionOnSet(f, rest)
      /\ SumFunctionOnSet(f, s \ {x}) = f[c] + SumFunctionOnSet(f, rest)
  <2>1. s \ {c} \notin T /\ s \ {x} \notin T
    BY <1>1, <1>2, <1>4
  <2>2. x \in s \ {c} /\ c \in s \ {x} /\ s \ {c} \in SUBSET S /\ s \ {x} \in SUBSET S
    BY <1>2, <1>3, <1>4, <1>5
  <2>3. (s \ {c}) \ {x} = rest /\ (s \ {x}) \ {c} = rest
    OBVIOUS
  <2>4. /\ SumFunctionOnSet(f, s \ {c}) = f[x] + SumFunctionOnSet(f, (s \ {c}) \ {x})
        /\ SumFunctionOnSet(f, s \ {x}) = f[c] + SumFunctionOnSet(f, (s \ {x}) \ {c})
    BY <2>1, <2>2
  <2> QED
    BY <2>3, <2>4
<1>7. f[c] \in Int /\ f[x] \in Int /\ SumFunctionOnSet(f, rest) \in Int
  <2>1. IsFiniteSet(rest) /\ rest \in SUBSET S
    BY <1>3, FS_Subset
  <2> QED
    BY <1>2, <1>3, <1>4, <2>1, SumInt
<1> QED
  BY <1>2, <1>4, <1>6, <1>7

\* One more element.
LEMMA SumAdd ==
    ASSUME NEW f, NEW S, IsFiniteSet(S), NEW a, a \notin S,
           \A x \in S \cup {a} : f[x] \in Int
    PROVE  SumFunctionOnSet(f, S \cup {a}) = SumFunctionOnSet(f, S) + f[a]
<1>1. IsFiniteSet(S \cup {a}) /\ (S \cup {a}) \ {a} = S
  BY FS_AddElement
<1>2. SumFunctionOnSet(f, S \cup {a}) = f[a] + SumFunctionOnSet(f, S)
  BY <1>1, SumRemove
<1>3. SumFunctionOnSet(f, S) \in Int /\ f[a] \in Int
  BY SumInt
<1> QED
  BY <1>2, <1>3

\* A sum depends on the function only where it is taken; smaller terms, smaller sum.
LEMMA SumMonotone ==
    ASSUME NEW f, NEW g, NEW S, IsFiniteSet(S),
           \A x \in S : f[x] \in Int /\ g[x] \in Int /\ f[x] <= g[x]
    PROVE  SumFunctionOnSet(f, S) <= SumFunctionOnSet(g, S)
<1> DEFINE T == {s \in SUBSET S : ~ (SumFunctionOnSet(f, s) <= SumFunctionOnSet(g, s))}
<1> SUFFICES ASSUME T # {} PROVE FALSE
  OBVIOUS
<1>1. PICK s \in T : \A r \in SUBSET s : r # s => r \notin T
  <2>1. T \in SUBSET SUBSET S
    OBVIOUS
  <2> HIDE DEF T
  <2> QED
    BY <2>1, SmallestSubset
<1>2. /\ s \in SUBSET S /\ IsFiniteSet(s)
      /\ ~ (SumFunctionOnSet(f, s) <= SumFunctionOnSet(g, s))
  BY <1>1, FS_Subset
<1>3. s # {}
  BY <1>2, SumEmpty
<1> DEFINE c == Chosen(s)
           rest == s \ {c}
<1>4. /\ c \in s
      /\ SumFunctionOnSet(f, s) = f[c] + SumFunctionOnSet(f, rest)
      /\ SumFunctionOnSet(g, s) = g[c] + SumFunctionOnSet(g, rest)
  BY <1>2, <1>3, SumChosen
<1> HIDE DEF c
<1>5. /\ rest \in SUBSET S /\ IsFiniteSet(rest)
      /\ SumFunctionOnSet(f, rest) <= SumFunctionOnSet(g, rest)
  BY <1>1, <1>2, <1>4, FS_Subset
<1>6. SumFunctionOnSet(f, rest) \in Int /\ SumFunctionOnSet(g, rest) \in Int
  BY <1>5, SumInt
<1>7. f[c] \in Int /\ g[c] \in Int /\ f[c] <= g[c]
  BY <1>2, <1>4
<1> HIDE DEF rest
<1> QED
  BY <1>2, <1>4, <1>5, <1>6, <1>7

\* Functions that agree on a set have one sum over it.
LEMMA SumSame ==
    ASSUME NEW f, NEW g, NEW S, IsFiniteSet(S),
           \A x \in S : f[x] \in Int /\ f[x] = g[x]
    PROVE  SumFunctionOnSet(f, S) = SumFunctionOnSet(g, S)
<1>1. /\ SumFunctionOnSet(f, S) \in Int /\ SumFunctionOnSet(g, S) \in Int
      /\ SumFunctionOnSet(f, S) <= SumFunctionOnSet(g, S)
      /\ SumFunctionOnSet(g, S) <= SumFunctionOnSet(f, S)
  BY SumInt, SumMonotone
<1> QED
  BY <1>1

\* A sum counts at least the elements that have something to add.
LEMMA SumCovers ==
    ASSUME NEW f, NEW S, IsFiniteSet(S), \A x \in S : f[x] \in Nat,
           NEW A \in SUBSET S, \A x \in A : f[x] >= 1
    PROVE  Cardinality(A) <= SumFunctionOnSet(f, S)
<1> DEFINE T == {s \in SUBSET S : ~ (Cardinality(s \cap A) <= SumFunctionOnSet(f, s))}
<1> SUFFICES ASSUME T # {} PROVE FALSE
  <2>1. S \notin T /\ S \cap A = A
    OBVIOUS
  <2> QED
    BY <2>1
<1>1. PICK s \in T : \A r \in SUBSET s : r # s => r \notin T
  <2>1. T \in SUBSET SUBSET S
    OBVIOUS
  <2> HIDE DEF T
  <2> QED
    BY <2>1, SmallestSubset
<1>2. /\ s \in SUBSET S /\ IsFiniteSet(s)
      /\ ~ (Cardinality(s \cap A) <= SumFunctionOnSet(f, s))
  BY <1>1, FS_Subset
<1>3. s # {}
  BY <1>2, SumEmpty, FS_EmptySet
<1> DEFINE c == Chosen(s)
           rest == s \ {c}
<1>4. c \in s /\ SumFunctionOnSet(f, s) = f[c] + SumFunctionOnSet(f, rest)
  BY <1>2, <1>3, SumChosen
<1> HIDE DEF c
<1>5. /\ rest \in SUBSET S /\ IsFiniteSet(rest) /\ IsFiniteSet(rest \cap A)
      /\ Cardinality(rest \cap A) <= SumFunctionOnSet(f, rest)
  BY <1>1, <1>2, <1>4, FS_Subset, FS_Intersection
<1>6. SumFunctionOnSet(f, rest) \in Int /\ f[c] \in Nat
  BY <1>2, <1>4, <1>5, SumInt
<1>7. Cardinality(rest \cap A) \in Nat
  BY <1>5, FS_CardinalityType
<1>8. CASE c \in A
  <2>1. s \cap A = (rest \cap A) \cup {c} /\ c \notin rest \cap A /\ f[c] >= 1
    BY <1>4, <1>8
  <2>2. Cardinality(s \cap A) = Cardinality(rest \cap A) + 1
    BY <1>5, <2>1, FS_AddElement
  <2> HIDE DEF rest
  <2> QED
    BY <1>2, <1>4, <1>5, <1>6, <1>7, <2>1, <2>2
<1>9. CASE c \notin A
  <2>1. s \cap A = rest \cap A
    BY <1>9
  <2> HIDE DEF rest
  <2> QED
    BY <1>2, <1>4, <1>5, <1>6, <1>7, <2>1
<1> QED
  BY <1>8, <1>9
-----------------------------------------------------------------------------
(* What a commit does to the books of an order.                            *)

\* No movement of p, and a status that holds stock as before.
BooksStand(p) ==
    /\ Moves(p, "DEDUCTION")' = Moves(p, "DEDUCTION")
    /\ Moves(p, "RESTORATION")' = Moves(p, "RESTORATION")
    /\ \/ orders'[p] = orders[p]
       \/ orders[p].status \in {"CONFIRMED", "SHIPPED"}
          /\ orders'[p].status \in {"SHIPPED", "DELIVERED"}
       \/ orders[p].status \in {"ABSENT", "PENDING"}
          /\ orders'[p].status \in {"PENDING", "REJECTED", "CANCELLED"}

\* One deduction, with the transition that it is for.
BooksConfirm(p) ==
    /\ orders[p].status = "PENDING" /\ orders'[p].status = "CONFIRMED"
    /\ Moves(p, "DEDUCTION")' = Moves(p, "DEDUCTION") + 1
    /\ Moves(p, "RESTORATION")' = Moves(p, "RESTORATION")

\* One restoration, with the transition that it is for.
BooksCancel(p) ==
    /\ orders[p].status \in {"CONFIRMED", "SHIPPED"} /\ orders'[p].status = "CANCELLED"
    /\ Moves(p, "DEDUCTION")' = Moves(p, "DEDUCTION")
    /\ Moves(p, "RESTORATION")' = Moves(p, "RESTORATION") + 1

\* One of either without a transition, committed with a 409.
BooksLoseTrack(w, p) ==
    /\ OnHttpError = "commit" /\ outcome[w] = "conflict" /\ req[w].order = p
    /\ orders'[p] = orders[p] /\ orders[p].status \notin {"ABSENT", "PENDING"}
    /\ Moves(p, "DEDUCTION")' \in {Moves(p, "DEDUCTION"), Moves(p, "DEDUCTION") + 1}
    /\ Moves(p, "RESTORATION")' \in {Moves(p, "RESTORATION"), Moves(p, "RESTORATION") + 1}

\* A count of movements is a number.
LEMMA MovesType ==
    ASSUME TypeOK, NEW p \in Orders, NEW type
    PROVE  /\ Moves(p, type) \in Nat /\ IsFiniteSet(MovesOf(p, type))
           /\ item_id[p] \in Items /\ stock_movements[item_id[p]] \in Seq(Movements)
           /\ MovesOf(p, type) \subseteq 1..Len(stock_movements[item_id[p]])
<1>1. item_id[p] \in Items /\ stock_movements[item_id[p]] \in Seq(Movements)
  BY ConstantsAssumption DEF TypeOK
<1>2. MovesOf(p, type) \in SUBSET (1..Len(stock_movements[item_id[p]]))
  BY DEF MovesOf, Lines
<1>3. IsFiniteSet(1..Len(stock_movements[item_id[p]]))
  BY <1>1, FS_Interval
<1> QED
  BY <1>1, <1>2, <1>3, FS_Subset, FS_CardinalityType DEF Moves

\* A committed movement is one line more, for its order and of its type.
LEMMA MovesGrow ==
    ASSUME InventoryInv, NEW w \in Workers, Commit(w), flushed[w] # NoMovement,
           NEW p \in Orders, NEW type
    PROVE  Moves(p, type)' = Moves(p, type) +
               IF req[w].item = item_id[p] /\ flushed[w].order = p
                  /\ flushed[w].movement_type = type THEN 1 ELSE 0
<1> DEFINE i == item_id[p]
           log == stock_movements[i]
           n == Len(log) + 1
<1>1. /\ TypeOK /\ Moves(p, type) \in Nat /\ IsFiniteSet(MovesOf(p, type))
      /\ i \in Items /\ log \in Seq(Movements) /\ MovesOf(p, type) \subseteq 1..Len(log)
  BY MovesType DEF InventoryInv, VersionInv, TypeInv
<1>2. stock_movements' = [stock_movements EXCEPT ![req[w].item] = Append(@, flushed[w])]
      /\ stock_movements \in [Items -> Seq(Movements)]
  BY <1>1 DEF Commit, CommitItem, TypeOK
<1>3. CASE req[w].item = i
  <2>1. /\ stock_movements'[i] = Append(log, flushed[w])
        /\ Len(stock_movements'[i]) = n /\ stock_movements'[i][n] = flushed[w]
        /\ \A k \in 1..Len(log) : stock_movements'[i][k] = log[k]
        /\ 1..n = (1..Len(log)) \cup {n} /\ n \notin 1..Len(log)
    BY <1>1, <1>2, <1>3
  <2>2. MovesOf(p, type)' =
            MovesOf(p, type) \cup
                (IF flushed[w].order = p /\ flushed[w].movement_type = type THEN {n} ELSE {})
    BY <2>1 DEF MovesOf, Lines
  <2>3. n \notin MovesOf(p, type)
    BY <1>1, <2>1
  <2> HIDE DEF n
  <2>4. Cardinality(MovesOf(p, type) \cup {n}) = Moves(p, type) + 1
    BY <1>1, <2>3, FS_AddElement DEF Moves
  <2>5. CASE flushed[w].order = p /\ flushed[w].movement_type = type
    <3>1. MovesOf(p, type)' = MovesOf(p, type) \cup {n}
      BY <2>2, <2>5
    <3> QED
      BY <1>3, <2>4, <2>5, <3>1 DEF Moves
  <2>6. CASE ~ (flushed[w].order = p /\ flushed[w].movement_type = type)
    <3>1. MovesOf(p, type)' = MovesOf(p, type)
      BY <2>2, <2>6
    <3> QED
      BY <1>1, <1>3, <2>6, <3>1 DEF Moves
  <2> QED
    BY <2>5, <2>6
<1>4. CASE req[w].item # i
  <2>1. stock_movements'[i] = log
    BY <1>1, <1>2, <1>4
  <2> QED
    BY <1>1, <1>4, <2>1 DEF Moves, MovesOf, Lines
<1> QED
  BY <1>3, <1>4

\* Without a movement no count changes.
LEMMA MovesStand ==
    ASSUME NEW p \in Orders, NEW type, stock_movements' = stock_movements
    PROVE  Moves(p, type)' = Moves(p, type)
BY DEF Moves, MovesOf, Lines

\* Every commit keeps the books of every order in one of four ways.
LEMMA CommitBooks ==
    ASSUME InventoryInv, NEW w \in Workers, Commit(w), NEW p \in Orders
    PROVE  BooksStand(p) \/ BooksConfirm(p) \/ BooksCancel(p) \/ BooksLoseTrack(w, p)
<1> PICK o : o = req[w].order
  OBVIOUS
<1>0. /\ orders \in [Orders -> OrderRows]
      /\ Moves(p, "DEDUCTION") \in Nat /\ Moves(p, "RESTORATION") \in Nat
  BY MovesType DEF InventoryInv, VersionInv, TypeInv, TypeOK
<1>1. CASE target[w] # "none"
  <2>1. o \in Orders /\ orders' = [orders EXCEPT ![o] =
                                      [status |-> target[w], version |-> @.version + 1]]
    BY <1>1, TransitionKinds DEF Commit, CommitOrder
  <2>2. p # o => orders'[p] = orders[p]
    BY <1>0, <2>1
  <2>3. orders'[o].status = target[w]
    BY <1>0, <2>1
  <2>4. CASE flushed[w] = NoMovement
    <3>1. Moves(p, "DEDUCTION")' = Moves(p, "DEDUCTION")
          /\ Moves(p, "RESTORATION")' = Moves(p, "RESTORATION")
      BY <2>4, MovesStand DEF Commit, CommitItem
    <3>2. \/ orders[o].status \in {"CONFIRMED", "SHIPPED"}
             /\ target[w] \in {"SHIPPED", "DELIVERED"}
          \/ orders[o].status \in {"ABSENT", "PENDING"}
             /\ target[w] \in {"PENDING", "REJECTED", "CANCELLED"}
      BY <1>1, <2>4, TransitionKinds DEF AbsentRow
    <3> QED
      BY <2>2, <2>3, <3>1, <3>2 DEF BooksStand
  <2>5. CASE flushed[w] # NoMovement
    <3>1. /\ req[w].item = item_id[o] /\ flushed[w].order = o
          /\ \/ /\ orders[o].status = "PENDING" /\ target[w] = "CONFIRMED"
                /\ flushed[w].movement_type = "DEDUCTION"
             \/ /\ orders[o].status \in {"CONFIRMED", "SHIPPED"} /\ target[w] = "CANCELLED"
                /\ flushed[w].movement_type = "RESTORATION"
      BY <1>1, <2>5, TransitionKinds
    <3>2. \A type : Moves(p, type)' = Moves(p, type) +
              IF p = o /\ flushed[w].movement_type = type THEN 1 ELSE 0
      BY <2>5, <3>1, MovesGrow
    <3>3. /\ Moves(p, "DEDUCTION")' = Moves(p, "DEDUCTION") +
                  IF p = o /\ flushed[w].movement_type = "DEDUCTION" THEN 1 ELSE 0
          /\ Moves(p, "RESTORATION")' = Moves(p, "RESTORATION") +
                  IF p = o /\ flushed[w].movement_type = "RESTORATION" THEN 1 ELSE 0
      BY <3>2
    <3> QED
      BY <1>0, <2>2, <2>3, <3>1, <3>3 DEF BooksStand, BooksConfirm, BooksCancel
  <2> QED
    BY <2>4, <2>5
<1>2. CASE target[w] = "none"
  <2>1. orders' = orders
    BY <1>2 DEF Commit, CommitOrder
  <2>2. CASE flushed[w] = NoMovement
    BY <2>1, <2>2, MovesStand DEF Commit, CommitItem, BooksStand
  <2>3. CASE flushed[w] # NoMovement
    <3>1. /\ Moves(p, "DEDUCTION")' = Moves(p, "DEDUCTION") +
                  IF req[w].item = item_id[p] /\ flushed[w].order = p
                     /\ flushed[w].movement_type = "DEDUCTION" THEN 1 ELSE 0
          /\ Moves(p, "RESTORATION")' = Moves(p, "RESTORATION") +
                  IF req[w].item = item_id[p] /\ flushed[w].order = p
                     /\ flushed[w].movement_type = "RESTORATION" THEN 1 ELSE 0
      BY <2>3, MovesGrow
    <3>2. CASE flushed[w].movement_type = "ADJUSTMENT"
      BY <1>0, <2>1, <3>1, <3>2 DEF BooksStand
    <3>3. CASE flushed[w].movement_type # "ADJUSTMENT"
      <4>1. /\ OnHttpError = "commit" /\ outcome[w] = "conflict" /\ flushed[w].order = o
            /\ orders[o].status \notin {"ABSENT", "PENDING"}
        BY <1>2, <2>3, <3>3, MovementKinds
      <4> QED
        BY <1>0, <2>1, <3>1, <4>1 DEF BooksStand, BooksLoseTrack
    <3> QED
      BY <3>2, <3>3
  <2> QED
    BY <2>2, <2>3
<1> QED
  BY <1>1, <1>2

\* Between commits the books of every order stand.
LEMMA StepBooks ==
    ASSUME InventoryInv, [Next]_vars, NEW p \in Orders
    PROVE  \/ BooksStand(p) \/ BooksConfirm(p) \/ BooksCancel(p)
           \/ \E w \in Workers : Commit(w) /\ BooksLoseTrack(w, p)
<1>1. CASE \E w \in Workers : Commit(w)
  BY <1>1, CommitBooks
<1>2. CASE ~ \E w \in Workers : Commit(w)
  BY <1>2, OnlyCommitsWrite, MovesStand DEF db, BooksStand
<1> QED
  BY <1>1, <1>2

\* Whatever interleaves, fails or dies: stock and the state of an order part only by
\* the commit of a 409 that the order lost.
THEOREM ConflictsUnbalance == Spec => OnlyConflictsUnbalance
<1>1. Spec => []InventoryInv
  BY InitInventoryInv, NextInventoryInv, PTL DEF Spec
<1>2. ASSUME InventoryInv, [Next]_vars, NEW o \in Orders, Balanced(o), ~ Balanced(o)'
      PROVE  \E w \in Workers : req[w].order = o /\ outcome[w] = "conflict" /\ Commit(w)
  <2>1. Moves(o, "DEDUCTION") \in Nat /\ Moves(o, "RESTORATION") \in Nat
    BY <1>2, MovesType DEF InventoryInv, VersionInv, TypeInv
  <2>2. ~ BooksStand(o) /\ ~ BooksConfirm(o) /\ ~ BooksCancel(o)
    BY <1>2, <2>1
       DEF Balanced, Holding, StockHoldingStates, BooksStand, BooksConfirm, BooksCancel
  <2> QED
    BY <1>2, <2>2, StepBooks DEF BooksLoseTrack
<1>3. InventoryInv /\ [Next]_vars =>
          [\A o \in Orders : Balanced(o) /\ ~ Balanced(o)' =>
               \E w \in Workers : /\ req[w].order = o /\ outcome[w] = "conflict"
                                  /\ Commit(w)]_vars
  BY <1>2
<1> QED
  BY <1>1, <1>3, PTL DEF Spec, OnlyConflictsUnbalance

\* Were HTTP errors rolled back, a deduction would come with PENDING -> CONFIRMED only.
THEOREM DeductionIsConfirmation ==
    ASSUME OnHttpError = "rollback"
    PROVE  Spec => DeductedOnlyOnConfirm
<1>1. Spec => []InventoryInv
  BY InitInventoryInv, NextInventoryInv, PTL DEF Spec
<1>2. ASSUME InventoryInv, [Next]_vars, NEW o \in Orders,
             Moves(o, "DEDUCTION")' > Moves(o, "DEDUCTION")
      PROVE  orders[o].status = "PENDING" /\ orders'[o].status = "CONFIRMED"
  <2>1. Moves(o, "DEDUCTION") \in Nat
    BY <1>2, MovesType DEF InventoryInv, VersionInv, TypeInv
  <2> QED
    BY <1>2, <2>1, StepBooks DEF BooksStand, BooksConfirm, BooksCancel, BooksLoseTrack
<1>3. InventoryInv /\ [Next]_vars =>
          [\A o \in Orders : Moves(o, "DEDUCTION")' > Moves(o, "DEDUCTION") =>
               orders[o].status = "PENDING" /\ orders'[o].status = "CONFIRMED"]_vars
  BY <1>2
<1> QED
  BY <1>1, <1>3, PTL DEF Spec, DeductedOnlyOnConfirm

-----------------------------------------------------------------------------
(* The books of every reachable state.                                     *)

\* With get_db's commits: an order that holds stock has a deduction, one that is not
\* decided has no movement at all, lost ones included.
BooksOf(p) ==
    /\ Holding(p) => Moves(p, "DEDUCTION") > 0
    /\ orders[p].status \in {"ABSENT", "PENDING"} =>
           Moves(p, "DEDUCTION") = 0 /\ Moves(p, "RESTORATION") = 0

BooksInv == InventoryInv /\ \A p \in Orders : BooksOf(p)

\* With rollbacks: one deduction for an order that holds stock, and one restoration
\* for every deduction of a cancelled one.
SettledOf(p) ==
    /\ Holding(p) => Moves(p, "DEDUCTION") = 1 /\ Moves(p, "RESTORATION") = 0
    /\ orders[p].status = "CANCELLED" =>
           Moves(p, "DEDUCTION") = Moves(p, "RESTORATION") /\ Moves(p, "RESTORATION") <= 1
    /\ orders[p].status \in {"ABSENT", "PENDING", "REJECTED"} =>
           Moves(p, "DEDUCTION") = 0 /\ Moves(p, "RESTORATION") = 0

SettledInv == InventoryInv /\ \A p \in Orders : SettledOf(p)

\* The trail of an item that was just created has no movement of an order.
LEMMA InitBooks ==
    ASSUME Init, NEW p \in Orders, NEW type \in {"DEDUCTION", "RESTORATION"}
    PROVE  Moves(p, type) = 0
<1>1. item_id[p] \in Items
  BY ConstantsAssumption
<1>2. stock_movements[item_id[p]] = <<Opening(item_id[p])>>
      /\ Opening(item_id[p]).movement_type = "ADJUSTMENT"
  BY <1>1 DEF Init, Opening
<1>3. Len(stock_movements[item_id[p]]) = 1
      /\ stock_movements[item_id[p]][1].movement_type = "ADJUSTMENT"
  BY <1>2
<1>4. MovesOf(p, type) = {}
  BY <1>3 DEF MovesOf, Lines
<1> QED
  BY <1>4, FS_EmptySet DEF Moves

\* No order is placed initially.
LEMMA InitBooksInv == Init => BooksInv /\ SettledInv
<1> SUFFICES ASSUME Init PROVE BooksInv /\ SettledInv
  OBVIOUS
<1>1. InventoryInv
  BY InitInventoryInv
<1>2. ASSUME NEW p \in Orders PROVE BooksOf(p) /\ SettledOf(p)
  <2>1. orders[p].status = "ABSENT"
    BY DEF Init, AbsentRow
  <2>2. Moves(p, "DEDUCTION") = 0 /\ Moves(p, "RESTORATION") = 0
    BY InitBooks
  <2> QED
    BY <2>1, <2>2 DEF BooksOf, SettledOf, Holding, StockHoldingStates
<1> QED
  BY <1>1, <1>2 DEF BooksInv, SettledInv

\* No step, a lost movement included, leaves an order without its deduction.
LEMMA NextBooksInv == BooksInv /\ [Next]_vars => BooksInv'
<1> SUFFICES ASSUME BooksInv, [Next]_vars PROVE BooksInv'
  OBVIOUS
<1>1. ASSUME NEW p \in Orders PROVE BooksOf(p)'
  <2>1. Moves(p, "DEDUCTION") \in Nat /\ Moves(p, "RESTORATION") \in Nat /\ BooksOf(p)
    BY MovesType DEF BooksInv, InventoryInv, VersionInv, TypeInv
  <2>2. CASE BooksStand(p) \/ BooksConfirm(p) \/ BooksCancel(p)
    BY <2>1, <2>2 DEF BooksOf, Holding, StockHoldingStates,
                      BooksStand, BooksConfirm, BooksCancel
  <2>3. CASE \E w \in Workers : BooksLoseTrack(w, p)
    BY <2>1, <2>3 DEF BooksOf, Holding, BooksLoseTrack
  <2> QED
    BY <2>2, <2>3, StepBooks DEF BooksInv
<1> QED
  BY <1>1, NextInventoryInv DEF BooksInv

\* Without commits of a 409 every step settles what it starts.
LEMMA NextSettledInv ==
    ASSUME OnHttpError = "rollback"
    PROVE  SettledInv /\ [Next]_vars => SettledInv'
<1> SUFFICES ASSUME SettledInv, [Next]_vars PROVE SettledInv'
  OBVIOUS
<1>1. ASSUME NEW p \in Orders PROVE SettledOf(p)'
  <2>1. Moves(p, "DEDUCTION") \in Nat /\ Moves(p, "RESTORATION") \in Nat /\ SettledOf(p)
    BY MovesType DEF SettledInv, InventoryInv, VersionInv, TypeInv
  <2>2. BooksStand(p) \/ BooksConfirm(p) \/ BooksCancel(p)
    BY StepBooks DEF SettledInv, BooksLoseTrack
  <2> QED
    BY <2>1, <2>2 DEF SettledOf, Holding, StockHoldingStates,
                      BooksStand, BooksConfirm, BooksCancel
<1> QED
  BY <1>1, NextInventoryInv DEF SettledInv

\* Were HTTP errors rolled back, no order would be restored twice.
THEOREM RestoresOnce ==
    ASSUME OnHttpError = "rollback"
    PROVE  Spec => []RestoredAtMostOnce
<1>1. Spec => []SettledInv
  BY InitBooksInv, NextSettledInv, PTL DEF Spec
<1>2. SettledInv => RestoredAtMostOnce
  <2> SUFFICES ASSUME SettledInv, NEW o \in Orders PROVE Moves(o, "RESTORATION") <= 1
    BY DEF RestoredAtMostOnce
  <2>1. orders[o].status \in OrderStatuses \cup {"ABSENT"} /\ SettledOf(o)
    BY DEF SettledInv, InventoryInv, VersionInv, TypeInv, TypeOK, OrderRows
  <2> QED
    BY <2>1 DEF SettledOf, Holding, StockHoldingStates, OrderStatuses
<1> QED
  BY <1>1, <1>2, PTL

\* Were HTTP errors rolled back, the movements of every order would always say what its
\* status says: one deduction not restored while it holds stock, none otherwise.
THEOREM AlwaysBalanced ==
    ASSUME OnHttpError = "rollback"
    PROVE  Spec => []\A o \in Orders : Balanced(o)
<1>1. Spec => []SettledInv
  BY InitBooksInv, NextSettledInv, PTL DEF Spec
<1>2. ASSUME SettledInv, NEW o \in Orders PROVE Balanced(o)
  <2>1. orders[o].status \in OrderStatuses \cup {"ABSENT"} /\ SettledOf(o)
    BY <1>2 DEF SettledInv, InventoryInv, VersionInv, TypeInv, TypeOK, OrderRows
  <2>2. Moves(o, "DEDUCTION") \in Nat /\ Moves(o, "RESTORATION") \in Nat
    BY <1>2, MovesType DEF SettledInv, InventoryInv, VersionInv, TypeInv
  <2> QED
    BY <2>1, <2>2 DEF SettledOf, Balanced, Holding, StockHoldingStates, OrderStatuses
<1>3. SettledInv => \A o \in Orders : Balanced(o)
  BY <1>2
<1> QED
  BY <1>1, <1>3, PTL

-----------------------------------------------------------------------------
(* Where every unit is: the stock of an item against two sums.             *)

\* The two sums are integers.
LEMMA SumTypes ==
    ASSUME TypeOK, NEW i \in Items
    PROVE  /\ Received(i) \in Int /\ Promised(i) \in Int
           /\ \A k \in 1..Len(stock_movements[i]) : DeltasOf(i)[k] \in Int
           /\ IsFiniteSet(Lines(i, "ADJUSTMENT"))
           /\ IsFiniteSet({o \in Orders : item_id[o] = i /\ Holding(o)})
<1>1. stock_movements[i] \in Seq(Movements)
  BY DEF TypeOK
<1>2. \A k \in 1..Len(stock_movements[i]) : DeltasOf(i)[k] \in Int
  <2> SUFFICES ASSUME NEW k \in 1..Len(stock_movements[i]) PROVE DeltasOf(i)[k] \in Int
    OBVIOUS
  <2>1. stock_movements[i][k] \in Movements
    BY <1>1
  <2> QED
    BY <2>1 DEF DeltasOf, Movements
<1>3. Lines(i, "ADJUSTMENT") \in SUBSET (1..Len(stock_movements[i]))
  BY DEF Lines
<1>4. IsFiniteSet(Lines(i, "ADJUSTMENT"))
  BY <1>1, <1>3, FS_Interval, FS_Subset
<1>5. Received(i) \in Int
  BY <1>2, <1>3, <1>4, SumInt DEF Received
<1>6. IsFiniteSet({o \in Orders : item_id[o] = i /\ Holding(o)})
  BY KeysAssumption, FS_Subset
<1>7. Promised(i) \in Int
  BY <1>6, SumInt, ConstantsAssumption DEF Promised
<1> QED
  BY <1>2, <1>4, <1>5, <1>6, <1>7

\* A committed adjustment is received; other movements are not.
LEMMA ReceivedGrows ==
    ASSUME InventoryInv, NEW w \in Workers, Commit(w), flushed[w] # NoMovement,
           NEW i \in Items
    PROVE  Received(i)' = Received(i) +
               IF req[w].item = i /\ flushed[w].movement_type = "ADJUSTMENT"
               THEN req[w].delta ELSE 0
<1> DEFINE log == stock_movements[i]
           n == Len(log) + 1
           adjusted == Lines(i, "ADJUSTMENT")
<1>1. /\ TypeOK /\ Received(i) \in Int /\ IsFiniteSet(adjusted)
      /\ \A k \in 1..Len(log) : DeltasOf(i)[k] \in Int
  BY SumTypes DEF InventoryInv, VersionInv, TypeInv
<1>2. /\ stock_movements' = [stock_movements EXCEPT ![req[w].item] = Append(@, flushed[w])]
      /\ stock_movements \in [Items -> Seq(Movements)]
      /\ flushed[w] \in Movements /\ flushed[w].quantity_delta = req[w].delta
  BY <1>1 DEF Commit, CommitItem, TypeOK, InventoryInv, TasksInv, TaskOf, FlushedOf, MovementOf
<1>3. CASE req[w].item = i
  <2>1. /\ stock_movements'[i] = Append(log, flushed[w])
        /\ Len(stock_movements'[i]) = n /\ stock_movements'[i][n] = flushed[w]
        /\ \A k \in 1..Len(log) : stock_movements'[i][k] = log[k]
        /\ 1..n = (1..Len(log)) \cup {n} /\ n \notin 1..Len(log)
    BY <1>2, <1>3
  <2>2. /\ DeltasOf(i)'[n] = req[w].delta /\ req[w].delta \in Int
        /\ \A k \in 1..Len(log) : DeltasOf(i)'[k] = DeltasOf(i)[k]
    BY <1>2, <2>1 DEF DeltasOf, Movements
  <2>3. adjusted \subseteq 1..Len(log) /\ n \notin adjusted
    BY <2>1 DEF Lines
  <2>4. SumFunctionOnSet(DeltasOf(i)', adjusted) = Received(i)
    BY <1>1, <2>2, <2>3, SumSame DEF Received
  <2>5. CASE flushed[w].movement_type = "ADJUSTMENT"
    <3>1. Lines(i, "ADJUSTMENT")' = adjusted \cup {n}
      BY <2>1, <2>5 DEF Lines
    <3>2. \A k \in adjusted \cup {n} : DeltasOf(i)'[k] \in Int
      BY <1>1, <2>2, <2>3
    <3>3. \A f, S, a : /\ IsFiniteSet(S) /\ a \notin S
                       /\ \A x \in S \cup {a} : f[x] \in Int
              => SumFunctionOnSet(f, S \cup {a}) = SumFunctionOnSet(f, S) + f[a]
      BY SumAdd
    <3> HIDE DEF n, adjusted
    <3>4. SumFunctionOnSet(DeltasOf(i)', adjusted \cup {n}) = Received(i) + req[w].delta
      <4>1. SumFunctionOnSet(DeltasOf(i)', adjusted \cup {n}) =
                SumFunctionOnSet(DeltasOf(i)', adjusted) + DeltasOf(i)'[n]
        BY <1>1, <2>3, <3>2, <3>3, Zenon
      <4> QED
        BY <2>2, <2>4, <4>1, Zenon
    <3> QED
      BY <1>3, <2>5, <3>1, <3>4 DEF Received
  <2>6. CASE flushed[w].movement_type # "ADJUSTMENT"
    <3>1. Lines(i, "ADJUSTMENT")' = adjusted
      BY <2>1, <2>6 DEF Lines
    <3> QED
      BY <1>1, <2>4, <2>6, <3>1 DEF Received
  <2> QED
    BY <2>5, <2>6
<1>4. CASE req[w].item # i
  <2>1. stock_movements'[i] = log
    BY <1>2, <1>4
  <2> QED
    BY <1>1, <1>4, <2>1 DEF Received, DeltasOf, Lines
<1> QED
  BY <1>3, <1>4

\* Units are promised with a confirmation and come free with a cancellation.
LEMMA PromisedMoves ==
    ASSUME InventoryInv, NEW w \in Workers, Commit(w), target[w] # "none",
           NEW i \in Items, NEW o \in Orders, o = req[w].order
    PROVE  Promised(i)' = Promised(i) +
               IF item_id[o] # i THEN 0
               ELSE IF Holding(o)' /\ ~ Holding(o) THEN quantity[o]
               ELSE IF Holding(o) /\ ~ Holding(o)' THEN -quantity[o] ELSE 0
<1> DEFINE H == {p \in Orders : item_id[p] = i /\ Holding(p)}
<1>1. /\ TypeOK /\ Promised(i) \in Int /\ IsFiniteSet(H)
      /\ \A p \in Orders : quantity[p] \in Int
  <2>1. TypeOK
    BY DEF InventoryInv, VersionInv, TypeInv
  <2>2. \A p \in Orders : quantity[p] \in Nat \ {0}
    BY ConstantsAssumption
  <2>3. Promised(i) \in Int /\ IsFiniteSet(H)
    BY <2>1, SumTypes, Zenon
  <2> QED
    BY <2>1, <2>2, <2>3
<1>2. \A p \in Orders \ {o} : Holding(p)' <=> Holding(p)
  BY <1>1 DEF Commit, CommitOrder, TypeOK, Holding
<1>3. Promised(i)' = SumFunctionOnSet(quantity, H')
      /\ Promised(i) = SumFunctionOnSet(quantity, H)
  BY DEF Promised
<1>4. CASE item_id[o] # i \/ (Holding(o)' <=> Holding(o))
  <2>1. H' = H
    BY <1>2, <1>4
  <2>2. Promised(i)' = Promised(i) + 0
    <3>1. Promised(i)' = Promised(i)
      BY <1>3, <2>1, Zenon
    <3> QED
      BY <1>1, <3>1
  <2> QED
    BY <1>4, <2>2, Zenon
<1>5. CASE item_id[o] = i /\ Holding(o)' /\ ~ Holding(o)
  <2>1. H' = H \cup {o} /\ o \notin H
    BY <1>2, <1>5
  <2>2. SumFunctionOnSet(quantity, H \cup {o}) = SumFunctionOnSet(quantity, H) + quantity[o]
    BY <1>1, <2>1, SumAdd
  <2> QED
    BY <1>3, <1>5, <2>1, <2>2
<1>6. CASE item_id[o] = i /\ Holding(o) /\ ~ Holding(o)'
  <2>1. H' = H \ {o} /\ o \in H
    BY <1>2, <1>6
  <2>2. /\ SumFunctionOnSet(quantity, H) = quantity[o] + SumFunctionOnSet(quantity, H \ {o})
        /\ SumFunctionOnSet(quantity, H \ {o}) \in Int
    BY <1>1, <2>1, SumRemove, SumInt, FS_Subset
  <2>3. quantity[o] \in Int /\ item_id[o] = i /\ ~ (Holding(o)' /\ ~ Holding(o))
    BY <1>1, <1>6
  <2>4. Promised(i)' = Promised(i) + -quantity[o]
    <3>1. Promised(i)' = SumFunctionOnSet(quantity, H \ {o})
      BY <1>3, <2>1, Zenon
    <3> HIDE DEF H
    <3>2. Promised(i) = quantity[o] + Promised(i)' /\ Promised(i)' \in Int
      BY <1>3, <2>2, <3>1, Zenon
    <3> QED
      BY <2>3, <3>2
  <2> QED
    BY <1>6, <2>3, <2>4, Zenon
<1> QED
  BY <1>4, <1>5, <1>6

\* The stock that a commit leaves.
LEMMA StockMoves ==
    ASSUME InventoryInv, NEW w \in Workers, Commit(w), NEW i \in Items
    PROVE  menu_items'[i].stock_quantity = menu_items[i].stock_quantity +
               IF req[w].item = i /\ flushed[w] # NoMovement THEN req[w].delta ELSE 0
<1>1. menu_items \in [Items -> [stock_quantity : Stock, version : Nat]]
      /\ menu_items[i].stock_quantity \in Int
  BY ConstantsAssumption DEF InventoryInv, VersionInv, TypeInv, TypeOK, Stock
<1>2. CASE flushed[w] = NoMovement
  BY <1>1, <1>2 DEF Commit, CommitItem
<1>3. CASE flushed[w] # NoMovement
  <2>1. menu_items' = [menu_items EXCEPT ![req[w].item] =
             [stock_quantity |-> flushed[w].stock_after, version |-> @.version + 1]]
    BY <1>3 DEF Commit, CommitItem
  <2>2. flushed[w].quantity_delta = req[w].delta
    <3>1. flushed[w] = MovementOf(w, flushed[w].stock_before)
      BY <1>3 DEF InventoryInv, TasksInv, TaskOf, FlushedOf
    <3>2. MovementOf(w, flushed[w].stock_before).quantity_delta = req[w].delta
      BY DEF MovementOf
    <3> QED
      BY <3>1, <3>2
  <2>3. flushed[w].stock_after = menu_items[req[w].item].stock_quantity + req[w].delta
    BY <1>3, <2>2 DEF InventoryInv, PendingInv, PendingOf
  <2> QED
    BY <1>1, <1>3, <2>1, <2>3
<1> QED
  BY <1>2, <1>3

\* A commit moves the two sums as it moves the stock.
LEMMA CommitAccounts ==
    ASSUME OnHttpError = "rollback", InventoryInv, StockAccountedFor,
           NEW w \in Workers, Commit(w)
    PROVE  StockAccountedFor'
<1> SUFFICES ASSUME NEW i \in Items
             PROVE  menu_items'[i].stock_quantity = Received(i)' - Promised(i)'
  BY DEF StockAccountedFor
<1> PICK o : o = req[w].order
  OBVIOUS
<1>1. /\ TypeOK /\ Received(i) \in Int /\ Promised(i) \in Int
      /\ menu_items[i].stock_quantity = Received(i) - Promised(i)
  BY SumTypes DEF InventoryInv, VersionInv, TypeInv, StockAccountedFor
<1>2. menu_items'[i].stock_quantity = menu_items[i].stock_quantity +
          IF req[w].item = i /\ flushed[w] # NoMovement THEN req[w].delta ELSE 0
  BY StockMoves
<1>3. flushed[w] = NoMovement => Received(i)' = Received(i)
  BY DEF Commit, CommitItem, Received, DeltasOf, Lines
<1>4. target[w] = "none" => Promised(i)' = Promised(i)
  BY DEF Commit, CommitOrder, Promised, Holding
<1>5. CASE target[w] # "none"
  <2>1. /\ o \in Orders /\ quantity[o] \in Int
        /\ orders'[o].status = target[w]
    BY <1>1, <1>5, TransitionKinds, ConstantsAssumption DEF Commit, CommitOrder, TypeOK
  <2>2. Promised(i)' = Promised(i) +
            IF item_id[o] # i THEN 0
            ELSE IF Holding(o)' /\ ~ Holding(o) THEN quantity[o]
            ELSE IF Holding(o) /\ ~ Holding(o)' THEN -quantity[o] ELSE 0
    BY <1>5, <2>1, PromisedMoves
  <2>3. CASE flushed[w] = NoMovement
    <3>1. Holding(o)' <=> Holding(o)
      BY <1>5, <2>1, <2>3, TransitionKinds DEF Holding, StockHoldingStates, AbsentRow
    <3> QED
      BY <1>1, <1>2, <1>3, <2>2, <2>3, <3>1
  <2>4. CASE flushed[w] # NoMovement
    <3>1. /\ req[w].item = item_id[o]
          /\ flushed[w].movement_type # "ADJUSTMENT"
          /\ \/ ~ Holding(o) /\ Holding(o)' /\ req[w].delta = -quantity[o]
             \/ Holding(o) /\ ~ Holding(o)' /\ req[w].delta = quantity[o]
      BY <1>5, <2>1, <2>4, TransitionKinds DEF Holding, StockHoldingStates
    <3>2. Received(i)' = Received(i)
      BY <1>1, <2>4, <3>1, ReceivedGrows
    <3> QED
      BY <1>1, <1>2, <2>1, <2>2, <2>4, <3>1, <3>2
  <2> QED
    BY <2>3, <2>4
<1>6. CASE target[w] = "none" /\ flushed[w] # NoMovement
  <2>1. flushed[w].movement_type = "ADJUSTMENT" /\ req[w].delta \in Int
    BY <1>6, MovementKinds, ConstantsAssumption
  <2>2. Received(i)' = Received(i) + IF req[w].item = i THEN req[w].delta ELSE 0
    BY <1>6, <2>1, ReceivedGrows
  <2> QED
    BY <1>1, <1>2, <1>4, <1>6, <2>1, <2>2
<1>7. CASE target[w] = "none" /\ flushed[w] = NoMovement
  BY <1>1, <1>2, <1>3, <1>4, <1>7
<1> QED
  BY <1>5, <1>6, <1>7

\* The opening movement is all that was received, and nothing is promised.
LEMMA InitAccounts == Init => StockAccountedFor
<1> SUFFICES ASSUME Init, NEW i \in Items
             PROVE  menu_items[i].stock_quantity = Received(i) - Promised(i)
  BY DEF StockAccountedFor
<1>1. InitStock[i] \in Int /\ menu_items[i].stock_quantity = InitStock[i]
  BY ConstantsAssumption DEF Init
<1>2. Len(stock_movements[i]) = 1 /\ stock_movements[i][1] = Opening(i)
  BY DEF Init
<1>3. Lines(i, "ADJUSTMENT") = {} \cup {1} /\ DeltasOf(i)[1] = InitStock[i]
  BY <1>2 DEF Lines, DeltasOf, Opening
<1>4. Received(i) = InitStock[i]
  <2> PICK f : f = DeltasOf(i)
    OBVIOUS
  <2>1. SumFunctionOnSet(f, {} \cup {1}) = SumFunctionOnSet(f, {}) + f[1]
    BY <1>1, <1>3, SumAdd, FS_EmptySet
  <2>2. SumFunctionOnSet(f, {}) = 0
    BY SumEmpty
  <2> QED
    <3>1. Received(i) = SumFunctionOnSet(f, {} \cup {1})
      BY <1>3, Zenon DEF Received
    <3>2. f[1] = InitStock[i]
      BY <1>3
    <3>3. Received(i) = 0 + InitStock[i]
      BY <2>1, <2>2, <3>1, <3>2, Zenon
    <3> QED
      BY <1>1, <3>3
<1>5. Promised(i) = 0
  <2>1. {o \in Orders : item_id[o] = i /\ Holding(o)} = {}
    BY DEF Init, AbsentRow, Holding, StockHoldingStates
  <2> QED
    BY <2>1, SumEmpty DEF Promised
<1> QED
  BY <1>1, <1>4, <1>5

\* Were HTTP errors rolled back, every unit ever received would be in stock or promised
\* to exactly one order, for any deltas and quantities.
THEOREM EveryUnitAccounted ==
    ASSUME OnHttpError = "rollback"
    PROVE  Spec => []StockAccountedFor
<1>1. InventoryInv /\ StockAccountedFor /\ [Next]_vars => InventoryInv' /\ StockAccountedFor'
  <2> SUFFICES ASSUME InventoryInv, StockAccountedFor, [Next]_vars PROVE StockAccountedFor'
    BY NextInventoryInv
  <2>1. CASE \E w \in Workers : Commit(w)
    BY <2>1, CommitAccounts
  <2>2. CASE ~ \E w \in Workers : Commit(w)
    BY <2>2, OnlyCommitsWrite
       DEF db, StockAccountedFor, Received, DeltasOf, Lines, Promised, Holding
  <2> QED
    BY <2>1, <2>2
<1> QED
  BY <1>1, InitInventoryInv, InitAccounts, PTL DEF Spec
=============================================================================
