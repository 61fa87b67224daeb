-------------------------- MODULE Inventory_proofs --------------------------
(***************************************************************************)
(* Proofs about Inventory, for every set of calls and years: the types of  *)
(* the tables, that stock is what was moved (without purchase returns, the *)
(* product form and stock adjustments, which break it), that a key posts   *)
(* one document, and that invoice numbers are fresh; and, of calls made one*)
(* after another (SerialInv), that stock is what was moved in any case, the*)
(* batches are covered and returns are traced to what they return.         *)
(***************************************************************************)
EXTENDS Inventory, FiniteSetTheorems, TLAPS

-----------------------------------------------------------------------------
(* Sums.  The provers know nothing of a fold, so a sum of natural numbers  *)
(* is first shown to count a set of units; the facts on finite sets do the *)
(* rest.  Induction over the subsets of a finite set is the choice of a    *)
(* smallest counterexample.                                                *)

Pick(S) == CHOOSE x \in S : TRUE

(* The units of the amounts f[x], x \in S. *)
Units(f, S) == {u \in S \X Nat : u[2] \in 1 .. f[u[1]]}

LEMMA SmallestSubset ==
  ASSUME NEW S, IsFiniteSet(S), NEW F, F \subseteq SUBSET S, F # {}
  PROVE  \E T \in F : \A U \in F : U \subseteq T => U = T
PROOF
<1>1. IsWellFoundedOn(StrictSubsetOrdering(S), SUBSET S)
  BY FS_StrictSubsetOrderingWellFounded, FS_FiniteSubsetsOfFinite
<1>2. PICK T \in F : \A U \in F : ~ (<<U, T>> \in StrictSubsetOrdering(S))
  BY <1>1, WFMin
<1>3. ASSUME NEW U \in F, U \subseteq T, U # T PROVE FALSE
  <2>1. <<U, T>> \in (SUBSET S) \X (SUBSET S)
    OBVIOUS
  <2> QED
    BY <1>2, <1>3, <2>1 DEF StrictSubsetOrdering
<1> QED
  BY <1>3

LEMMA UnitsAdd ==
  ASSUME NEW S, IsFiniteSet(S), NEW x, x \notin S, NEW f, f[x] \in Nat, IsFiniteSet(Units(f, S))
  PROVE  /\ IsFiniteSet(Units(f, S \cup {x}))
         /\ Cardinality(Units(f, S \cup {x})) = f[x] + Cardinality(Units(f, S))
PROOF
<1>1. Units(f, S \cup {x}) = Units(f, S) \cup ({x} \X (1 .. f[x]))
  BY DEF Units
<1>2. IsFiniteSet({x} \X (1 .. f[x])) /\ Cardinality({x} \X (1 .. f[x])) = f[x]
  <2>1. IsFiniteSet({x}) /\ Cardinality({x}) = 1
    BY FS_Singleton
  <2>2. \A n \in Nat : 1 * n = n /\ IsFiniteSet(1 .. n) /\ Cardinality(1 .. n) = n
    <3> SUFFICES ASSUME NEW n \in Nat PROVE 1 * n = n /\ IsFiniteSet(1 .. n) /\ Cardinality(1 .. n) = n
      OBVIOUS
    <3>1. 1 \in Int /\ n \in Int /\ 1 * n = n /\ (IF 1 <= n THEN n - 1 + 1 ELSE 0) = n
      OBVIOUS
    <3> QED
      BY <3>1, FS_Interval
  <2>3. /\ IsFiniteSet({x} \X (1 .. f[x]))
        /\ Cardinality({x} \X (1 .. f[x])) = Cardinality({x}) * Cardinality(1 .. f[x])
    BY <2>1, <2>2, FS_Product
  <2> QED
    BY <2>1, <2>2, <2>3
<1>3. Units(f, S) \cap ({x} \X (1 .. f[x])) = {}
  BY DEF Units
<1>4. Cardinality({}) = 0 /\ Cardinality(Units(f,S)) \in Nat
  BY FS_EmptySet, FS_CardinalityType
<1> DEFINE U == Units(f, S)
           V == {x} \X (1 .. f[x])
<1>5. Units(f, S \cup {x}) = U \cup V /\ Cardinality(U \cap V) = 0
  BY <1>1, <1>3, <1>4
<1>6. IsFiniteSet(U) /\ IsFiniteSet(V) /\ Cardinality(V) = f[x] /\ Cardinality(U) \in Nat
  BY <1>2, <1>4
<1> HIDE DEF U, V
<1>7. IsFiniteSet(U \cup V) /\ Cardinality(U \cup V) = Cardinality(U) + Cardinality(V) - Cardinality(U \cap V)
  BY <1>6, FS_Union
<1>8. IsFiniteSet(U \cup V) /\ Cardinality(U \cup V) = f[x] + Cardinality(U)
  BY <1>5, <1>6, <1>7
<1> QED
  BY <1>5, <1>8 DEF U

LEMMA UnitsFinite ==
  ASSUME NEW S, IsFiniteSet(S), NEW f, \A x \in S : f[x] \in Nat
  PROVE  \A T \in SUBSET S : IsFiniteSet(Units(f, T))
PROOF
<1> DEFINE F == {T \in SUBSET S : ~ IsFiniteSet(Units(f, T))}
<1> SUFFICES ASSUME F # {} PROVE FALSE
  OBVIOUS
<1>1. PICK T \in F : \A U \in F : U \subseteq T => U = T
  <2>1. F \subseteq SUBSET S
    OBVIOUS
  <2> HIDE DEF F
  <2> QED
    BY <2>1, SmallestSubset
<1>2. CASE T = {}
  <2>1. Units(f, T) = {}
    BY <1>2 DEF Units
  <2> QED
    BY <2>1, FS_EmptySet
<1>3. ASSUME NEW x \in T PROVE FALSE
  <2>1. T \ {x} \notin F /\ IsFiniteSet(T \ {x}) /\ T = (T \ {x}) \cup {x}
    BY <1>1, FS_Subset
  <2> QED
    BY <2>1, UnitsAdd
<1> QED
  BY <1>2, <1>3

Sums(f, S, g) ==
  g = [T \in SUBSET S |-> IF T = {} THEN 0 ELSE f[Pick(T)] + g[T \ {Pick(T)}]]

LEMMA SumUnfolds == \A f, S : SumFunctionOnSet(f, S) = (CHOOSE g : Sums(f, S, g))[S]
PROOF
  BY DEF SumFunctionOnSet, FoldFunctionOnSet, MapThenFoldSet, Sums, Pick

LEMMA SumIsCount ==
  ASSUME NEW S, IsFiniteSet(S), NEW f, \A x \in S : f[x] \in Nat
  PROVE  SumFunctionOnSet(f, S) = Cardinality(Units(f, S))
PROOF
<1> DEFINE h == [T \in SUBSET S |-> Cardinality(Units(f, T))]
           g == CHOOSE g : Sums(f, S, g)
<1>1. Sums(f, S, h)
  <2>1. ASSUME NEW T \in SUBSET S, T # {}
        PROVE  h[T] = f[Pick(T)] + h[T \ {Pick(T)}]
    <3>1. Pick(T) \in T
      BY <2>1 DEF Pick
    <3>2. IsFiniteSet(T \ {Pick(T)}) /\ T = (T \ {Pick(T)}) \cup {Pick(T)}
      BY <3>1, FS_Subset
    <3>3. IsFiniteSet(Units(f, T \ {Pick(T)}))
      BY UnitsFinite
    <3> QED
      BY <3>1, <3>2, <3>3, UnitsAdd
  <2>2. h[{}] = 0
    <3>1. Units(f, {}) = {}
      BY DEF Units
    <3> QED
      BY <3>1, FS_EmptySet
  <2> QED
    BY <2>1, <2>2 DEF Sums
<1>2. Sums(f, S, g)
  BY <1>1
<1> HIDE DEF g, h
<1>3. DEFINE F == {T \in SUBSET S : g[T] # h[T]}
<1>4. ASSUME NEW T \in F, \A U \in F : U \subseteq T => U = T PROVE FALSE
  <2>1. T = {} \/ (Pick(T) \in T /\ T \ {Pick(T)} \notin F)
    BY <1>4 DEF Pick
  <2>2. g[T] = IF T = {} THEN 0 ELSE f[Pick(T)] + g[T \ {Pick(T)}]
    BY <1>2 DEF Sums
  <2>3. h[T] = IF T = {} THEN 0 ELSE f[Pick(T)] + h[T \ {Pick(T)}]
    BY <1>1 DEF Sums
  <2> QED
    BY <2>1, <2>2, <2>3
<1>5. F = {}
  <2>1. F \subseteq SUBSET S
    OBVIOUS
  <2> HIDE DEF F
  <2> QED
    BY <1>4, <2>1, SmallestSubset
<1> QED
  BY <1>5, SumUnfolds DEF g, h

(* What the proofs use of sums.                                            *)
LEMMA SumEmpty == ASSUME NEW f PROVE SumFunctionOnSet(f, {}) = 0
PROOF
<1>1. Units(f, {}) = {}
  BY DEF Units
<1> QED
  BY <1>1, SumIsCount, FS_EmptySet

LEMMA SumAdd ==
  ASSUME NEW S, IsFiniteSet(S), NEW x, x \notin S, NEW f, \A y \in S \cup {x} : f[y] \in Nat
  PROVE  SumFunctionOnSet(f, S \cup {x}) = SumFunctionOnSet(f, S) + f[x]
PROOF
<1>1. IsFiniteSet(S \cup {x}) /\ IsFiniteSet(Units(f, S))
  BY FS_AddElement, UnitsFinite
<1>2. Cardinality(Units(f, S)) \in Nat /\ f[x] \in Nat
  BY <1>1, FS_CardinalityType
<1>3. SumFunctionOnSet(f, S) = Cardinality(Units(f, S))
  BY SumIsCount
<1>4. SumFunctionOnSet(f, S \cup {x}) = Cardinality(Units(f, S \cup {x}))
  BY <1>1, SumIsCount
<1> QED
  BY <1>1, <1>2, <1>3, <1>4, UnitsAdd

LEMMA SumType ==
  ASSUME NEW S, IsFiniteSet(S), NEW f, \A x \in S : f[x] \in Nat
  PROVE  SumFunctionOnSet(f, S) \in Nat
PROOF
  BY SumIsCount, UnitsFinite, FS_CardinalityType

LEMMA SumEqual ==
  ASSUME NEW S, IsFiniteSet(S), NEW f, NEW g, \A x \in S : f[x] \in Nat /\ g[x] = f[x]
  PROVE  SumFunctionOnSet(g, S) = SumFunctionOnSet(f, S)
PROOF
<1>1. Units(f, S) = Units(g, S)
  BY DEF Units
<1> QED
  BY <1>1, SumIsCount

LEMMA SumChange ==
  ASSUME NEW S, IsFiniteSet(S), NEW x \in S, NEW f, NEW g, g[x] \in Nat,
         \A y \in S : f[y] \in Nat /\ (y # x => g[y] = f[y])
  PROVE  /\ SumFunctionOnSet(g, S) = SumFunctionOnSet(f, S) - f[x] + g[x]
         /\ f[x] <= SumFunctionOnSet(f, S)
PROOF
<1>1. IsFiniteSet(S \ {x}) /\ S = (S \ {x}) \cup {x} /\ x \notin S \ {x}
  BY FS_Subset
<1>2. SumFunctionOnSet(f, S) = SumFunctionOnSet(f, S \ {x}) + f[x]
  BY <1>1, SumAdd
<1>3. SumFunctionOnSet(g, S) = SumFunctionOnSet(g, S \ {x}) + g[x]
  BY <1>1, SumAdd
<1>4. SumFunctionOnSet(g, S \ {x}) = SumFunctionOnSet(f, S \ {x})
  BY <1>1, SumEqual
<1>5. SumFunctionOnSet(f, S \ {x}) \in Nat
  BY <1>1, SumType
<1> QED
  BY <1>2, <1>3, <1>4, <1>5

LEMMA SumMinus ==
  ASSUME NEW S, IsFiniteSet(S), NEW f, NEW g, NEW h,
         \A x \in S : /\ f[x] \in Nat /\ g[x] \in Nat /\ h[x] \in Nat
                      /\ h[x] = f[x] - g[x]
  PROVE  SumFunctionOnSet(h, S) = SumFunctionOnSet(f, S) - SumFunctionOnSet(g, S)
PROOF
<1> DEFINE Off(T) == SumFunctionOnSet(h, T) # SumFunctionOnSet(f, T) - SumFunctionOnSet(g, T)
           F == {T \in SUBSET S : Off(T)}
<1> SUFFICES ASSUME F # {} PROVE FALSE
  OBVIOUS
<1>1. PICK T \in F : \A U \in F : U \subseteq T => U = T
  <2>1. F \subseteq SUBSET S
    OBVIOUS
  <2> HIDE DEF F
  <2> QED
    BY <2>1, SmallestSubset
<1>2. CASE T = {}
  <2>1. 0 = 0 - 0
    OBVIOUS
  <2> QED
    BY <1>2, <2>1, SumEmpty
<1>3. ASSUME NEW x \in T PROVE FALSE
  <2> DEFINE U == T \ {x}
  <2>1. IsFiniteSet(U) /\ x \notin U /\ T = U \cup {x} /\ T \subseteq S /\ ~ Off(U)
    BY <1>1, FS_Subset
  <2>2. \A y \in T : f[y] \in Nat /\ g[y] \in Nat /\ h[y] \in Nat /\ h[y] = f[y] - g[y]
    BY <2>1
  <2> HIDE DEF U
  <2>3. /\ SumFunctionOnSet(f, T) = SumFunctionOnSet(f, U) + f[x]
        /\ SumFunctionOnSet(g, T) = SumFunctionOnSet(g, U) + g[x]
        /\ SumFunctionOnSet(h, T) = SumFunctionOnSet(h, U) + h[x]
    <3>1. IsFiniteSet(U) /\ x \notin U
      BY <2>1
    <3>a. \A y \in U \cup {x} : f[y] \in Nat
      BY <2>1, <2>2
    <3>b. \A y \in U \cup {x} : g[y] \in Nat
      BY <2>1, <2>2
    <3>c. \A y \in U \cup {x} : h[y] \in Nat
      BY <2>1, <2>2
    <3>2. SumFunctionOnSet(f, U \cup {x}) = SumFunctionOnSet(f, U) + f[x]
      BY <3>1, <3>a, SumAdd
    <3>3. SumFunctionOnSet(g, U \cup {x}) = SumFunctionOnSet(g, U) + g[x]
      BY <3>1, <3>b, SumAdd
    <3>4. SumFunctionOnSet(h, U \cup {x}) = SumFunctionOnSet(h, U) + h[x]
      BY <3>1, <3>c, SumAdd
    <3> QED
      BY <2>1, <3>2, <3>3, <3>4
  <2>4. /\ SumFunctionOnSet(f, U) \in Nat /\ SumFunctionOnSet(g, U) \in Nat
        /\ SumFunctionOnSet(h, U) \in Nat
    BY <2>1, <2>2, SumType
  <2>5. SumFunctionOnSet(h, T) = SumFunctionOnSet(f, T) - SumFunctionOnSet(g, T)
    BY <2>1, <2>2, <2>3, <2>4
  <2> QED
    BY <2>5
<1> QED
  BY <1>2, <1>3

LEMMA SumAll == \A S : \A f \in [S -> Nat] : SumFunction(f) = SumFunctionOnSet(f, S)
PROOF
  BY DEF SumFunction

-----------------------------------------------------------------------------
LEMMA PostedCount == ASSUME NEW k \in Kinds PROVE Cardinality(Posted(k)) \in Nat
PROOF
<1>1. Posted(k) \subseteq Requests
  BY DEF Posted
<1>2. IsFiniteSet(Posted(k))
  BY <1>1, RequestAssumption, FS_Subset
<1> QED
  BY <1>2, FS_CardinalityType

LEMMA LargerNat == \A m, n \in Nat : Larger(m, n) \in Nat /\ Larger(m, n) >= m /\ Larger(m, n) >= n
PROOF
  BY DEF Larger

ReturnsOf(d) == {x \in Posted("return") \cup Posted("creditNote") : of[x] = d}

LEMMA ReturnedNat ==
  ASSUME TypeOK, NEW d
  PROVE  /\ Returned(d) = SumFunctionOnSet(quantity, ReturnsOf(d)) /\ Returned(d) \in Nat
         /\ IsFiniteSet(ReturnsOf(d)) /\ \A x \in ReturnsOf(d) : quantity[x] \in Nat
PROOF
<1>1. ReturnsOf(d) \subseteq Requests
  BY DEF ReturnsOf, Posted
<1>2. IsFiniteSet(ReturnsOf(d)) /\ \A x \in ReturnsOf(d) : quantity[x] \in Nat
  BY <1>1, RequestAssumption, FS_Subset DEF TypeOK
<1>3. Returned(d) = SumFunctionOnSet(quantity, ReturnsOf(d))
  BY DEF Returned, ReturnsOf
<1> QED
  BY <1>2, <1>3, SumType

-----------------------------------------------------------------------------
(* A call has yet to make reads of its kind only.                          *)
ReadsAsked == \A r \in Requests : todo[r] \subseteq ReadsOf(kind[r])

LEMMA VoucherAsked == \A k \in Kinds : "voucher" \in ReadsOf(k) => k \in Numbered
PROOF
  BY DEF ReadsOf, Kinds, Numbered, Adjustments

-----------------------------------------------------------------------------
(* Types.                                                                  *)

LEMMA SubmitTyped == ASSUME NEW r \in Requests, TypeOK, Submit(r) PROVE TypeOK'
PROOF
<1> USE RequestAssumption
<1>1. phase' \in [Requests -> Phases]
  BY DEF Submit, TypeOK, Phases
<1>2. PICK k \in Operations, o \in Requests \cup {None}, n \in 0 .. MaxQuantity, y \in Years :
        Asks(k, o, n) /\ Fill(r, k, o, n, y)
  BY DEF Submit
<1>3. k \in Kinds /\ n \in Nat
  BY QuantityAssumption
<1>4. kind' \in [Requests -> Kinds] /\ of' \in [Requests -> Requests \cup {None}]
  BY <1>2, <1>3 DEF Fill, TypeOK
<1>5. quantity' \in [Requests -> Nat] /\ year' \in [Requests -> Years]
  BY <1>2, <1>3 DEF Fill, TypeOK
<1>6. key' \in [Requests -> Requests]
  BY <1>2 DEF Fill, TypeOK, Keys
<1>7. wanted' \in [Requests -> Modes]
  BY <1>2 DEF Fill, TypeOK, Modes
<1>8. todo' \in [Requests -> SUBSET Reads]
  <2>1. ReadsOf(k) \in SUBSET Reads
    BY <1>3 DEF ReadsOf, Reads, Kinds, Numbered, Adjustments
  <2> QED
    BY <1>2, <2>1 DEF Fill, TypeOK
<1>9. UNCHANGED <<seenVars, draftVars, stockVars, invoiceNumberVars, next>>
  BY DEF Submit
<1> QED
  BY <1>1, <1>4, <1>5, <1>6, <1>7, <1>8, <1>9 DEF TypeOK, seenVars, draftVars, stockVars, invoiceNumberVars

LEMMA ForgetTyped ==
  ASSUME NEW r \in Requests, TypeOK, Forget(r)
  PROVE  /\ todo' \in [Requests -> SUBSET Reads]
         /\ stockSeen' \in [Requests -> Nat]
         /\ batchSeen' \in [Requests -> Requests \cup {None}]
         /\ lotSeen' \in [Requests -> Lots]
         /\ lotsKnown' \in [Requests -> SUBSET Requests]
         /\ openSeen' \in [Requests -> Int]
         /\ modeSeen' \in [Requests -> Modes]
         /\ orgSeen' \in [Requests -> Nat] /\ fySeen' \in [Requests -> Nat]
         /\ billSeen' \in [Requests -> Nat]
PROOF
<1>1. todo' \in [Requests -> SUBSET Reads]
  BY DEF Forget, TypeOK
<1>2. stockSeen' \in [Requests -> Nat] /\ batchSeen' \in [Requests -> Requests \cup {None}]
  BY DEF Forget, TypeOK
<1>3. lotSeen' \in [Requests -> Lots]
  <2>1. NoLots \in Lots
    BY DEF NoLots, Lots
  <2> QED
    BY <2>1 DEF Forget, TypeOK
<1>4. modeSeen' \in [Requests -> Modes] /\ openSeen' \in [Requests -> Int]
  BY DEF Forget, TypeOK, Modes
<1>6. lotsKnown' \in [Requests -> SUBSET Requests]
  BY DEF Forget, TypeOK
<1>5. orgSeen' \in [Requests -> Nat] /\ fySeen' \in [Requests -> Nat] /\ billSeen' \in [Requests -> Nat]
  BY DEF Forget, TypeOK
<1> QED
  BY <1>1, <1>2, <1>3, <1>4, <1>5, <1>6

LEMMA DiscardTyped ==
  ASSUME NEW r \in Requests, TypeOK, Discard(r), phase' \in [Requests -> Phases]
  PROVE  TypeOK'
PROOF
<1>1. Forget(r)
  BY DEF Discard
<1>2. number' \in [Requests -> Nat]
  BY DEF Discard, TypeOK
<1>3. UNCHANGED <<askVars, label, seq, stockVars, invoiceNumberVars, next>>
  BY DEF Discard
<1> QED
  BY <1>1, <1>2, <1>3, ForgetTyped DEF TypeOK, askVars, stockVars, invoiceNumberVars

LEMMA ReadTyped == 
  ASSUME NEW r \in Requests, TypeOK, ReadsAsked, DocumentsNamed, Refuse(r) \/ AbortCancel(r) \/ Read(r)
  PROVE  TypeOK'
PROOF
<1> USE RequestAssumption
<1>0. CASE Refuse(r) \/ AbortCancel(r) \/ AnswerSame(r)
  <2>1. phase' \in [Requests -> Phases]
    <3>1. \E f \in Phases : phase' = [phase EXCEPT ![r] = f]
      BY <1>0 DEF Refuse, AbortCancel, AnswerSame, Phases
    <3> QED
      BY <3>1 DEF TypeOK
  <2> QED
    BY <1>0, <2>1, DiscardTyped DEF Refuse, AbortCancel, AnswerSame
<1>r. ASSUME NEW part, Reading(r, part) PROVE todo' \in [Requests -> SUBSET Reads]
  BY <1>r DEF Reading, TypeOK
<1>1. CASE ReadKey(r)
  <2>1. todo' \in [Requests -> SUBSET Reads]
    BY <1>1, <1>r DEF ReadKey
  <2> QED
    BY <1>1, <2>1 DEF ReadKey, TypeOK, askVars, seenVars, draftVars, stockVars, invoiceNumberVars
<1>2. CASE ReadStock(r)
  <2>1. todo' \in [Requests -> SUBSET Reads]
    BY <1>2, <1>r DEF ReadStock
  <2>2. stockSeen' \in [Requests -> Nat] /\ batchSeen' \in [Requests -> Requests \cup {None}]
    BY <1>2 DEF ReadStock, TypeOK
  <2> QED
    BY <1>2, <2>1, <2>2 DEF ReadStock, TypeOK, askVars, draftVars, stockVars, invoiceNumberVars
<1>3. CASE ReadLots(r)
  <2>1. todo' \in [Requests -> SUBSET Reads]
    BY <1>3, <1>r DEF ReadLots
  <2>2. lotSeen' \in [Requests -> Lots]
    BY <1>3 DEF ReadLots, TypeOK
  <2>3. lotsKnown' \in [Requests -> SUBSET Requests]
    BY <1>3 DEF ReadLots, TypeOK, Batches, Posted
  <2> QED
    BY <1>3, <2>1, <2>2, <2>3 DEF ReadLots, TypeOK, askVars, draftVars, stockVars, invoiceNumberVars
<1>4. CASE ReadDocument(r)
  <2>1. todo' \in [Requests -> SUBSET Reads]
    BY <1>4, <1>r DEF ReadDocument
  <2>2. "document" \in ReadsOf(kind[r]) /\ kind[r] \in Kinds /\ phase[r] # "idle"
    BY <1>4 DEF ReadDocument, Reading, ReadsAsked, TypeOK
  <2>3. kind[r] \in {"return", "reversal", "creditNote", "cancel", "numbering"}
    BY <2>2 DEF ReadsOf, Kinds, Numbered, Adjustments
  <2>4. kind[r] # "numbering" => quantity[of[r]] \in Nat
    BY <2>2, <2>3 DEF DocumentsNamed, Posted, TypeOK
  <2>5. Cardinality({s \in Posted("sale") : year[s] = year[r]}) \in Nat
    BY RequestAssumption, FS_Subset, FS_CardinalityType DEF Posted
  <2>6. Returned(of[r]) \in Nat
    BY ReturnedNat
  <2>7. Remaining(r) \in Int
    BY <2>4, <2>5, <2>6 DEF Remaining
  <2>8. openSeen' \in [Requests -> Int]
    BY <1>4, <2>7 DEF ReadDocument, TypeOK
  <2> QED
    BY <1>4, <2>1, <2>8 DEF ReadDocument, TypeOK, askVars, draftVars, stockVars, invoiceNumberVars
<1>5. CASE ReadYear(r)
  <2>1. todo' \in [Requests -> SUBSET Reads]
    BY <1>5, <1>r DEF ReadYear
  <2>2. modeSeen' \in [Requests -> Modes]
    BY <1>5 DEF ReadYear, TypeOK
  <2> QED
    BY <1>5, <2>1, <2>2 DEF ReadYear, TypeOK, askVars, draftVars, stockVars, invoiceNumberVars
<1>6. CASE ReadNumbers(r)
  <2>1. todo' \in [Requests -> SUBSET Reads]
    BY <1>6, <1>r DEF ReadNumbers
  <2>2. orgSeen' \in [Requests -> Nat] /\ fySeen' \in [Requests -> Nat]
    BY <1>6 DEF ReadNumbers, TypeOK
  <2> QED
    BY <1>6, <2>1, <2>2 DEF ReadNumbers, TypeOK, askVars, draftVars, stockVars, invoiceNumberVars
<1>7. CASE ReadBill(r)
  <2>1. todo' \in [Requests -> SUBSET Reads]
    BY <1>7, <1>r DEF ReadBill
  <2>2. Cardinality(Posted(kind[r])) \in Nat
    BY PostedCount DEF TypeOK
  <2>3. billSeen' \in [Requests -> Nat]
    BY <1>7, <2>2 DEF ReadBill, TypeOK
  <2> QED
    BY <1>7, <2>1, <2>3 DEF ReadBill, TypeOK, askVars, draftVars, stockVars, invoiceNumberVars
<1>8. CASE ReadVoucher(r)
  <2>1. todo' \in [Requests -> SUBSET Reads]
    BY <1>8, <1>r DEF ReadVoucher
  <2>2. kind[r] \in Kinds /\ "voucher" \in ReadsOf(kind[r])
    BY <1>8 DEF ReadVoucher, Reading, ReadsAsked, TypeOK
  <2>3. kind[r] \in Numbered
    BY <2>2, VoucherAsked
  <2>4. number' \in [Requests -> Nat]
    BY <1>8, <2>3 DEF ReadVoucher, TypeOK
  <2> QED
    BY <1>8, <2>1, <2>4 DEF ReadVoucher, TypeOK, askVars, seenVars, draftVars, stockVars, invoiceNumberVars
<1> QED
  BY <1>0, <1>1, <1>2, <1>3, <1>4, <1>5, <1>6, <1>7, <1>8 DEF Read

(* What the parts of a write transaction leave behind.                     *)
LEMMA CommitPart ==
  ASSUME NEW r \in Requests, NEW k, TypeOK, Commit(r, k)
  PROVE  /\ phase' \in [Requests -> Phases]
         /\ todo' \in [Requests -> SUBSET Reads]
         /\ stockSeen' \in [Requests -> Nat]
         /\ batchSeen' \in [Requests -> Requests \cup {None}]
         /\ lotSeen' \in [Requests -> Lots]
         /\ lotsKnown' \in [Requests -> SUBSET Requests]
         /\ openSeen' \in [Requests -> Int]
         /\ modeSeen' \in [Requests -> Modes]
         /\ orgSeen' \in [Requests -> Nat] /\ fySeen' \in [Requests -> Nat]
         /\ billSeen' \in [Requests -> Nat]
         /\ kind[r] = k
         /\ UNCHANGED <<kind, of, quantity, year, key, wanted, number>>
PROOF
<1>1. Forget(r)
  BY DEF Commit
<1>2. phase' \in [Requests -> Phases]
  BY DEF Commit, TypeOK, Phases
<1> QED
  BY <1>1, <1>2, ForgetTyped DEF Commit, askVars

LEMMA VoucherPart ==
  ASSUME NEW r \in Requests, TypeOK, kind[r] \in Numbered, AdvanceVoucher(r)
  PROVE  next' \in [Numbered -> [Years -> Nat]]
PROOF
<1>1. number[r] \in Nat /\ number[r] + 1 \in Nat /\ year[r] \in Years
  BY DEF TypeOK
<1>2. next[kind[r]] \in [Years -> Nat] /\ next[kind[r]][year[r]] \in Nat
  BY <1>1 DEF TypeOK
<1> DEFINE n == Larger(next[kind[r]][year[r]], number[r] + 1)
<1>3. n \in Nat
  BY <1>1, <1>2, LargerNat
<1>4. [next[kind[r]] EXCEPT ![year[r]] = n] \in [Years -> Nat]
  BY <1>2, <1>3
<1> QED
  BY <1>3, <1>4 DEF AdvanceVoucher, TypeOK

LEMMA SequenceNat == ASSUME NEW r \in Requests, TypeOK
                     PROVE  Sequence(r) \in Nat /\ Label(r) \in Years \cup {None}
PROOF
  BY DEF TypeOK, Sequence, Label

LEMMA NumberPart ==
  ASSUME NEW r \in Requests, TypeOK, TakeInvoiceNumber(r)
  PROVE  /\ label' \in [Requests -> Years \cup {None}] /\ seq' \in [Requests -> Nat]
         /\ orgNext' \in Nat /\ fyNext' \in [Years -> Nat]
PROOF
<1>1. Sequence(r) \in Nat /\ Label(r) \in Years \cup {None}
  BY SequenceNat
<1>2. Sequence(r) + 1 \in Nat
  BY <1>1
<1>3. label' \in [Requests -> Years \cup {None}] /\ seq' \in [Requests -> Nat]
  BY <1>1 DEF TakeInvoiceNumber, TypeOK
<1>4. orgNext' \in Nat
  <2>1. orgNext \in Nat
    BY DEF TypeOK
  <2>2. Larger(orgNext, Sequence(r) + 1) \in Nat
    BY <1>2, <2>1, LargerNat
  <2> QED
    BY <2>1, <2>2 DEF TakeInvoiceNumber
<1>5. fyNext' \in [Years -> Nat]
  <2>1. fyNext[year[r]] \in Nat
    BY DEF TypeOK
  <2>2. Larger(fyNext[year[r]], Sequence(r) + 1) \in Nat
    BY <1>2, <2>1, LargerNat
  <2> QED
    BY <2>2 DEF TakeInvoiceNumber, TypeOK
<1> QED
  BY <1>3, <1>4, <1>5

LEMMA MovePart ==
  ASSUME NEW d \in Int, TypeOK, Move(d)
  PROVE  stock' \in Nat /\ moved' \in Int
PROOF
<1>1. stock \in Nat /\ moved \in Int
  BY DEF TypeOK
<1>2. stock + d \in Nat /\ stock' = stock + d /\ moved' = moved + d
  BY <1>1 DEF Move
<1> QED
  BY <1>1, <1>2

(* What an adjustment writes of the batches are quantities.                *)
LEMMA RebatchedTyped ==
  ASSUME NEW r \in Requests, TypeOK, kind[r] \in Adjustments, NEW l \in Rebatched(r)
  PROVE  l \in Lots
PROOF
<1>1. lotSeen[r] \in Lots /\ quantity[r] \in Nat
  BY DEF TypeOK
<1>2. CASE kind[r] = "transfer"
  BY <1>1, <1>2 DEF Rebatched
<1>3. CASE kind[r] = "stockIn"
  <2>1. PICK p : l = [lotSeen[r] EXCEPT ![p] = @ + quantity[r]]
    BY <1>3 DEF Rebatched
  <2>2. ASSUME NEW x \in Requests PROVE l[x] \in Nat
    <3>1. lotSeen[r][x] \in Nat /\ lotSeen[r][x] + quantity[r] \in Nat
      BY <1>1 DEF Lots
    <3>2. l[x] = lotSeen[r][x] \/ l[x] = lotSeen[r][x] + quantity[r]
      BY <1>1, <2>1 DEF Lots
    <3> QED
      BY <3>1, <3>2
  <2>3. l = [x \in Requests |-> l[x]]
    BY <1>1, <2>1 DEF Lots
  <2> QED
    BY <2>2, <2>3 DEF Lots
<1>4. CASE kind[r] = "stockOut"
  <2>1. PICK t \in Splits(r) : l = [p \in Requests |-> lotSeen[r][p] - t[p]]
    BY <1>4 DEF Rebatched
  <2>2. ASSUME NEW p \in Requests PROVE lotSeen[r][p] - t[p] \in Nat
    <3>1. t[p] \in 0 .. quantity[r] /\ t[p] <= IF p \in Eligible(r) THEN lotSeen[r][p] ELSE 0
      BY <2>1 DEF Splits
    <3>2. lotSeen[r][p] \in Nat /\ t[p] \in Int
      BY <1>1, <3>1 DEF Lots
    <3>3. t[p] <= lotSeen[r][p]
      BY <3>1, <3>2
    <3> QED
      BY <3>2, <3>3
  <2> QED
    BY <2>1, <2>2 DEF Lots
<1> QED
  BY <1>2, <1>3, <1>4 DEF Adjustments

LEMMA CommitTyped == ASSUME NEW r \in Requests, TypeOK, Transaction(r), ~ AbortCancel(r) PROVE TypeOK'
PROOF
<1>0. quantity[r] \in Nat /\ - quantity[r] \in Int /\ year[r] \in Years
  BY DEF TypeOK
<1>1. CASE CommitSale(r)
  <2>1. Commit(r, "sale") /\ AdvanceVoucher(r) /\ TakeInvoiceNumber(r) /\ Move(- quantity[r])
    BY <1>1 DEF CommitSale
  <2>2. PICK t \in Splits(r) :
          /\ \A p \in Requests : t[p] <= lot[p]
          /\ lot' = [p \in Requests |-> lot[p] - t[p]]
          /\ taken' = [taken EXCEPT ![r] = t]
    BY <1>1 DEF CommitSale
  <2>3. t \in [Requests -> 0 .. quantity[r]]
    BY <2>2 DEF Splits
  <2>4. t \in Lots
    BY <1>0, <2>3 DEF Lots
  <2>5. lot' \in Lots
    <3>1. ASSUME NEW p \in Requests PROVE lot[p] - t[p] \in Nat
      <4>1. lot[p] \in Nat /\ t[p] \in Nat
        BY <2>4 DEF TypeOK, Lots
      <4>2. t[p] <= lot[p]
        BY <2>2
      <4> QED
        BY <4>1, <4>2
    <3> QED
      BY <2>2, <3>1 DEF Lots
  <2>6. taken' \in [Requests -> Lots]
    BY <2>2, <2>4 DEF TypeOK
  <2>7. kind[r] \in Numbered
    BY <2>1, CommitPart DEF Numbered
  <2>8. next' \in [Numbered -> [Years -> Nat]]
    BY <2>1, <2>7, VoucherPart
  <2>9. UNCHANGED <<batch, mode>>
    BY <1>1 DEF CommitSale
  <2> QED
    BY <1>0, <2>1, <2>5, <2>6, <2>8, <2>9, CommitPart, NumberPart, MovePart DEF TypeOK
<1>2. CASE CommitPurchase(r)
  <2>1. Commit(r, "purchase") /\ AdvanceVoucher(r) /\ Move(quantity[r])
    BY <1>2 DEF CommitPurchase
  <2>2. lot' \in Lots
    BY <1>0, <1>2 DEF CommitPurchase, TypeOK, Lots
  <2>3. next' \in [Numbered -> [Years -> Nat]]
    BY <2>1, CommitPart, VoucherPart DEF Numbered
  <2>4. batch' \in Requests \cup {None}
    BY <1>2 DEF CommitPurchase
  <2>5. stock' \in Nat /\ moved' \in Int
    <3>1. quantity[r] \in Int
      BY <1>0
    <3> QED
      BY <2>1, <3>1, MovePart
  <2>6. UNCHANGED <<taken, label, seq, invoiceNumberVars>>
    BY <1>2 DEF CommitPurchase
  <2> QED
    BY <2>1, <2>2, <2>3, <2>4, <2>5, <2>6, CommitPart DEF TypeOK, invoiceNumberVars
<1>3. CASE CommitReturn(r)
  <2>1. Commit(r, "return") /\ AdvanceVoucher(r)
    BY <1>3 DEF CommitReturn
  <2>2. lot' \in Lots
    <3>1. \A p \in Requests : lot[p] >= quantity[r] => lot[p] - quantity[r] \in Nat
      BY <1>0 DEF TypeOK, Lots
    <3>2. lot \in Lots /\ lot' = [lot EXCEPT ![of[r]] = IF @ >= quantity[r] THEN @ - quantity[r] ELSE @]
      BY <1>3 DEF CommitReturn, TypeOK
    <3> QED
      BY <3>1, <3>2 DEF Lots
  <2>3. next' \in [Numbered -> [Years -> Nat]]
    BY <2>1, CommitPart, VoucherPart DEF Numbered
  <2>4. stock' \in Nat /\ moved' \in Int
    BY <1>0, <1>3 DEF CommitReturn, TypeOK
  <2>5. UNCHANGED <<batch, taken, label, seq, invoiceNumberVars>>
    BY <1>3 DEF CommitReturn
  <2> QED
    BY <2>1, <2>2, <2>3, <2>4, <2>5, CommitPart DEF TypeOK, invoiceNumberVars
<1>4. CASE CommitCreditNote(r)
  <2>1. Commit(r, "creditNote") /\ AdvanceVoucher(r) /\ Move(quantity[r])
    BY <1>4 DEF CommitCreditNote
  <2>2. lot' \in Lots
    <3>1. PICK p : lot' = [x \in Requests |-> IF x = p THEN lot[x] + quantity[r] ELSE lot[x]]
      BY <1>4 DEF CommitCreditNote
    <3>2. \A x \in Requests : lot[x] \in Nat /\ lot[x] + quantity[r] \in Nat
      BY <1>0 DEF TypeOK, Lots
    <3> QED
      BY <3>1, <3>2 DEF Lots
  <2>3. next' \in [Numbered -> [Years -> Nat]]
    BY <2>1, CommitPart, VoucherPart DEF Numbered
  <2>4. stock' \in Nat /\ moved' \in Int
    <3>1. quantity[r] \in Int
      BY <1>0
    <3> QED
      BY <2>1, <3>1, MovePart
  <2>5. UNCHANGED <<batch, taken, label, seq, invoiceNumberVars>>
    BY <1>4 DEF CommitCreditNote
  <2> QED
    BY <2>1, <2>2, <2>3, <2>4, <2>5, CommitPart DEF TypeOK, invoiceNumberVars
<1>5. CASE CommitReversal(r)
  <2>1. Commit(r, "reversal") /\ Move(- quantity[r])
    BY <1>5 DEF CommitReversal
  <2>2. lot' \in Lots
    <3>1. of[r] \in Requests => lot[of[r]] - quantity[r] \in Nat
      BY <1>0, <1>5 DEF CommitReversal, TypeOK, Lots
    <3>2. lot \in Lots /\ lot' = [lot EXCEPT ![of[r]] = @ - quantity[r]]
      BY <1>5 DEF CommitReversal, TypeOK
    <3> QED
      BY <3>1, <3>2 DEF Lots
  <2>3. UNCHANGED <<batch, taken, label, seq, invoiceNumberVars, next>>
    BY <1>5 DEF CommitReversal
  <2>4. stock' \in Nat /\ moved' \in Int
    BY <1>0, <2>1, MovePart
  <2> QED
    BY <2>1, <2>2, <2>3, <2>4, CommitPart DEF TypeOK, invoiceNumberVars
<1>6. CASE CommitEdit(r)
  <2>1. Commit(r, "edit")
    BY <1>6 DEF CommitEdit
  <2>2. stock' \in Nat /\ moved' \in Int
    BY <1>0, <1>6 DEF CommitEdit, TypeOK
  <2>3. batch' \in Requests \cup {None}
    BY <1>6 DEF CommitEdit, TypeOK
  <2>4. UNCHANGED <<lot, taken, label, seq, invoiceNumberVars, next>>
    BY <1>6 DEF CommitEdit
  <2> QED
    BY <2>1, <2>2, <2>3, <2>4, CommitPart DEF TypeOK, invoiceNumberVars
<1>7. CASE CommitNumbering(r)
  <2>1. Commit(r, "numbering")
    BY <1>7 DEF CommitNumbering
  <2>2. mode' \in [Years -> Modes] /\ fyNext' \in [Years -> Nat]
    BY <1>0, <1>7 DEF CommitNumbering, TypeOK
  <2>3. UNCHANGED <<label, seq, stockVars, orgNext, next>>
    BY <1>7 DEF CommitNumbering
  <2> QED
    BY <2>1, <2>2, <2>3, CommitPart DEF TypeOK, stockVars
<1>8. CASE CommitAdjustment(r)
  <2>1. Commit(r, kind[r]) /\ kind[r] \in Adjustments
    BY <1>8 DEF CommitAdjustment
  <2>2. stockSeen[r] \in Nat /\ moved \in Int /\ lotSeen[r] \in Lots /\ lot \in Lots
    BY DEF TypeOK
  <2>3. Delta(r) \in Int /\ stockSeen[r] + Delta(r) \in Nat
    <3>1. CASE kind[r] = "stockIn"
      <4>1. Delta(r) = quantity[r]
        BY <3>1 DEF Delta
      <4> QED
        BY <1>0, <2>2, <4>1
    <3>2. CASE kind[r] = "stockOut"
      <4>1. Delta(r) = - quantity[r] /\ quantity[r] <= stockSeen[r]
        BY <1>8, <3>2 DEF Delta, CommitAdjustment
      <4> QED
        BY <1>0, <2>2, <4>1
    <3>3. CASE kind[r] = "transfer"
      BY <2>2, <3>3 DEF Delta
    <3> QED
      BY <2>1, <3>1, <3>2, <3>3 DEF Adjustments
  <2>4. stock' \in Nat /\ moved' \in Int
    BY <1>8, <2>2, <2>3 DEF CommitAdjustment
  <2>5. batch' \in Requests \cup {None}
    BY <1>8 DEF CommitAdjustment, TypeOK
  <2>6. PICK l \in Rebatched(r) :
          lot' = [p \in Requests |-> IF p \in lotsKnown[r] \cup {r} THEN l[p] ELSE lot[p]]
    BY <1>8 DEF CommitAdjustment
  <2>7. l \in Lots
    BY <2>1, <2>6, RebatchedTyped
  <2>8. lot' \in Lots
    BY <2>2, <2>6, <2>7 DEF Lots
  <2>9. UNCHANGED <<taken, label, seq, invoiceNumberVars, next>>
    BY <1>8 DEF CommitAdjustment
  <2> QED
    BY <2>1, <2>4, <2>5, <2>8, <2>9, CommitPart DEF TypeOK, invoiceNumberVars
<1> QED
  BY <1>1, <1>2, <1>3, <1>4, <1>5, <1>6, <1>7, <1>8 DEF Transaction

LEMMA TypedStep == TypeOK /\ ReadsAsked /\ DocumentsNamed /\ [Next]_vars => TypeOK'
PROOF
<1>1. UNCHANGED vars /\ TypeOK => TypeOK'
  BY DEF vars, TypeOK, askVars, seenVars, draftVars, stockVars, invoiceNumberVars
<1> QED
  BY <1>1, SubmitTyped, ReadTyped, CommitTyped DEF Next

(* The kinds of calls that are made are those a behaviour may make, and a  *)
(* call that does not run has forgotten the mode it read.                  *)
CallsAllowed == \A r \in Requests : phase[r] # "idle" => kind[r] \in Operations
ModesForgotten == \A r \in Requests : phase[r] # "active" => modeSeen[r] = "CONTINUE"

(* A year restarts its numbers when some call has asked for it and is done;*)
(* so it was when a call read that it does, and when an invoice was given a*)
(* number with the year's label.                                           *)
Restarted(y) == \E d \in Restarts(y) : phase[d] = "done"
ModesAsked == \A y \in Years : mode[y] = "RESTART" => Restarted(y)
ModesSeenAsked == \A r \in Requests : modeSeen[r] = "RESTART" => Restarted(year[r])
LabelsAsked == \A s \in Posted("sale") : label[s] # None => Restarted(label[s])

SequencesFresh == \A s \in Posted("sale") : (\A x, y \in Restarts(label[s]) : x = y) => Ahead(s)
NumbersDistinct ==
  \A s, t \in Posted("sale") : label[s] = label[t] /\ seq[s] = seq[t] => s = t

IInv == /\ TypeOK /\ ReadsAsked /\ DocumentsNamed /\ CallsAllowed /\ ModesForgotten
        /\ ModesAsked /\ ModesSeenAsked /\ LabelsAsked
        /\ SequencesFresh /\ NumbersDistinct /\ OneDocumentPerKey

LEMMA InitIInv == Init => IInv
PROOF
<1> USE RequestAssumption, QuantityAssumption
<1> SUFFICES ASSUME Init PROVE IInv
  OBVIOUS
<1>2. \A k \in Kinds : Posted(k) = {}
  BY DEF Init, Posted
<1>3. NoLots \in Lots
  BY DEF NoLots, Lots
<1>4. (CHOOSE y \in Years : TRUE) \in Years
  BY DEF Init
<1>5. TypeOK
  BY <1>3, <1>4 DEF Init, TypeOK, Phases, Kinds, Numbered, Modes
<1>6. ReadsAsked /\ DocumentsNamed /\ CallsAllowed /\ ModesForgotten
  BY DEF Init, ReadsAsked, DocumentsNamed, CallsAllowed, ModesForgotten
<1>7. ModesAsked /\ ModesSeenAsked
  BY DEF Init, ModesAsked, ModesSeenAsked
<1>8. Posted("sale") = {} /\ Posted("purchase") = {} /\ Posted("return") = {}
  BY <1>2 DEF Kinds, Numbered
<1>9. LabelsAsked /\ SequencesFresh /\ NumbersDistinct
  BY <1>8 DEF LabelsAsked, SequencesFresh, NumbersDistinct
<1>10. OneDocumentPerKey
  BY <1>8 DEF OneDocumentPerKey, Keyed
<1> QED
  BY <1>5, <1>6, <1>7, <1>9, <1>10 DEF IInv

-----------------------------------------------------------------------------
(* A step is quiet, which posts nothing, or it posts one document.         *)

Call(r) == <<kind[r], year[r], key[r], wanted[r]>>

Quiet(r) ==
  /\ UNCHANGED <<stockVars, invoiceNumberVars, next, label, seq>>
  /\ phase[r] \in {"idle", "active"} /\ phase'[r] \in Phases \ {"idle", "done"}
  /\ phase[r] = "active" => UNCHANGED Call(r)
  /\ \A q \in Requests : q # r => phase'[q] = phase[q] /\ UNCHANGED Call(q)

Posting(r) ==
  /\ phase[r] = "active" /\ todo[r] = {}
  /\ phase' = [phase EXCEPT ![r] = "done"]
  /\ UNCHANGED askVars

LEMMA QuietStep ==
  ASSUME NEW r \in Requests, TypeOK, Submit(r) \/ Refuse(r) \/ AbortCancel(r) \/ Read(r)
  PROVE  Quiet(r)
PROOF
<1> USE DEF Quiet, Call, TypeOK, Phases
<1>1. CASE Submit(r)
  <2>1. /\ \E k \in Operations : kind' = [kind EXCEPT ![r] = k]
        /\ \E y \in Years : year' = [year EXCEPT ![r] = y]
        /\ \E x : key' = [key EXCEPT ![r] = x]
        /\ \E m : wanted' = [wanted EXCEPT ![r] = m]
    BY <1>1 DEF Submit, Fill
  <2>2. \A q \in Requests : q # r => UNCHANGED Call(q)
    BY <2>1
  <2>3. phase[r] = "idle" /\ phase' = [phase EXCEPT ![r] = "active"]
    BY <1>1 DEF Submit
  <2>4. UNCHANGED <<stockVars, invoiceNumberVars, next, label, seq>>
    BY <1>1 DEF Submit, draftVars
  <2> QED
    BY <2>2, <2>3, <2>4
<1>2. CASE Refuse(r) \/ AbortCancel(r) \/ AnswerSame(r)
  <2>1. phase[r] = "active" /\ \E f \in {"failed", "aborted", "same"} : phase' = [phase EXCEPT ![r] = f]
    BY <1>2 DEF Refuse, AbortCancel, AnswerSame
  <2>2. UNCHANGED <<askVars, label, seq, stockVars, invoiceNumberVars, next>>
    BY <1>2 DEF Refuse, AbortCancel, AnswerSame, Discard
  <2> QED
    BY <2>1, <2>2 DEF askVars
<1>3. CASE Read(r) /\ ~ AnswerSame(r)
  <2>1. phase[r] = "active" /\ UNCHANGED <<phase, askVars, stockVars, invoiceNumberVars, next, label, seq>>
    BY <1>3 DEF Read, Reading, ReadKey, ReadStock, ReadLots, ReadDocument, ReadYear, ReadNumbers, ReadBill,
                ReadVoucher, draftVars
  <2> QED
    BY <2>1 DEF askVars
<1> QED
  BY <1>1, <1>2, <1>3

LEMMA PostingStep ==
  ASSUME NEW r \in Requests, TypeOK, Transaction(r), ~ AbortCancel(r)
  PROVE  Posting(r) /\ modeSeen' = [modeSeen EXCEPT ![r] = "CONTINUE"] /\ todo' = [todo EXCEPT ![r] = {}]
PROOF
<1>1. \E k \in Kinds : Commit(r, k)
  BY DEF Transaction, CommitSale, CommitPurchase, CommitReturn, CommitCreditNote, CommitReversal, CommitEdit,
         CommitAdjustment, CommitNumbering, Kinds, Numbered
<1> QED
  BY <1>1 DEF Commit, Forget, Posting

LEMMA QuietPosted ==
  ASSUME NEW r \in Requests, TypeOK, Quiet(r)
  PROVE  /\ \A k \in Kinds : Posted(k)' = Posted(k) /\ r \notin Posted(k)
         /\ \A y : Restarts(y) \subseteq Restarts(y)'
         /\ \A y : Restarted(y) => Restarted(y)'
PROOF
<1>1. phase[r] # "done" /\ phase'[r] # "done" /\ phase'[r] # "idle"
  BY DEF Quiet
<1>2. \A q \in Requests : q # r => phase'[q] = phase[q] /\ kind'[q] = kind[q] /\ year'[q] = year[q] /\ wanted'[q] = wanted[q]
  BY DEF Quiet, Call
<1>3. phase[r] # "idle" => kind'[r] = kind[r] /\ year'[r] = year[r] /\ wanted'[r] = wanted[r]
  BY DEF Quiet, Call
<1>4. \A k \in Kinds : Posted(k)' = Posted(k) /\ r \notin Posted(k)
  BY <1>1, <1>2 DEF Posted
<1>5. \A y : Restarts(y) \subseteq Restarts(y)'
  BY <1>1, <1>2, <1>3 DEF Restarts
<1>6. \A y : Restarted(y) => Restarted(y)'
  <2>1. \A d \in Requests : phase[d] = "done" => phase'[d] = "done"
    BY <1>1, <1>2
  <2> QED
    BY <1>5, <2>1 DEF Restarted, Restarts
<1> QED
  BY <1>4, <1>5, <1>6

LEMMA PostingPosted ==
  ASSUME NEW r \in Requests, TypeOK, Posting(r)
  PROVE  /\ \A k \in Kinds : /\ r \notin Posted(k)
                             /\ Posted(k)' = IF kind[r] = k THEN Posted(k) \cup {r} ELSE Posted(k)
         /\ \A y : Restarts(y)' = Restarts(y)
         /\ \A y : Restarted(y) => Restarted(y)'
PROOF
<1>1. phase[r] = "active" /\ phase' = [phase EXCEPT ![r] = "done"] /\ UNCHANGED <<kind, year, wanted>>
  BY DEF Posting, askVars
<1>2. \A q \in Requests : phase'[q] = IF q = r THEN "done" ELSE phase[q]
  BY <1>1 DEF TypeOK
<1>3. \A k \in Kinds : /\ r \notin Posted(k)
                     /\ Posted(k)' = IF kind[r] = k THEN Posted(k) \cup {r} ELSE Posted(k)
  BY <1>1, <1>2 DEF Posted
<1>4. \A y : Restarts(y)' = Restarts(y)
  BY <1>1, <1>2 DEF Restarts
<1>5. \A y : Restarted(y) => Restarted(y)'
  BY <1>2, <1>4 DEF Restarted, Restarts
<1> QED
  BY <1>3, <1>4, <1>5

-----------------------------------------------------------------------------
(* The parts of the invariant that say what calls ask for and have read.   *)

LEMMA ReadsAskedStep ==
  ASSUME NEW r \in Requests, TypeOK, ReadsAsked, Submit(r) \/ Refuse(r) \/ Read(r) \/ Transaction(r)
  PROVE  ReadsAsked'
PROOF
<1>1. CASE Submit(r)
  <2>1. PICK k \in Operations :
          kind' = [kind EXCEPT ![r] = k] /\ todo' = [todo EXCEPT ![r] = ReadsOf(k)]
    BY <1>1 DEF Submit, Fill
  <2> QED
    BY <2>1 DEF ReadsAsked, TypeOK
<1>2. CASE Refuse(r) \/ AnswerSame(r) \/ AbortCancel(r)
  <2>1. todo' = [todo EXCEPT ![r] = {}] /\ UNCHANGED kind
    BY <1>2 DEF Refuse, AnswerSame, AbortCancel, Discard, Forget, askVars
  <2> QED
    BY <2>1 DEF ReadsAsked, TypeOK
<1>3. CASE Read(r) /\ ~ AnswerSame(r)
  <2>1. (\E part : todo' = [todo EXCEPT ![r] = @ \ {part}]) /\ UNCHANGED kind
    BY <1>3 DEF Read, Reading, ReadKey, ReadStock, ReadLots, ReadDocument, ReadYear, ReadNumbers, ReadBill,
                ReadVoucher, askVars
  <2> QED
    BY <2>1 DEF ReadsAsked, TypeOK
<1>4. CASE Transaction(r) /\ ~ AbortCancel(r)
  <2>1. todo' = [todo EXCEPT ![r] = {}] /\ UNCHANGED kind
    BY <1>4, PostingStep DEF Posting, askVars
  <2> QED
    BY <2>1 DEF ReadsAsked, TypeOK
<1> QED
  BY <1>1, <1>2, <1>3, <1>4

LEMMA CallsAllowedStep ==
  ASSUME NEW r \in Requests, TypeOK, CallsAllowed, Submit(r) \/ Refuse(r) \/ Read(r) \/ Transaction(r)
  PROVE  CallsAllowed'
PROOF
<1>1. CASE Submit(r)
  <2>1. PICK k \in Operations : kind' = [kind EXCEPT ![r] = k]
    BY <1>1 DEF Submit, Fill
  <2>2. phase' = [phase EXCEPT ![r] = "active"]
    BY <1>1 DEF Submit
  <2> QED
    BY <2>1, <2>2 DEF CallsAllowed, TypeOK
<1>2. CASE ~ Submit(r) /\ (Refuse(r) \/ AbortCancel(r) \/ Read(r))
  <2>1. phase[r] = "active" /\ Quiet(r)
    BY <1>2, QuietStep DEF Refuse, AbortCancel, Read, Reading, ReadKey, AnswerSame, ReadStock, ReadLots,
       ReadDocument, ReadYear, ReadNumbers, ReadBill, ReadVoucher
  <2> QED
    BY <2>1 DEF CallsAllowed, Quiet, Call
<1>3. CASE Transaction(r) /\ ~ AbortCancel(r)
  <2>1. Posting(r)
    BY <1>3, PostingStep
  <2> QED
    BY <2>1 DEF CallsAllowed, Posting, askVars, TypeOK
<1> QED
  BY <1>1, <1>2, <1>3

LEMMA ModesForgottenStep ==
  ASSUME NEW r \in Requests, TypeOK, ModesForgotten, Submit(r) \/ Refuse(r) \/ Read(r) \/ Transaction(r)
  PROVE  ModesForgotten'
PROOF
<1>1. CASE Submit(r)
  BY <1>1 DEF Submit, ModesForgotten, TypeOK, seenVars
<1>2. CASE Refuse(r) \/ AnswerSame(r) \/ AbortCancel(r)
  <2>1. modeSeen' = [modeSeen EXCEPT ![r] = "CONTINUE"]
    BY <1>2 DEF Refuse, AnswerSame, AbortCancel, Discard, Forget
  <2>2. Quiet(r)
    BY <1>2, QuietStep DEF Read
  <2> QED
    BY <2>1, <2>2 DEF ModesForgotten, Quiet, TypeOK
<1>3. CASE Read(r) /\ ~ AnswerSame(r)
  <2>1. phase[r] = "active" /\ UNCHANGED phase
    BY <1>3 DEF Read, Reading, ReadKey, ReadStock, ReadLots, ReadDocument, ReadYear, ReadNumbers, ReadBill,
                ReadVoucher
  <2>2. \A q \in Requests : q # r => modeSeen'[q] = modeSeen[q]
    BY <1>3 DEF Read, Reading, ReadKey, ReadStock, ReadLots, ReadDocument, ReadYear, ReadNumbers, ReadBill,
                ReadVoucher, seenVars, TypeOK
  <2> QED
    BY <2>1, <2>2 DEF ModesForgotten
<1>4. CASE Transaction(r) /\ ~ AbortCancel(r)
  <2>1. Posting(r) /\ modeSeen' = [modeSeen EXCEPT ![r] = "CONTINUE"]
    BY <1>4, PostingStep
  <2>2. \A q \in Requests : q # r => phase'[q] = phase[q] /\ modeSeen'[q] = modeSeen[q]
    BY <2>1 DEF Posting, TypeOK
  <2>3. modeSeen'[r] = "CONTINUE"
    BY <2>1 DEF TypeOK
  <2> QED
    BY <2>2, <2>3 DEF ModesForgotten
<1> QED
  BY <1>1, <1>2, <1>3, <1>4

LEMMA ModesAskedStep ==
  ASSUME NEW r \in Requests, TypeOK, ModesAsked, Submit(r) \/ Refuse(r) \/ Read(r) \/ Transaction(r)
  PROVE  ModesAsked'
PROOF
<1>1. CASE Submit(r) \/ Refuse(r) \/ Read(r) \/ AbortCancel(r)
  <2>1. Quiet(r)
    BY <1>1, QuietStep
  <2> QED
    BY <2>1, QuietPosted DEF ModesAsked, Quiet, invoiceNumberVars
<1>2. CASE Transaction(r) /\ ~ AbortCancel(r)
  <2>1. Posting(r)
    BY <1>2, PostingStep
  <2>2. \A y : Restarted(y) => Restarted(y)'
    BY <2>1, PostingPosted
  <2>3. CASE CommitNumbering(r)
    <3>1. mode' = [mode EXCEPT ![year[r]] = wanted[r]] /\ kind[r] = "numbering"
      BY <2>3 DEF CommitNumbering, Commit
    <3>2. ASSUME NEW y, wanted[r] = "RESTART", y = year[r] PROVE Restarted(y)'
      <4>1. phase' = [phase EXCEPT ![r] = "done"] /\ UNCHANGED <<kind, wanted, year>>
        BY <2>1 DEF Posting, askVars
      <4>2. r \in Restarts(y)'
        BY <3>1, <3>2, <4>1 DEF Restarts, TypeOK
      <4> QED
        BY <4>1, <4>2 DEF Restarted, TypeOK
    <3> QED
      BY <2>2, <3>1, <3>2 DEF ModesAsked, TypeOK
  <2>4. CASE ~ CommitNumbering(r)
    <3>1. UNCHANGED mode
      BY <1>2, <2>4 DEF Transaction, CommitSale, CommitPurchase, CommitReturn, CommitCreditNote, CommitReversal,
                        CommitEdit, CommitAdjustment, invoiceNumberVars
    <3> QED
      BY <2>2, <3>1 DEF ModesAsked
  <2> QED
    BY <2>3, <2>4
<1> QED
  BY <1>1, <1>2

LEMMA ModesSeenAskedStep ==
  ASSUME NEW r \in Requests, TypeOK, ModesForgotten, ModesAsked, ModesSeenAsked,
         Submit(r) \/ Refuse(r) \/ Read(r) \/ Transaction(r)
  PROVE  ModesSeenAsked'
PROOF
<1>1. CASE Submit(r)
  <2>1. Quiet(r) /\ UNCHANGED modeSeen /\ phase[r] = "idle"
    BY <1>1, QuietStep DEF Submit, seenVars
  <2>2. modeSeen[r] = "CONTINUE"
    BY <2>1 DEF ModesForgotten
  <2>3. \A q \in Requests : q # r => year'[q] = year[q]
    BY <2>1 DEF Quiet, Call
  <2> QED
    BY <2>1, <2>2, <2>3, QuietPosted DEF ModesSeenAsked
<1>2. CASE Refuse(r) \/ Read(r) \/ AbortCancel(r)
  <2>1. Quiet(r)
    BY <1>2, QuietStep
  <2>2. UNCHANGED year
    BY <1>2 DEF Refuse, AbortCancel, Read, Reading, ReadKey, AnswerSame, ReadStock, ReadLots, ReadDocument,
                ReadYear, ReadNumbers, ReadBill, ReadVoucher, Discard, askVars
  <2>3. \/ UNCHANGED modeSeen \/ modeSeen' = [modeSeen EXCEPT ![r] = "CONTINUE"]
        \/ modeSeen' = [modeSeen EXCEPT ![r] = mode[year[r]]]
    BY <1>2 DEF Refuse, AbortCancel, Read, Reading, ReadKey, AnswerSame, ReadStock, ReadLots, ReadDocument,
                ReadYear, ReadNumbers, ReadBill, ReadVoucher, Discard, Forget, seenVars
  <2>4. mode[year[r]] = "RESTART" => Restarted(year[r])
    BY DEF ModesAsked, TypeOK
  <2> QED
    BY <2>1, <2>2, <2>3, <2>4, QuietPosted DEF ModesSeenAsked, TypeOK
<1>3. CASE Transaction(r) /\ ~ AbortCancel(r)
  <2>1. Posting(r) /\ modeSeen' = [modeSeen EXCEPT ![r] = "CONTINUE"]
    BY <1>3, PostingStep
  <2>2. UNCHANGED year
    BY <2>1 DEF Posting, askVars
  <2> QED
    BY <2>1, <2>2, PostingPosted DEF ModesSeenAsked, TypeOK
<1> QED
  BY <1>1, <1>2, <1>3

-----------------------------------------------------------------------------
(* Invoice numbers.  NumberStep: what a posting does to labels, sequences  *)
(* and the next numbers.                                                   *)

Numberless(r) == UNCHANGED <<label, seq, orgNext, fyNext>> /\ kind[r] # "sale"

Restarting(r) ==
  /\ kind[r] = "numbering" /\ wanted[r] = "RESTART" /\ UNCHANGED <<label, seq, orgNext>>
  /\ fyNext' = [fyNext EXCEPT ![year[r]] = 1]

LEMMA NumberStep ==
  ASSUME NEW r \in Requests, TypeOK, Transaction(r), ~ AbortCancel(r)
  PROVE  \/ Numberless(r)
         \/ Restarting(r)
         \/ kind[r] = "sale" /\ TakeInvoiceNumber(r) /\ InvoiceNumberFree(r)
PROOF
<1>1. CASE CommitSale(r)
  BY <1>1 DEF CommitSale, Commit
<1>2. CASE CommitNumbering(r)
  BY <1>2 DEF CommitNumbering, Commit, Restarting, Numberless, TypeOK, Modes
<1>3. CASE ~ CommitSale(r) /\ ~ CommitNumbering(r)
  BY <1>3 DEF Transaction, CommitPurchase, CommitReturn, CommitCreditNote, CommitReversal, CommitEdit,
              CommitAdjustment, Adjustments, Commit, Numberless, invoiceNumberVars
<1> QED
  BY <1>1, <1>2, <1>3

LEMMA LabelsAskedStep ==
  ASSUME NEW r \in Requests, TypeOK, ModesSeenAsked, LabelsAsked,
         Submit(r) \/ Refuse(r) \/ Read(r) \/ Transaction(r)
  PROVE  LabelsAsked'
PROOF
<1>1. CASE Submit(r) \/ Refuse(r) \/ Read(r) \/ AbortCancel(r)
  <2>1. Quiet(r)
    BY <1>1, QuietStep
  <2>2. Posted("sale")' = Posted("sale") /\ UNCHANGED label
    BY <2>1, QuietPosted DEF Quiet, Kinds, Numbered
  <2> QED
    BY <2>1, <2>2, QuietPosted DEF LabelsAsked
<1>2. CASE Transaction(r) /\ ~ AbortCancel(r)
  <2>1. Posting(r)
    BY <1>2, PostingStep
  <2>2. /\ Posted("sale")' = IF kind[r] = "sale" THEN Posted("sale") \cup {r} ELSE Posted("sale")
        /\ r \notin Posted("sale")
        /\ \A y : Restarted(y) => Restarted(y)'
    BY <2>1, PostingPosted DEF Kinds, Numbered
  <2>3. CASE Numberless(r) \/ Restarting(r)
    BY <2>2, <2>3 DEF LabelsAsked, Numberless, Restarting
  <2>4. CASE kind[r] = "sale" /\ TakeInvoiceNumber(r)
    <3>1. label' = [label EXCEPT ![r] = Label(r)]
      BY <2>4 DEF TakeInvoiceNumber
    <3>2. Label(r) # None => Restarted(Label(r))
      BY DEF Label, ModesSeenAsked
    <3>3. Posted("sale") \subseteq Requests
      BY DEF Posted
    <3> QED
      BY <2>2, <2>4, <3>1, <3>2, <3>3 DEF LabelsAsked, TypeOK
  <2> QED
    BY <1>2, <2>3, <2>4, NumberStep
<1> QED
  BY <1>1, <1>2

LEMMA NumbersDistinctStep ==
  ASSUME NEW r \in Requests, TypeOK, NumbersDistinct, Submit(r) \/ Refuse(r) \/ Read(r) \/ Transaction(r)
  PROVE  NumbersDistinct'
PROOF
<1>1. CASE Submit(r) \/ Refuse(r) \/ Read(r) \/ AbortCancel(r)
  <2>1. Quiet(r)
    BY <1>1, QuietStep
  <2>2. Posted("sale")' = Posted("sale") /\ UNCHANGED <<label, seq>>
    BY <2>1, QuietPosted DEF Quiet, Kinds, Numbered
  <2> QED
    BY <2>2 DEF NumbersDistinct
<1>2. CASE Transaction(r) /\ ~ AbortCancel(r)
  <2>1. Posting(r)
    BY <1>2, PostingStep
  <2>2. /\ Posted("sale")' = IF kind[r] = "sale" THEN Posted("sale") \cup {r} ELSE Posted("sale")
        /\ r \notin Posted("sale") /\ Posted("sale") \subseteq Requests
    BY <2>1, PostingPosted DEF Kinds, Numbered, Posted
  <2>3. CASE Numberless(r) \/ Restarting(r)
    BY <2>2, <2>3 DEF NumbersDistinct, Numberless, Restarting
  <2>4. CASE kind[r] = "sale" /\ TakeInvoiceNumber(r) /\ InvoiceNumberFree(r)
    <3>1. label' = [label EXCEPT ![r] = Label(r)] /\ seq' = [seq EXCEPT ![r] = Sequence(r)]
      BY <2>4 DEF TakeInvoiceNumber
    <3>2. \A s \in Posted("sale") : /\ label'[s] = label[s] /\ seq'[s] = seq[s]
                                   /\ ~ (label[s] = Label(r) /\ seq[s] = Sequence(r))
      BY <2>2, <2>4, <3>1 DEF InvoiceNumberFree, TypeOK
    <3>3. label'[r] = Label(r) /\ seq'[r] = Sequence(r)
      BY <3>1 DEF TypeOK
    <3> QED
      BY <2>2, <2>4, <3>2, <3>3 DEF NumbersDistinct
  <2> QED
    BY <1>2, <2>3, <2>4, NumberStep
<1> QED
  BY <1>1, <1>2

LEMMA SequencesFreshStep ==
  ASSUME NEW r \in Requests, TypeOK, TypeOK', LabelsAsked, SequencesFresh,
         Submit(r) \/ Refuse(r) \/ Read(r) \/ Transaction(r)
  PROVE  SequencesFresh'
PROOF
<1>1. CASE Submit(r) \/ Refuse(r) \/ Read(r) \/ AbortCancel(r)
  <2>1. Quiet(r)
    BY <1>1, QuietStep
  <2>2. Posted("sale")' = Posted("sale") /\ UNCHANGED <<label, seq, orgNext, fyNext>>
    BY <2>1, QuietPosted DEF Quiet, Kinds, Numbered, invoiceNumberVars
  <2>3. \A y : Restarts(y) \subseteq Restarts(y)'
    BY <2>1, QuietPosted
  <2> QED
    BY <2>2, <2>3 DEF SequencesFresh, Ahead
<1>2. CASE Transaction(r) /\ ~ AbortCancel(r)
  <2>1. Posting(r)
    BY <1>2, PostingStep
  <2>2. /\ Posted("sale")' = IF kind[r] = "sale" THEN Posted("sale") \cup {r} ELSE Posted("sale")
        /\ r \notin Posted("sale") /\ Posted("sale") \subseteq Requests
        /\ \A y : Restarts(y)' = Restarts(y)
    BY <2>1, PostingPosted DEF Kinds, Numbered, Posted
  <2>3. CASE Numberless(r)
    BY <2>2, <2>3 DEF SequencesFresh, Ahead, Numberless
  <2>4. CASE Restarting(r)
    <3> SUFFICES ASSUME NEW s \in Posted("sale"), \A x, y \in Restarts(label[s]) : x = y
                 PROVE  Ahead(s)'
      BY <2>2, <2>4 DEF SequencesFresh, Restarting
    <3>1. Ahead(s)
      BY DEF SequencesFresh
    <3>2. CASE label[s] = None
      BY <2>4, <3>1, <3>2 DEF Ahead, Restarting
    <3>3. CASE label[s] # None
      <4>1. PICK d \in Restarts(label[s]) : phase[d] = "done"
        BY <3>3 DEF LabelsAsked, Restarted
      <4>2. d # r
        BY <2>1, <4>1 DEF Posting
      <4>3. year[r] # label[s]
        <5>1. year[r] = label[s] => r \in Restarts(label[s])
          BY <2>1, <2>4 DEF Restarts, Restarting, Posting
        <5> QED
          BY <4>1, <4>2, <5>1
      <4>4. fyNext'[label[s]] = fyNext[label[s]]
        BY <2>2, <2>4, <3>3, <4>3 DEF Restarting, TypeOK
      <4> QED
        BY <2>4, <3>1, <3>3, <4>4 DEF Ahead, Restarting
    <3> QED
      BY <3>2, <3>3
  <2>5. CASE kind[r] = "sale" /\ TakeInvoiceNumber(r)
    <3>1. /\ label' = [label EXCEPT ![r] = Label(r)] /\ seq' = [seq EXCEPT ![r] = Sequence(r)]
          /\ fyNext' = [fyNext EXCEPT ![year[r]] = Larger(@, Sequence(r) + 1)]
          /\ orgNext' = IF modeSeen[r] = "RESTART" THEN orgNext ELSE Larger(orgNext, Sequence(r) + 1)
      BY <2>5 DEF TakeInvoiceNumber
    <3>2. Sequence(r) \in Nat /\ Sequence(r) + 1 \in Nat
      BY SequenceNat
    <3>3. /\ orgNext \in Nat /\ orgNext' \in Nat /\ orgNext' >= orgNext
          /\ modeSeen[r] # "RESTART" => orgNext' >= Sequence(r) + 1
      <4>1. orgNext \in Nat /\ orgNext' \in Nat
        BY DEF TypeOK
      <4>2. CASE modeSeen[r] = "RESTART"
        BY <3>1, <4>1, <4>2
      <4>3. CASE modeSeen[r] # "RESTART"
        <5>1. orgNext' = Larger(orgNext, Sequence(r) + 1)
          BY <3>1, <4>3
        <5> QED
          BY <3>2, <4>1, <4>3, <5>1, LargerNat
      <4> QED
        BY <4>2, <4>3
    <3>4. /\ \A y \in Years : fyNext[y] \in Nat /\ fyNext'[y] \in Nat /\ fyNext'[y] >= fyNext[y]
          /\ year[r] \in Years /\ fyNext'[year[r]] >= Sequence(r) + 1
      <4>1. \A y \in Years : fyNext[y] \in Nat /\ fyNext'[y] \in Nat
        BY DEF TypeOK
      <4>2. year[r] \in Years
        BY DEF TypeOK
      <4>3. fyNext'[year[r]] = Larger(fyNext[year[r]], Sequence(r) + 1)
        BY <3>1, <4>2 DEF TypeOK
      <4>4. \A y \in Years : y # year[r] => fyNext'[y] = fyNext[y]
        BY <3>1 DEF TypeOK
      <4>5. \A n \in Nat : n >= n
        OBVIOUS
      <4> QED
        BY <3>2, <4>1, <4>2, <4>3, <4>4, <4>5, LargerNat
    <3>5. \A s \in Posted("sale") : label'[s] = label[s] /\ seq'[s] = seq[s] /\ seq[s] \in Nat /\ label[s] \in Years \cup {None}
      BY <2>2, <3>1 DEF TypeOK
    <3>6. ASSUME NEW s \in Posted("sale"), Ahead(s) PROVE Ahead(s)'
      <4>1. CASE label[s] = None
        BY <3>3, <3>5, <3>6, <4>1 DEF Ahead
      <4>2. CASE label[s] # None
        BY <3>4, <3>5, <3>6, <4>2 DEF Ahead
      <4> QED
        BY <4>1, <4>2
    <3>7. Ahead(r)'
      <4>1. label'[r] = Label(r) /\ seq'[r] = Sequence(r)
        BY <3>1 DEF TypeOK
      <4>2. CASE modeSeen[r] = "RESTART"
        <5>1. Label(r) = year[r] /\ year[r] # None
          BY <3>4, <4>2, RequestAssumption DEF Label
        <5> QED
          BY <3>2, <3>4, <4>1, <5>1 DEF Ahead
      <4>3. CASE modeSeen[r] # "RESTART"
        <5>1. Label(r) = None
          BY <4>3 DEF Label
        <5> QED
          BY <3>2, <3>3, <4>1, <4>3, <5>1 DEF Ahead
      <4> QED
        BY <4>2, <4>3
    <3> QED
      BY <2>2, <2>5, <3>5, <3>6, <3>7 DEF SequencesFresh
  <2> QED
    BY <1>2, <2>3, <2>4, <2>5, NumberStep
<1> QED
  BY <1>1, <1>2

-----------------------------------------------------------------------------
(* Idempotency keys.                                                       *)

LEMMA StepShape ==
  ASSUME NEW r \in Requests, TypeOK, Submit(r) \/ Refuse(r) \/ Read(r) \/ Transaction(r)
  PROVE  Quiet(r) \/ Posting(r)
PROOF
<1>1. CASE Transaction(r) /\ ~ AbortCancel(r)
  BY <1>1, PostingStep
<1>2. CASE ~ (Transaction(r) /\ ~ AbortCancel(r))
  BY <1>2, QuietStep
<1> QED
  BY <1>1, <1>2

LEMMA OthersStay ==
  ASSUME NEW r \in Requests, TypeOK, Submit(r) \/ Refuse(r) \/ Read(r) \/ Transaction(r)
  PROVE  \A q \in Requests : q # r => phase'[q] = phase[q]
PROOF
<1>1. phase \in [Requests -> Phases]
  BY DEF TypeOK
<1>2. CASE Quiet(r)
  BY <1>1, <1>2 DEF Quiet
<1>3. CASE Posting(r)
  BY <1>1, <1>3 DEF Posting
<1> QED
  BY <1>2, <1>3, StepShape

LEMMA AskedKept ==
  ASSUME NEW r \in Requests, TypeOK, Submit(r) \/ Refuse(r) \/ Read(r) \/ Transaction(r)
  PROVE  \A q \in Requests :
           q # r \/ phase[q] # "idle" =>
             /\ kind'[q] = kind[q] /\ of'[q] = of[q] /\ quantity'[q] = quantity[q]
             /\ year'[q] = year[q]
             /\ phase'[q] # "idle" \/ phase[q] = "idle"
PROOF
<1>1. CASE Submit(r)
  <2>1. /\ phase[r] = "idle" /\ phase' = [phase EXCEPT ![r] = "active"]
        /\ \E k : kind' = [kind EXCEPT ![r] = k]
        /\ \E o : of' = [of EXCEPT ![r] = o]
        /\ \E n : quantity' = [quantity EXCEPT ![r] = n]
        /\ \E y : year' = [year EXCEPT ![r] = y]
    BY <1>1 DEF Submit, Fill
  <2> QED
    BY <2>1 DEF TypeOK
<1>2. CASE ~ Submit(r)
  <2>1. UNCHANGED askVars
    BY <1>2, PostingStep DEF Refuse, Read, ReadKey, AnswerSame, ReadStock, ReadLots, ReadDocument, ReadYear,
         ReadNumbers, ReadBill, ReadVoucher, AbortCancel, Discard, Posting
  <2>2. \A q \in Requests : phase'[q] # "idle" \/ phase[q] = "idle"
    BY StepShape DEF Quiet, Posting, TypeOK
  <2> QED
    BY <2>1, <2>2 DEF askVars
<1> QED
  BY <1>1, <1>2

LEMMA PostedGrows ==
  ASSUME NEW r \in Requests, TypeOK, Submit(r) \/ Refuse(r) \/ Read(r) \/ Transaction(r)
  PROVE  /\ \A k \in Kinds : Posted(k) \subseteq Posted(k)'
         /\ Batches \subseteq Batches'
PROOF
<1>1. \A k \in Kinds : Posted(k) \subseteq Posted(k)'
  BY StepShape, QuietPosted, PostingPosted
<1>2. \A x \in Posted("stockIn") : of'[x] = of[x]
  BY AskedKept DEF Posted
<1> QED
  BY <1>1, <1>2 DEF Batches, Kinds, Numbered, Adjustments

LEMMA DocumentsNamedStep ==
  ASSUME NEW r \in Requests, TypeOK, DocumentsNamed, Submit(r) \/ Refuse(r) \/ Read(r) \/ Transaction(r)
  PROVE  DocumentsNamed'
PROOF
<1>0. Posted("purchase") \subseteq Posted("purchase")' /\ Posted("sale") \subseteq Posted("sale")'
  BY PostedGrows DEF Kinds, Numbered
<1>1. CASE Submit(r)
  <2>1. PICK k \in Operations, o \in Requests \cup {None}, n \in 0 .. MaxQuantity, y \in Years :
          Asks(k, o, n) /\ Fill(r, k, o, n, y)
    BY <1>1 DEF Submit
  <2>2. kind'[r] = k /\ of'[r] = o /\ quantity'[r] = n
    BY <2>1 DEF Fill, TypeOK
  <2>3. /\ k \in {"return", "reversal"} => o \in Posted("purchase")
        /\ k \in {"creditNote", "cancel"} => o \in Posted("sale")
        /\ k = "stockIn" => o \in Posted("purchase") \cup {None}
        /\ k \in {"return", "creditNote"} => n # 0
    <3>1. k = "return" => o \in Posted("purchase") /\ n # 0
      BY <2>1 DEF Asks
    <3>2. k = "reversal" => o \in Posted("purchase")
      BY <2>1 DEF Asks
    <3>3. k = "creditNote" => o \in Posted("sale") /\ n # 0
      BY <2>1 DEF Asks
    <3>4. k = "cancel" => o \in Posted("sale")
      BY <2>1 DEF Asks
    <3>5. k = "stockIn" => o \in Posted("purchase") \cup {None}
      BY <2>1 DEF Asks
    <3> QED
      BY <3>1, <3>2, <3>3, <3>4, <3>5
  <2>4. \A q \in Requests : q # r => phase'[q] = phase[q] /\ kind'[q] = kind[q]
                                    /\ of'[q] = of[q] /\ quantity'[q] = quantity[q]
    BY <1>1, AskedKept, QuietStep DEF Quiet
  <2> QED
    BY <1>0, <2>2, <2>3, <2>4 DEF DocumentsNamed
<1>2. CASE ~ Submit(r)
  <2>1. UNCHANGED <<kind, of, quantity>> /\ phase[r] = "active"
    BY <1>2, PostingStep DEF Refuse, Read, Reading, ReadKey, AnswerSame, ReadStock, ReadLots, ReadDocument,
         ReadYear, ReadNumbers, ReadBill, ReadVoucher, AbortCancel, Discard, Posting, askVars
  <2>2. \A q \in Requests : q # r => phase'[q] = phase[q]
    BY OthersStay
  <2> QED
    BY <1>0, <2>1, <2>2 DEF DocumentsNamed
<1> QED
  BY <1>1, <1>2

LEMMA OneDocumentStep ==
  ASSUME NEW r \in Requests, TypeOK, OneDocumentPerKey, Submit(r) \/ Refuse(r) \/ Read(r) \/ Transaction(r)
  PROVE  OneDocumentPerKey'
PROOF
<1> DEFINE D == {x \in Requests : phase[x] = "done" /\ kind[x] \in Keyed}
<1>1. UNION {Posted(k) : k \in Keyed} = D
  BY DEF Posted
<1>2. UNION {Posted(k)' : k \in Keyed} = D'
  BY DEF Posted
<1>3. \A x, y \in D : (key[x] = key[y] /\ (kind[x] = "sale") = (kind[y] = "sale")) => x = y
  BY <1>1 DEF OneDocumentPerKey
<1>4. SUFFICES \A x, y \in D' : (key'[x] = key'[y] /\ (kind'[x] = "sale") = (kind'[y] = "sale")) => x = y
  BY <1>2 DEF OneDocumentPerKey
<1>5. CASE Submit(r) \/ Refuse(r) \/ Read(r) \/ AbortCancel(r)
  <2>1. Quiet(r)
    BY <1>5, QuietStep
  <2>2. r \notin D /\ r \notin D' /\ \A q \in Requests : q # r => phase'[q] = phase[q] /\ kind'[q] = kind[q] /\ key'[q] = key[q]
    BY <2>1 DEF Quiet, Call
  <2> QED
    BY <1>3, <1>4, <2>2
<1>6. CASE Transaction(r) /\ ~ AbortCancel(r)
  <2>1. phase' = [phase EXCEPT ![r] = "done"] /\ UNCHANGED <<kind, key>>
    BY <1>6, PostingStep DEF Posting, askVars
  <2>2. kind[r] \in Keyed => ~ KeyTaken(r)
    BY <1>6 DEF Transaction, CommitSale, CommitPurchase, CommitReturn, CommitCreditNote, CommitReversal,
                CommitEdit, CommitAdjustment, CommitNumbering, Commit, Keyed, Adjustments
  <2>3. D' \subseteq D \cup {r} /\ (kind[r] \notin Keyed => D' \subseteq D)
    BY <2>1 DEF TypeOK
  <2>4. kind[r] \in Keyed => \A x \in D : ~ (key[x] = key[r] /\ (kind[x] = "sale") = (kind[r] = "sale"))
    BY <2>2 DEF KeyTaken
  <2> QED
    BY <1>3, <1>4, <2>1, <2>3, <2>4
<1> QED
  BY <1>5, <1>6

-----------------------------------------------------------------------------
LEMMA StepIInv == IInv /\ [Next]_vars => IInv'
PROOF
<1> SUFFICES ASSUME IInv, [Next]_vars PROVE IInv'
  OBVIOUS
<1>1. TypeOK'
  BY TypedStep DEF IInv
<1>2. CASE UNCHANGED vars
  <2> USE <1>2 DEF IInv, vars, askVars, seenVars, draftVars, stockVars, invoiceNumberVars
  <2>1. ReadsAsked' /\ CallsAllowed' /\ ModesForgotten'
    BY DEF ReadsAsked, CallsAllowed, ModesForgotten
  <2>6. DocumentsNamed'
    BY DEF DocumentsNamed, Posted
  <2>2. \A k, y : Posted(k)' = Posted(k) /\ Restarts(y)' = Restarts(y) /\ Restarted(y)' = Restarted(y)
    BY DEF Posted, Restarts, Restarted
  <2>3. ModesAsked' /\ ModesSeenAsked' /\ LabelsAsked'
    BY <2>2 DEF ModesAsked, ModesSeenAsked, LabelsAsked
  <2>4. SequencesFresh' /\ NumbersDistinct'
    BY <2>2 DEF SequencesFresh, NumbersDistinct, Ahead
  <2>5. OneDocumentPerKey'
    BY <2>2 DEF OneDocumentPerKey
  <2> QED
    BY <1>1, <2>1, <2>3, <2>4, <2>5, <2>6
<1>3. ASSUME NEW r \in Requests, Submit(r) \/ Refuse(r) \/ Read(r) \/ Transaction(r)
      PROVE  IInv'
  <2> USE <1>3
  <2>1. ReadsAsked' /\ DocumentsNamed' /\ CallsAllowed' /\ ModesForgotten'
    BY ReadsAskedStep, DocumentsNamedStep, CallsAllowedStep, ModesForgottenStep DEF IInv
  <2>2. ModesAsked' /\ ModesSeenAsked' /\ LabelsAsked'
    BY ModesAskedStep, ModesSeenAskedStep, LabelsAskedStep DEF IInv
  <2>3. SequencesFresh' /\ NumbersDistinct'
    BY <1>1, SequencesFreshStep, NumbersDistinctStep DEF IInv
  <2>4. OneDocumentPerKey'
    BY OneDocumentStep DEF IInv
  <2> QED
    BY <1>1, <2>1, <2>2, <2>3, <2>4 DEF IInv
<1> QED
  BY <1>2, <1>3 DEF Next

(* The parts above are inductive: every call keeps the types, has read what*)
(* was so, and leaves keys and invoice numbers as they should be.          *)
THEOREM Inductive == Spec => []IInv
PROOF
  BY InitIInv, StepIInv, PTL DEF Spec

(* The tables keep their types: in particular CHECK and trigger keep stock *)
(* and batches from going negative, however stale what a call has read.    *)
THEOREM TypeCorrect == Spec => []TypeOK
PROOF
<1>1. IInv => TypeOK
  BY DEF IInv
<1> QED
  BY <1>1, Inductive, PTL

(* An invoice, purchase or purchase return is posted once for its key, how-*)
(* ever its calls are repeated or interleaved: the lookup before the trans-*)
(* action may be stale, the unique index is not.                           *)
THEOREM OneDocumentPerKeyAlways == Spec => []OneDocumentPerKey
PROOF
<1>1. IInv => OneDocumentPerKey
  BY DEF IInv
<1> QED
  BY <1>1, Inductive, PTL

(* No two invoices have one number, and the next number of a sequence is   *)
(* beyond all it has given out, unless the numbering of a year is restarted*)
(* by two calls: an invoice that bears a year's label shows that one is    *)
(* done, so that another may not come after it.                            *)
THEOREM NumbersFreshAlways == Spec => []NumbersFresh
PROOF
<1>1. IInv => NumbersFresh
  BY DEF IInv, NumbersFresh, SequencesFresh, NumbersDistinct
<1> QED
  BY <1>1, Inductive, PTL

-----------------------------------------------------------------------------
LEMMA StockStep ==
  ASSUME NEW r \in Requests, Operations \cap ({"return", "edit"} \cup Adjustments) = {}, TypeOK, CallsAllowed, StockIsMoved,
         Submit(r) \/ Refuse(r) \/ Read(r) \/ Transaction(r)
  PROVE  StockIsMoved'
PROOF
<1>0. stock \in Nat /\ moved \in Int /\ Opening \in Nat
  BY QuantityAssumption DEF TypeOK
<1>1. CASE Submit(r) \/ Refuse(r) \/ Read(r) \/ AbortCancel(r)
  <2>1. Quiet(r)
    BY <1>1, QuietStep
  <2> QED
    BY <2>1 DEF StockIsMoved, Quiet, stockVars
<1>2. CASE CommitSale(r) \/ CommitPurchase(r) \/ CommitCreditNote(r) \/ CommitReversal(r)
  <2>1. quantity[r] \in Int /\ - quantity[r] \in Int
    BY DEF TypeOK
  <2>2. PICK d \in Int : Move(d)
    BY <1>2, <2>1 DEF CommitSale, CommitPurchase, CommitCreditNote, CommitReversal
  <2>3. stock' = stock + d /\ moved' = moved + d /\ stock = Opening + moved
    BY <2>2 DEF Move, StockIsMoved
  <2>4. Opening + moved + d = Opening + (moved + d)
    BY <1>0
  <2> QED
    BY <2>3, <2>4 DEF StockIsMoved
<1>3. CASE CommitReturn(r) \/ CommitEdit(r) \/ CommitAdjustment(r)
  <2>1. phase[r] = "active" /\ kind[r] \in {"return", "edit"} \cup Adjustments
    BY <1>3 DEF CommitReturn, CommitEdit, CommitAdjustment, Commit
  <2> QED
    BY <2>1 DEF CallsAllowed
<1>4. CASE CommitNumbering(r)
  BY <1>4 DEF CommitNumbering, stockVars, StockIsMoved
<1> QED
  BY <1>1, <1>2, <1>3, <1>4 DEF Transaction

(* Without purchase returns, the product form and stock adjustments, which *)
(* do break it, every unit of stock is explained by a movement: the other  *)
(* transactions move stock by what their document says, whatever was read  *)
(* before them.                                                            *)
THEOREM StockIsMovedAlways ==
  ASSUME Operations \cap ({"return", "edit"} \cup Adjustments) = {}
  PROVE  Spec => []StockIsMoved
PROOF
<1>1. Init => StockIsMoved
  BY QuantityAssumption DEF Init, StockIsMoved
<1>2. IInv /\ StockIsMoved /\ [Next]_vars => StockIsMoved'
  <2> SUFFICES ASSUME IInv, StockIsMoved, [Next]_vars PROVE StockIsMoved'
    OBVIOUS
  <2>1. CASE UNCHANGED vars
    BY <2>1 DEF vars, stockVars, StockIsMoved
  <2>2. CASE Next
    BY <2>2, StockStep DEF IInv, Next
  <2> QED
    BY <2>1, <2>2
<1> QED
  BY <1>1, <1>2, Inductive, PTL DEF Spec

-----------------------------------------------------------------------------
(* Calls made one after another: InFlight is 1.                            *)

(* The calls other than the one that moves do not run.                     *)
LEMMA OthersRest ==
  ASSUME InFlight = 1, NEW r \in Requests, TypeOK, OneAtATime,
         Submit(r) \/ Refuse(r) \/ Read(r) \/ Transaction(r)
  PROVE  \A q \in Requests : q # r => phase[q] # "active" /\ phase'[q] = phase[q]
PROOF
<1>1. \A q \in Requests : q # r => phase'[q] = phase[q]
  BY OthersStay
<1>2. CASE Submit(r)
  <2>1. IsFiniteSet(Running)
    BY RequestAssumption, FS_Subset DEF Running
  <2>2. Cardinality(Running) < 1 /\ Cardinality(Running) \in Nat
    BY <1>2, <2>1, FS_CardinalityType DEF Submit
  <2>3. Cardinality(Running) = 0
    BY <2>2
  <2>4. Running = {}
    BY <2>1, <2>3, FS_EmptySet
  <2> QED
    BY <1>1, <2>4 DEF Running
<1>3. CASE ~ Submit(r)
  <2>1. phase[r] = "active"
    BY <1>3, PostingStep DEF Refuse, Read, Reading, ReadKey, AnswerSame, ReadStock, ReadLots, ReadDocument,
         ReadYear, ReadNumbers, ReadBill, ReadVoucher, AbortCancel, Posting
  <2> QED
    BY <1>1, <2>1 DEF OneAtATime, Running
<1> QED
  BY <1>2, <1>3

LEMMA ReadCurrentStep ==
  ASSUME InFlight = 1, NEW r \in Requests, TypeOK, OneAtATime, ReadCurrent(r),
         Submit(r) \/ Refuse(r) \/ Read(r) \/ Transaction(r)
  PROVE  \A q \in Requests : ReadCurrent(q)'
PROOF
<1>1. \A q \in Requests : q # r => ReadCurrent(q)'
  BY OthersRest DEF ReadCurrent
<1>2. CASE Submit(r)
  <2>1. \E k : kind' = [kind EXCEPT ![r] = k] /\ todo' = [todo EXCEPT ![r] = ReadsOf(k)]
    BY <1>2 DEF Submit, Fill
  <2>2. ReadsOf(kind'[r]) \ todo'[r] = {}
    BY <2>1 DEF TypeOK
  <2> QED
    BY <1>1, <2>2 DEF ReadCurrent
<1>3. CASE Refuse(r) \/ AnswerSame(r) \/ Transaction(r)
  <2>1. PICK f \in {"failed", "same", "aborted", "done"} : phase' = [phase EXCEPT ![r] = f]
    BY <1>3, PostingStep DEF Refuse, AnswerSame, AbortCancel, Posting
  <2>2. phase'[r] # "active"
    BY <2>1 DEF TypeOK
  <2> QED
    BY <1>1, <2>2 DEF ReadCurrent
<1>4. CASE Read(r) /\ ~ AnswerSame(r)
  <2>1. /\ UNCHANGED <<phase, kind, of, quantity, year, stock, lot>> /\ phase[r] = "active"
    BY <1>4 DEF Read, Reading, ReadKey, ReadStock, ReadLots, ReadDocument, ReadYear, ReadNumbers, ReadBill,
         ReadVoucher, askVars, stockVars
  <2>2. Batches' = Batches /\ Remaining(r)' = Remaining(r)
    BY <2>1 DEF Batches, Remaining, Posted, Returned, Cancelled
  <2>3. PICK part : Reading(r, part) /\ \/ part = "stock" /\ ReadStock(r)
                                        \/ part = "lots" /\ ReadLots(r)
                                        \/ part = "document" /\ ReadDocument(r)
                                        \/ part \notin {"stock", "lots", "document"} /\ ~ ReadStock(r)
                                           /\ ~ ReadLots(r) /\ ~ ReadDocument(r)
    <3>1. CASE ReadStock(r)
      BY <3>1 DEF ReadStock
    <3>2. CASE ReadLots(r)
      BY <3>2 DEF ReadLots
    <3>3. CASE ReadDocument(r)
      BY <3>3 DEF ReadDocument
    <3>4. CASE ~ ReadStock(r) /\ ~ ReadLots(r) /\ ~ ReadDocument(r)
      BY <1>4, <3>4 DEF Read, ReadKey, ReadYear, ReadNumbers, ReadBill, ReadVoucher
    <3> QED
      BY <3>1, <3>2, <3>3, <3>4
  <2>4. todo'[r] = todo[r] \ {part}
    BY <2>3 DEF Reading, TypeOK
  <2>5. /\ part # "stock" => stockSeen'[r] = stockSeen[r]
        /\ part # "lots" => lotSeen'[r] = lotSeen[r] /\ lotsKnown'[r] = lotsKnown[r]
        /\ part # "document" => openSeen'[r] = openSeen[r]
    BY <1>4, <2>3 DEF Read, AnswerSame, ReadKey, ReadStock, ReadLots, ReadDocument, ReadYear, ReadNumbers,
         ReadBill, ReadVoucher, seenVars
  <2>6. /\ part = "stock" => stockSeen'[r] = stock
        /\ part = "lots" => lotSeen'[r] = lot /\ lotsKnown'[r] = Batches
        /\ part = "document" => openSeen'[r] = Remaining(r)
    <3>1. part = "stock" => stockSeen'[r] = stock
      BY <2>3 DEF ReadStock, TypeOK
    <3>2. part = "lots" => lotSeen'[r] = lot /\ lotsKnown'[r] = Batches
      BY <2>3 DEF ReadLots, TypeOK
    <3>3. part = "document" => openSeen'[r] = Remaining(r)
      BY <2>3 DEF ReadDocument, TypeOK
    <3> QED
      BY <3>1, <3>2, <3>3
  <2>7. ReadCurrent(r)'
    BY <2>1, <2>2, <2>4, <2>5, <2>6 DEF ReadCurrent
  <2> QED
    BY <1>1, <2>7
<1> QED
  BY <1>2, <1>3, <1>4

-----------------------------------------------------------------------------
(* Returns.                                                                *)

(* A document posted against d is what changes what was returned on it.    *)
LEMMA ReturnedStep ==
  ASSUME NEW r \in Requests, TypeOK, Submit(r) \/ Refuse(r) \/ Read(r) \/ Transaction(r), NEW d
  PROVE  /\ Quiet(r) => Returned(d)' = Returned(d) /\ Cancelled(d)' = Cancelled(d)
         /\ Posting(r) =>
              /\ Returned(d)' = IF kind[r] \in {"return", "creditNote"} /\ of[r] = d
                                THEN Returned(d) + quantity[r] ELSE Returned(d)
              /\ Cancelled(d)' <=> Cancelled(d) \/ (kind[r] = "reversal" /\ of[r] = d)
PROOF
<1> DEFINE R == ReturnsOf(d)
<1>1. /\ Returned(d) = SumFunctionOnSet(quantity, R) /\ IsFiniteSet(R)
      /\ \A x \in R : quantity[x] \in Nat
  BY ReturnedNat
<1>2. Returned(d)' = SumFunctionOnSet(quantity', R')
  BY DEF Returned, ReturnsOf
<1>3. \A k : \A x \in Posted(k) : of'[x] = of[x] /\ quantity'[x] = quantity[x]
  BY AskedKept DEF Posted
<1>4. \A x \in R : quantity'[x] = quantity[x]
  BY <1>3 DEF ReturnsOf
<1>5. SumFunctionOnSet(quantity', R) = SumFunctionOnSet(quantity, R)
  <2> HIDE DEF R
  <2> QED
    BY <1>1, <1>4, SumEqual
<1>6. {"return", "creditNote", "reversal"} \subseteq Kinds
  BY DEF Kinds, Numbered
<1>7. ASSUME Quiet(r) PROVE Returned(d)' = Returned(d) /\ Cancelled(d)' = Cancelled(d)
  <2>1. \A k \in {"return", "creditNote", "reversal"} : Posted(k)' = Posted(k)
    BY <1>6, <1>7, QuietPosted
  <2>2. R' = R
    BY <1>3, <2>1 DEF ReturnsOf
  <2>3. Cancelled(d)' = Cancelled(d)
    BY <1>3, <2>1 DEF Cancelled
  <2> QED
    BY <1>1, <1>2, <1>5, <2>2, <2>3
<1>8. ASSUME Posting(r)
      PROVE  /\ Returned(d)' = IF kind[r] \in {"return", "creditNote"} /\ of[r] = d
                               THEN Returned(d) + quantity[r] ELSE Returned(d)
             /\ Cancelled(d)' <=> Cancelled(d) \/ (kind[r] = "reversal" /\ of[r] = d)
  <2>1. \A k \in {"return", "creditNote", "reversal"} :
          r \notin Posted(k) /\ Posted(k)' = IF kind[r] = k THEN Posted(k) \cup {r} ELSE Posted(k)
    BY <1>6, <1>8, PostingPosted
  <2>2. of' = of /\ quantity' = quantity
    BY <1>8 DEF Posting, askVars
  <2>3. Cancelled(d)' <=> Cancelled(d) \/ (kind[r] = "reversal" /\ of[r] = d)
    BY <2>1, <2>2 DEF Cancelled
  <2>4. r \notin R /\ R' = IF kind[r] \in {"return", "creditNote"} /\ of[r] = d THEN R \cup {r} ELSE R
    BY <2>1, <2>2 DEF ReturnsOf
  <2>5. quantity[r] \in Nat
    BY DEF TypeOK
  <2>6. SumFunctionOnSet(quantity, R \cup {r}) = SumFunctionOnSet(quantity, R) + quantity[r]
    <3> HIDE DEF R
    <3>1. \A x \in R \cup {r} : quantity[x] \in Nat
      BY <1>1, <2>5
    <3> QED
      BY <1>1, <2>4, <3>1, SumAdd
  <2> QED
    BY <1>1, <1>2, <2>2, <2>3, <2>4, <2>6
<1> QED
  BY <1>7, <1>8

LEMMA ReturnsTracedStep ==
  ASSUME InFlight = 1, NEW r \in Requests, TypeOK, ReadCurrent(r), ReturnsTraced,
         DocumentsNamed, Submit(r) \/ Refuse(r) \/ Read(r) \/ Transaction(r)
  PROVE  ReturnsTraced'
PROOF
<1> SUFFICES ASSUME NEW d \in Requests
             PROVE  Returned(d)' <= quantity'[d] /\ (Cancelled(d)' => Returned(d)' = 0)
  BY DEF ReturnsTraced
<1>0. /\ Returned(d) <= quantity[d] /\ (Cancelled(d) => Returned(d) = 0)
      /\ Returned(d) \in Nat /\ quantity[d] \in Nat /\ quantity[r] \in Nat
  BY ReturnedNat DEF ReturnsTraced, TypeOK
<1>1. CASE Quiet(r) /\ (d # r \/ phase[d] # "idle")
  BY <1>0, <1>1, AskedKept, ReturnedStep
<1>2. CASE Submit(r) /\ d = r
  <2>1. phase[r] = "idle"
    BY <1>2 DEF Submit
  <2>2. \A x \in Posted("return") \cup Posted("creditNote") \cup Posted("reversal") : of[x] # r
    BY <2>1 DEF DocumentsNamed, Posted
  <2>3. ReturnsOf(r) = {} /\ ~ Cancelled(r)
    BY <2>2 DEF ReturnsOf, Cancelled
  <2>4. Returned(r) = 0
    BY <2>3, ReturnedNat, SumEmpty
  <2>5. quantity'[r] \in Nat
    <3>1. TypeOK'
      BY <1>2, SubmitTyped
    <3> QED
      BY <3>1 DEF TypeOK
  <2> QED
    BY <1>2, <2>3, <2>4, <2>5, QuietStep, ReturnedStep
<1>3. CASE Transaction(r) /\ ~ AbortCancel(r)
  <2>1. Posting(r) /\ UNCHANGED quantity /\ phase[r] = "active" /\ todo[r] = {}
    BY <1>3, PostingStep DEF Posting, askVars
  <2>0. kind[r] \in {"return", "reversal", "creditNote"} => openSeen[r] = Remaining(r)
    <3>1. /\ "document" \in ReadsOf("return") /\ "document" \in ReadsOf("reversal")
          /\ "document" \in ReadsOf("creditNote")
      BY DEF ReadsOf, Adjustments
    <3> QED
      BY <2>1, <3>1 DEF ReadCurrent
  <2>2. CASE CommitReturn(r) /\ of[r] = d
    <3>1. kind[r] = "return" /\ quantity[r] <= openSeen[r]
      BY <2>2 DEF CommitReturn, Commit
    <3>2. openSeen[r] = Remaining(r) /\ quantity[r] # 0
      BY <2>0, <2>1, <3>1 DEF DocumentsNamed
    <3>3. ~ Cancelled(d) /\ quantity[r] <= quantity[d] - Returned(d)
      BY <1>0, <2>2, <3>1, <3>2 DEF Remaining
    <3> QED
      BY <1>0, <2>1, <2>2, <3>1, <3>3, ReturnedStep
  <2>3. CASE CommitCreditNote(r) /\ of[r] = d
    <3>1. kind[r] = "creditNote" /\ quantity[r] <= openSeen[r]
      BY <2>3 DEF CommitCreditNote, Commit
    <3>2. openSeen[r] = Remaining(r) /\ d \in Posted("sale")
      BY <2>0, <2>1, <2>3, <3>1 DEF DocumentsNamed
    <3>3. quantity[r] <= quantity[d] - Returned(d)
      BY <2>3, <3>1, <3>2 DEF Remaining
    <3>4. ~ Cancelled(d)
      BY <3>2 DEF Cancelled, DocumentsNamed, Posted
    <3> QED
      BY <1>0, <2>1, <2>3, <3>1, <3>3, <3>4, ReturnedStep
  <2>4. CASE CommitReversal(r) /\ of[r] = d
    <3>1. kind[r] = "reversal" /\ openSeen[r] # 0
      BY <2>4 DEF CommitReversal, Commit
    <3>2. openSeen[r] = Remaining(r)
      BY <2>0, <3>1
    <3>3. Returned(d) = 0
      BY <2>4, <3>1, <3>2 DEF Remaining
    <3> QED
      BY <1>0, <2>1, <3>1, <3>3, ReturnedStep
  <2>5. CASE of[r] # d \/ (~ CommitReturn(r) /\ ~ CommitCreditNote(r) /\ ~ CommitReversal(r))
    <3>1. of[r] # d \/ kind[r] \notin {"return", "creditNote", "reversal"}
      BY <1>3, <2>5 DEF Transaction, CommitSale, CommitPurchase, CommitEdit, CommitAdjustment, CommitNumbering,
           Commit, Adjustments
    <3> QED
      BY <1>0, <2>1, <3>1, ReturnedStep
  <2> QED
    BY <2>2, <2>3, <2>4, <2>5
<1>4. ASSUME ~ Submit(r), ~ (Transaction(r) /\ ~ AbortCancel(r)) PROVE Quiet(r) /\ phase[r] # "idle"
  BY <1>4, QuietStep DEF Refuse, Read, Reading, ReadKey, AnswerSame, ReadStock, ReadLots, ReadDocument,
     ReadYear, ReadNumbers, ReadBill, ReadVoucher, AbortCancel
<1> QED
  BY <1>1, <1>2, <1>3, <1>4, QuietStep

-----------------------------------------------------------------------------
(* Batches and stock.                                                      *)

LEMMA BatchesOnRecordStep ==
  ASSUME InFlight = 1, NEW r \in Requests, TypeOK, ReadCurrent(r), DocumentsNamed, BatchesOnRecord,
         Submit(r) \/ Refuse(r) \/ Read(r) \/ Transaction(r)
  PROVE  BatchesOnRecord'
PROOF
<1>0. Batches \subseteq Batches'
  BY PostedGrows
<1>1. ASSUME NEW p \in Requests,
             lot'[p] # lot[p] \/ (\E s \in Requests : taken'[s][p] # taken[s][p])
      PROVE  p \in Batches'
  <2>1. ~ Quiet(r)
    BY <1>1 DEF Quiet, stockVars
  <2>2. Transaction(r) /\ ~ AbortCancel(r)
    BY <2>1, QuietStep
  <2>3. Posting(r) /\ todo[r] = {} /\ phase[r] = "active" /\ UNCHANGED of
    BY <2>2, PostingStep DEF Posting, askVars
  <2>4. \A k \in Kinds : kind[r] = k => r \in Posted(k)'
    BY <2>3, PostingPosted
  <2>5. Posted("purchase") \subseteq Batches'
    BY <1>0 DEF Batches
  <2>6. lot \in Lots /\ taken \in [Requests -> Lots] /\ quantity[r] \in Nat
    BY DEF TypeOK
  <2>7. CASE CommitSale(r)
    <3>1. PICK t \in Splits(r) :
            /\ \A x \in Requests : t[x] <= lot[x]
            /\ lot' = [x \in Requests |-> lot[x] - t[x]]
            /\ taken' = [taken EXCEPT ![r] = t]
      BY <2>7 DEF CommitSale
    <3>2. t[p] \in Nat /\ t[p] <= lot[p] /\ lot[p] \in Nat
      BY <2>6, <3>1 DEF Splits, Lots
    <3>3. CASE t[p] # 0
      BY <1>0, <3>2, <3>3 DEF BatchesOnRecord
    <3>4. CASE t[p] = 0
      <4>1. lot'[p] = lot[p] /\ \A s \in Requests : taken'[s][p] = IF s = r THEN 0 ELSE taken[s][p]
        BY <2>6, <3>1, <3>2, <3>4
      <4>2. taken[r][p] # 0
        BY <1>1, <4>1
      <4> QED
        BY <1>0, <4>2 DEF BatchesOnRecord
    <3> QED
      BY <3>3, <3>4
  <2>8. CASE CommitPurchase(r)
    <3>1. p = r /\ kind[r] = "purchase"
      BY <1>1, <2>6, <2>8 DEF CommitPurchase, Commit, Lots
    <3> QED
      BY <2>4, <3>1 DEF Batches, Kinds, Numbered
  <2>9. CASE CommitReturn(r) \/ CommitReversal(r)
    <3>1. /\ kind[r] \in {"return", "reversal"} /\ taken' = taken
          /\ \E n : lot' = [lot EXCEPT ![of[r]] = n]
      BY <2>9 DEF CommitReturn, CommitReversal, Commit
    <3>2. p = of[r]
      BY <1>1, <2>6, <3>1 DEF Lots
    <3> QED
      BY <2>3, <2>5, <3>1, <3>2 DEF DocumentsNamed
  <2>10. CASE CommitCreditNote(r)
    <3>1. kind[r] = "creditNote" /\ taken' = taken
      BY <2>10 DEF CommitCreditNote, Commit
    <3>2. PICK b \in Restores(r) :
            lot' = [x \in Requests |-> IF x = b THEN lot[x] + quantity[r] ELSE lot[x]]
      BY <2>10 DEF CommitCreditNote
    <3>3. p = b
      BY <1>1, <2>6, <3>1, <3>2
    <3>4. of[r] \in Requests /\ quantity[r] # 0
      BY <2>3, <3>1 DEF DocumentsNamed, Posted
    <3>5. taken[of[r]][p] >= quantity[r] /\ taken[of[r]][p] \in Nat
      BY <2>6, <3>2, <3>3, <3>4, RequestAssumption DEF Restores, Lots
    <3>6. taken[of[r]][p] # 0
      BY <2>6, <3>4, <3>5
    <3> QED
      BY <1>0, <3>4, <3>6 DEF BatchesOnRecord
  <2>11. CASE CommitAdjustment(r)
    <3>1. kind[r] \in Adjustments /\ taken' = taken
      BY <2>11 DEF CommitAdjustment
    <3>2. PICK l \in Rebatched(r) :
            lot' = [x \in Requests |-> IF x \in lotsKnown[r] \cup {r} THEN l[x] ELSE lot[x]]
      BY <2>11 DEF CommitAdjustment
    <3>3. lotSeen[r] = lot
      BY <2>3, <3>1 DEF ReadCurrent, ReadsOf, Adjustments
    <3>4. l[p] # lot[p]
      BY <1>1, <3>1, <3>2
    <3>5. CASE kind[r] = "stockIn"
      <4>1. PICK added : l = [lot EXCEPT ![added] = @ + quantity[r]] /\ added = IF of[r] = None THEN r ELSE of[r]
        BY <3>2, <3>3, <3>5 DEF Rebatched
      <4>2. p = added
        BY <2>6, <3>4, <4>1 DEF Lots
      <4>3. CASE of[r] = None
        BY <2>3, <2>4, <3>5, <4>1, <4>2, <4>3 DEF Batches, Kinds, Adjustments
      <4>4. CASE of[r] # None
        BY <2>3, <2>5, <3>5, <4>1, <4>2, <4>4 DEF DocumentsNamed
      <4> QED
        BY <4>3, <4>4
    <3>6. CASE kind[r] = "stockOut"
      <4>1. PICK t \in Splits(r) : l = [x \in Requests |-> lot[x] - t[x]]
        BY <3>2, <3>3, <3>6 DEF Rebatched
      <4>2. t[p] \in Nat /\ t[p] <= lot[p] /\ lot[p] \in Nat
        <5>1. t[p] \in 0 .. quantity[r] /\ t[p] <= IF p \in Eligible(r) THEN lot[p] ELSE 0
          BY <3>3, <4>1 DEF Splits
        <5>2. lot[p] \in Nat
          BY <2>6 DEF Lots
        <5> QED
          BY <2>6, <5>1, <5>2
      <4>3. lot[p] # 0
        BY <3>4, <4>1, <4>2
      <4> QED
        BY <1>0, <4>3 DEF BatchesOnRecord
    <3>7. CASE kind[r] = "transfer"
      BY <3>2, <3>3, <3>4, <3>7 DEF Rebatched
    <3> QED
      BY <3>1, <3>5, <3>6, <3>7 DEF Adjustments
  <2>12. CASE CommitEdit(r) \/ CommitNumbering(r)
    BY <1>1, <2>12 DEF CommitEdit, CommitNumbering, stockVars
  <2> QED
    BY <2>2, <2>7, <2>8, <2>9, <2>10, <2>11, <2>12 DEF Transaction
<1> QED
  BY <1>0, <1>1 DEF BatchesOnRecord

(* The goods an allocation takes leave the batches with no more than there *)
(* is: what the batches do not give, loose stock does.                     *)
LEMMA TakingCovered ==
  ASSUME NEW r \in Requests, TypeOK, lotSeen[r] = lot, stockSeen[r] = stock, LooseSuffices(r),
         SumFunction(lot) <= stock, NEW t \in Splits(r), NEW m,
         m = [p \in Requests |-> lot[p] - t[p]]
  PROVE  SumFunction(m) <= stock - quantity[r]
PROOF
<1>1. lot \in Lots /\ stock \in Nat /\ quantity[r] \in Nat
  BY DEF TypeOK
<1>2. t \in [Requests -> 0 .. quantity[r]] /\ SumFunction(t) = FromLots(r)
      /\ \A p \in Requests : t[p] <= IF p \in Eligible(r) THEN lot[p] ELSE 0
  BY DEF Splits
<1>3. \A p \in Requests : lot[p] \in Nat /\ t[p] \in Nat /\ m[p] \in Nat /\ m[p] = lot[p] - t[p]
  BY <1>1, <1>2 DEF Lots
<1>4. lot \in [Requests -> Nat] /\ t \in [Requests -> Nat] /\ m \in [Requests -> Nat]
  BY <1>1, <1>2, <1>3 DEF Lots
<1>5. SumFunction(m) = SumFunction(lot) - SumFunction(t)
  <2>1. SumFunctionOnSet(m, Requests) = SumFunctionOnSet(lot, Requests) - SumFunctionOnSet(t, Requests)
    BY <1>3, RequestAssumption, SumMinus
  <2> QED
    BY <1>4, <2>1, SumAll
<1>6. SumFunction(lot) \in Nat /\ SumFunction(t) \in Nat
  BY <1>3, <1>4, RequestAssumption, SumType, SumAll
<1>7. \/ quantity[r] - FromLots(r) = 0
      \/ quantity[r] - FromLots(r) <= stock - FromLots(r) - (SumFunction(lot) - FromLots(r))
  BY DEF LooseSuffices
<1> QED
  BY <1>1, <1>2, <1>5, <1>6, <1>7

(* One batch changes.                                                      *)
LEMMA OneLotChanged ==
  ASSUME NEW l \in Lots, NEW m \in Lots, NEW x \in Requests, \A p \in Requests : p # x => m[p] = l[p]
  PROVE  SumFunction(m) = SumFunction(l) - l[x] + m[x] /\ SumFunction(l) \in Nat
PROOF
<1>1. \A p \in Requests : l[p] \in Nat /\ m[p] \in Nat
  BY DEF Lots
<1>2. SumFunctionOnSet(m, Requests) = SumFunctionOnSet(l, Requests) - l[x] + m[x]
  BY <1>1, RequestAssumption, SumChange
<1>3. SumFunctionOnSet(l, Requests) \in Nat
  BY <1>1, RequestAssumption, SumType
<1> QED
  BY <1>2, <1>3, SumAll DEF Lots

LEMMA LotsCoveredStep ==
  ASSUME InFlight = 1, NEW r \in Requests, TypeOK, TypeOK', ReadCurrent(r), DocumentsNamed,
         BatchesOnRecord, LotsCovered, Submit(r) \/ Refuse(r) \/ Read(r) \/ Transaction(r)
  PROVE  LotsCovered'
PROOF
<1> SUFFICES ASSUME Posted("edit")' = {} PROVE SumFunction(lot') <= stock'
  BY DEF LotsCovered
<1>0. SumFunction(lot) <= stock
  BY PostedGrows DEF LotsCovered, Kinds
<1>1. /\ lot \in Lots /\ lot' \in Lots /\ stock \in Nat /\ quantity[r] \in Nat
      /\ \A p \in Requests : lot[p] \in Nat /\ lot'[p] \in Nat
  <2>1. lot \in Lots /\ lot' \in Lots /\ stock \in Nat /\ quantity[r] \in Nat
    BY DEF TypeOK
  <2> QED
    BY <2>1 DEF Lots
<1>2. \A x \in Requests : (\A p \in Requests : p # x => lot'[p] = lot[p]) =>
        SumFunction(lot') = SumFunction(lot) - lot[x] + lot'[x] /\ SumFunction(lot) \in Nat
  BY <1>1, OneLotChanged
<1>3. CASE Quiet(r)
  BY <1>0, <1>3 DEF Quiet, stockVars
<1>4. CASE Transaction(r) /\ ~ AbortCancel(r)
  <2>1. Posting(r) /\ phase[r] = "active" /\ todo[r] = {} /\ kind[r] \in Kinds
    BY <1>4, PostingStep DEF Posting, TypeOK
  <2>2. CASE CommitSale(r)
    <3>1. PICK t \in Splits(r) : lot' = [p \in Requests |-> lot[p] - t[p]]
      BY <2>2 DEF CommitSale
    <3>2. lotSeen[r] = lot /\ stockSeen[r] = stock
      BY <2>1, <2>2 DEF CommitSale, Commit, ReadCurrent, ReadsOf
    <3>3. SumFunction(lot') <= stock - quantity[r]
      BY <1>0, <2>2, <3>1, <3>2, TakingCovered DEF CommitSale
    <3>4. stock' = stock - quantity[r]
      BY <1>1, <2>2 DEF CommitSale, Move
    <3> QED
      BY <3>3, <3>4
  <2>3. CASE CommitPurchase(r)
    <3>1. stock' = stock + quantity[r] /\ lot' = [lot EXCEPT ![r] = quantity[r]]
      BY <2>3 DEF CommitPurchase, Move
    <3>2. lot'[r] = quantity[r] /\ \A p \in Requests : p # r => lot'[p] = lot[p]
      BY <1>1, <3>1 DEF Lots
    <3>3. SumFunction(lot') = SumFunction(lot) - lot[r] + lot'[r] /\ SumFunction(lot) \in Nat
      BY <1>2, <3>2
    <3>4. lot[r] \in Nat
      BY <1>1
    <3> QED
      BY <1>0, <1>1, <3>1, <3>2, <3>3, <3>4
  <2>4. CASE CommitReturn(r)
    <3>1. kind[r] = "return" /\ of[r] \in Requests
      BY <2>1, <2>4 DEF CommitReturn, Commit, DocumentsNamed, Posted
    <3>2. lotSeen[r] = lot /\ stockSeen[r] = stock
      BY <2>1, <3>1 DEF ReadCurrent, ReadsOf
    <3>3. quantity[r] <= stock /\ quantity[r] <= lot[of[r]]
      BY <2>4, <3>2 DEF CommitReturn
    <3>4. stock' = stock - quantity[r] /\ lot' = [lot EXCEPT ![of[r]] = @ - quantity[r]]
      BY <1>1, <2>4, <3>1, <3>3 DEF CommitReturn
    <3>5. lot'[of[r]] = lot[of[r]] - quantity[r] /\ \A p \in Requests : p # of[r] => lot'[p] = lot[p]
      BY <1>1, <3>1, <3>4 DEF Lots
    <3>6. SumFunction(lot') = SumFunction(lot) - lot[of[r]] + lot'[of[r]] /\ SumFunction(lot) \in Nat
      BY <1>2, <3>1, <3>5
    <3>7. lot[of[r]] \in Nat
      BY <1>1, <3>1
    <3> QED
      BY <1>0, <1>1, <3>4, <3>5, <3>6, <3>7
  <2>5. CASE CommitCreditNote(r)
    <3>1. stock' = stock + quantity[r]
      BY <2>5 DEF CommitCreditNote, Move
    <3>2. PICK b \in Restores(r) :
            lot' = [x \in Requests |-> IF x = b THEN lot[x] + quantity[r] ELSE lot[x]]
      BY <2>5 DEF CommitCreditNote
    <3>3. CASE b \in Requests
      <4>1. lot'[b] = lot[b] + quantity[r] /\ \A p \in Requests : p # b => lot'[p] = lot[p]
        BY <3>2, <3>3
      <4> QED
        BY <1>0, <1>1, <1>2, <3>1, <3>3, <4>1
    <3>4. CASE b \notin Requests
      <4>1. lot'[r] = lot[r] /\ \A p \in Requests : p # r => lot'[p] = lot[p]
        BY <3>2, <3>4
      <4> QED
        BY <1>0, <1>1, <1>2, <3>1, <4>1
    <3> QED
      BY <3>3, <3>4
  <2>6. CASE CommitReversal(r)
    <3>1. kind[r] = "reversal" /\ of[r] \in Requests
      BY <2>1, <2>6 DEF CommitReversal, Commit, DocumentsNamed, Posted
    <3>2. stock' = stock - quantity[r] /\ lot' = [lot EXCEPT ![of[r]] = @ - quantity[r]]
      BY <1>1, <2>6 DEF CommitReversal, Move
    <3>3. lot'[of[r]] = lot[of[r]] - quantity[r] /\ \A p \in Requests : p # of[r] => lot'[p] = lot[p]
      BY <1>1, <3>1, <3>2 DEF Lots
    <3>4. SumFunction(lot') = SumFunction(lot) - lot[of[r]] + lot'[of[r]] /\ SumFunction(lot) \in Nat
      BY <1>2, <3>1, <3>3
    <3>5. lot[of[r]] \in Nat
      BY <1>1, <3>1
    <3> QED
      BY <1>0, <1>1, <3>2, <3>3, <3>4, <3>5
  <2>7. CASE CommitAdjustment(r)
    <3>1. kind[r] \in Adjustments /\ stock' = stockSeen[r] + Delta(r)
      BY <2>7 DEF CommitAdjustment
    <3>2. lotSeen[r] = lot /\ lotsKnown[r] = Batches /\ stockSeen[r] = stock
      BY <2>1, <3>1 DEF ReadCurrent, ReadsOf, Adjustments
    <3>3. PICK l \in Rebatched(r) :
            lot' = [x \in Requests |-> IF x \in lotsKnown[r] \cup {r} THEN l[x] ELSE lot[x]]
      BY <2>7 DEF CommitAdjustment
    <3>4. CASE kind[r] = "stockIn"
      <4>1. stock' = stock + quantity[r]
        BY <3>1, <3>2, <3>4 DEF Delta
      <4>2. PICK added : l = [lot EXCEPT ![added] = @ + quantity[r]] /\ added = IF of[r] = None THEN r ELSE of[r]
        BY <3>2, <3>3, <3>4 DEF Rebatched
      <4>3. added \in Requests
        BY <2>1, <3>4, <4>2 DEF DocumentsNamed, Posted
      <4>4. \A p \in Requests : l[p] = IF p = added THEN lot[p] + quantity[r] ELSE lot[p]
        BY <1>1, <4>2 DEF Lots
      <4>5. /\ lot'[added] = lot[added] \/ lot'[added] = lot[added] + quantity[r]
            /\ \A p \in Requests : p # added => lot'[p] = lot[p]
        BY <3>3, <4>3, <4>4
      <4> QED
        BY <1>0, <1>1, <1>2, <4>1, <4>3, <4>5
    <3>5. CASE kind[r] = "stockOut"
      <4>1. stock' = stock - quantity[r] /\ LooseSuffices(r)
        BY <1>1, <2>7, <3>1, <3>2, <3>5 DEF Delta, CommitAdjustment
      <4>2. PICK t \in Splits(r) : l = [p \in Requests |-> lot[p] - t[p]]
        BY <3>2, <3>3, <3>5 DEF Rebatched
      <4>3. ASSUME NEW p \in Requests, p \notin Batches PROVE lot[p] - t[p] = lot[p]
        <5>1. lot[p] = 0
          BY <4>3 DEF BatchesOnRecord
        <5>2. t[p] \in 0 .. quantity[r] /\ t[p] <= IF p \in Eligible(r) THEN lot[p] ELSE 0
          BY <3>2, <4>2, <4>3 DEF Splits
        <5> QED
          BY <1>1, <5>1, <5>2
      <4>4. lot' = [p \in Requests |-> lot[p] - t[p]]
        BY <3>2, <3>3, <4>2, <4>3
      <4>5. SumFunction(lot') <= stock - quantity[r]
        BY <1>0, <3>2, <4>1, <4>4, TakingCovered
      <4> QED
        BY <4>1, <4>5
    <3>6. CASE kind[r] = "transfer"
      <4>1. l = lot /\ stock' = stock
        BY <1>1, <3>1, <3>2, <3>3, <3>6 DEF Rebatched, Delta
      <4>2. lot' = lot
        BY <1>1, <3>3, <4>1 DEF Lots
      <4> QED
        BY <1>0, <4>1, <4>2
    <3> QED
      BY <3>1, <3>4, <3>5, <3>6 DEF Adjustments
  <2>8. CASE CommitNumbering(r)
    BY <1>0, <2>8 DEF CommitNumbering, stockVars
  <2>9. ~ CommitEdit(r)
    <3>1. kind[r] = "edit" => r \in Posted("edit")'
      BY <2>1, PostingPosted DEF Kinds
    <3> QED
      BY <3>1 DEF CommitEdit, Commit
  <2> QED
    BY <1>4, <2>2, <2>3, <2>4, <2>5, <2>6, <2>7, <2>8, <2>9 DEF Transaction
<1> QED
  BY <1>3, <1>4, QuietStep

(* Stock and movements: what the call that runs has read is what there is. *)
LEMMA SerialStockStep ==
  ASSUME InFlight = 1, NEW r \in Requests, TypeOK, ReadCurrent(r), StockIsMoved,
         Submit(r) \/ Refuse(r) \/ Read(r) \/ Transaction(r)
  PROVE  StockIsMoved'
PROOF
<1>0. /\ stock \in Nat /\ moved \in Int /\ Opening \in Nat /\ quantity[r] \in Nat
      /\ stock = Opening + moved
  BY QuantityAssumption DEF TypeOK, StockIsMoved
<1>1. CASE Quiet(r)
  BY <1>1 DEF StockIsMoved, Quiet, stockVars
<1>2. CASE Transaction(r) /\ ~ AbortCancel(r)
  <2>1. phase[r] = "active" /\ todo[r] = {}
    BY <1>2, PostingStep DEF Posting
  <2>2. kind[r] \in {"return", "edit"} \cup Adjustments => stockSeen[r] = stock
    <3>1. \A k \in {"return", "edit"} \cup Adjustments : "stock" \in ReadsOf(k)
      <4>1. "stock" \in ReadsOf("return") /\ "stock" \in ReadsOf("edit")
        BY DEF ReadsOf, Adjustments
      <4>2. \A k \in Adjustments : "stock" \in ReadsOf(k)
        BY DEF ReadsOf, Adjustments
      <4> QED
        BY <4>1, <4>2
    <3> QED
      BY <2>1, <3>1 DEF ReadCurrent
  <2>3. CASE CommitSale(r) \/ CommitPurchase(r) \/ CommitCreditNote(r) \/ CommitReversal(r)
    <3>1. quantity[r] \in Int /\ - quantity[r] \in Int
      BY <1>0
    <3>2. PICK d \in Int : Move(d)
      BY <2>3, <3>1 DEF CommitSale, CommitPurchase, CommitCreditNote, CommitReversal
    <3> QED
      BY <1>0, <3>2 DEF Move, StockIsMoved
  <2>4. CASE CommitReturn(r)
    <3>1. quantity[r] <= stock
      BY <2>2, <2>4 DEF CommitReturn, Commit
    <3>2. stock' = stock - quantity[r] /\ moved' = moved - quantity[r]
      BY <1>0, <2>4, <3>1 DEF CommitReturn
    <3> QED
      BY <1>0, <3>2 DEF StockIsMoved
  <2>5. CASE CommitEdit(r)
    <3>1. stock' = quantity[r] /\ moved' = moved + quantity[r] - stock
      BY <2>2, <2>5 DEF CommitEdit, Commit
    <3> QED
      BY <1>0, <3>1 DEF StockIsMoved
  <2>6. CASE CommitAdjustment(r)
    <3>1. kind[r] \in Adjustments /\ stock' = stock + Delta(r) /\ moved' = moved + Delta(r)
      BY <2>2, <2>6 DEF CommitAdjustment
    <3>2. Delta(r) \in Int
      BY <1>0, <3>1 DEF Delta, Adjustments
    <3> QED
      BY <1>0, <3>1, <3>2 DEF StockIsMoved
  <2>7. CASE CommitNumbering(r)
    BY <2>7 DEF CommitNumbering, stockVars, StockIsMoved
  <2> QED
    BY <1>2, <2>3, <2>4, <2>5, <2>6, <2>7 DEF Transaction
<1> QED
  BY <1>1, <1>2, QuietStep

LEMMA SerialInitInv == Init => SerialInv /\ StockIsMoved
PROOF
<1> SUFFICES ASSUME Init PROVE SerialInv /\ StockIsMoved
  OBVIOUS
<1>0. TypeOK /\ DocumentsNamed
  BY InitIInv DEF IInv
<1>1. \A k : Posted(k) = {}
  BY DEF Init, Posted
<1>2. OneAtATime /\ \A r \in Requests : ReadCurrent(r)
  BY DEF Init, OneAtATime, Running, ReadCurrent
<1>3. \A d \in Requests : Returned(d) = 0 /\ ~ Cancelled(d)
  <2>1. \A d \in Requests : ReturnsOf(d) = {} /\ ~ Cancelled(d)
    BY <1>1 DEF ReturnsOf, Cancelled
  <2>2. \A d \in Requests : Returned(d) = SumFunctionOnSet(quantity, ReturnsOf(d))
    BY <1>0, ReturnedNat
  <2> QED
    BY <2>1, <2>2, SumEmpty
<1>4. ReturnsTraced
  BY <1>3 DEF Init, ReturnsTraced
<1>5. BatchesOnRecord
  BY DEF Init, BatchesOnRecord, NoLots
<1>6. SumFunction(lot) = 0
  <2>1. lot = [p \in Requests |-> 0] /\ lot \in [Requests -> Nat]
    BY DEF Init, NoLots
  <2>2. \A p \in Requests : lot[p] \in Nat /\ lot[p] = lot[p] - lot[p]
    BY <2>1
  <2>3. SumFunctionOnSet(lot, Requests) = SumFunctionOnSet(lot, Requests) - SumFunctionOnSet(lot, Requests)
    BY <2>2, RequestAssumption, SumMinus
  <2>4. SumFunctionOnSet(lot, Requests) \in Nat
    BY <2>2, RequestAssumption, SumType
  <2> QED
    BY <2>1, <2>3, <2>4, SumAll
<1>7. LotsCovered /\ StockIsMoved
  BY <1>6, QuantityAssumption DEF Init, LotsCovered, StockIsMoved
<1> QED
  BY <1>0, <1>2, <1>4, <1>5, <1>7 DEF SerialInv

LEMMA SerialStep ==
  ASSUME InFlight = 1, IInv, SerialInv, [Next]_vars PROVE SerialInv' /\ (StockIsMoved => StockIsMoved')
PROOF
<1>0. IInv' /\ TypeOK /\ TypeOK' /\ DocumentsNamed'
  BY StepIInv DEF IInv
<1>1. CASE UNCHANGED vars
  <2> USE <1>1 DEF vars, askVars, seenVars, stockVars
  <2>0. OneAtATime /\ \A r \in Requests : ReadCurrent(r)
    BY DEF SerialInv
  <2>a. OneAtATime'
    BY <2>0 DEF OneAtATime, Running
  <2>b. /\ \A k : Posted(k)' = Posted(k)
        /\ \A d \in Requests : Returned(d)' = Returned(d) /\ Cancelled(d)' = Cancelled(d)
    BY DEF Posted, Returned, Cancelled
  <2>c. Batches' = Batches /\ \A d : Remaining(d)' = Remaining(d)
    BY <2>b DEF Batches, Remaining, Posted, Returned, Cancelled
  <2>d. ASSUME NEW r \in Requests
        PROVE  ReadCurrent(r)'
    <3>1. ReadCurrent(r)
      BY <2>0
    <3> QED
      BY <2>c, <3>1 DEF ReadCurrent
  <2>1. OneAtATime' /\ \A r \in Requests : ReadCurrent(r)'
    BY <2>a, <2>d
  <2>2. ReturnsTraced' /\ BatchesOnRecord'
    BY DEF SerialInv, ReturnsTraced, BatchesOnRecord, Batches, Posted, Returned, Cancelled
  <2>3. LotsCovered' /\ (StockIsMoved => StockIsMoved')
    BY DEF SerialInv, LotsCovered, Posted, StockIsMoved
  <2> QED
    BY <1>0, <2>1, <2>2, <2>3 DEF SerialInv
<1>2. ASSUME NEW r \in Requests, Submit(r) \/ Refuse(r) \/ Read(r) \/ Transaction(r)
      PROVE  SerialInv' /\ (StockIsMoved => StockIsMoved')
  <2> USE <1>2
  <2>1. ReadCurrent(r) /\ OneAtATime /\ DocumentsNamed /\ ReturnsTraced /\ BatchesOnRecord /\ LotsCovered
    BY DEF SerialInv
  <2>2. OneAtATime'
    BY <1>0, <2>1, OthersRest DEF OneAtATime, Running
  <2>3. \A q \in Requests : ReadCurrent(q)'
    BY <1>0, <2>1, ReadCurrentStep
  <2>4. ReturnsTraced'
    BY <1>0, <2>1, ReturnsTracedStep
  <2>5. BatchesOnRecord'
    BY <1>0, <2>1, BatchesOnRecordStep
  <2>6. LotsCovered'
    BY <1>0, <2>1, LotsCoveredStep
  <2>7. StockIsMoved => StockIsMoved'
    BY <1>0, <2>1, SerialStockStep
  <2> QED
    BY <1>0, <2>2, <2>3, <2>4, <2>5, <2>6, <2>7 DEF SerialInv
<1> QED
  BY <1>1, <1>2 DEF Next

LEMMA Serially == ASSUME InFlight = 1 PROVE Spec => [](SerialInv /\ StockIsMoved)
PROOF
<1>1. Init => SerialInv /\ StockIsMoved
  BY SerialInitInv
<1>2. IInv /\ SerialInv /\ StockIsMoved /\ [Next]_vars => (SerialInv /\ StockIsMoved)'
  BY SerialStep
<1> QED
  BY <1>1, <1>2, Inductive, PTL DEF Spec

(* Of calls made one after another none takes back more than the document  *)
(* it names has left: purchases and invoices account for their returns,    *)
(* and a reversed purchase has none (createPurchaseReturn, reversePurchase,*)
(* createSalesCreditNote).                                                 *)
THEOREM ReturnsTracedSerially == ASSUME InFlight = 1 PROVE Spec => []ReturnsTraced
PROOF
<1>1. SerialInv => ReturnsTraced
  BY DEF SerialInv
<1> QED
  BY Serially, <1>1, PTL

(* Of calls made one after another none leaves more in the batches than    *)
(* there is, until a stock is typed into the product form: what the        *)
(* allocation does not find in the batches it takes from loose stock only  *)
(* (allocateAuthoritativeStock).                                           *)
THEOREM LotsCoveredSerially == ASSUME InFlight = 1 PROVE Spec => []LotsCovered
PROOF
<1>1. SerialInv => LotsCovered
  BY DEF SerialInv
<1> QED
  BY Serially, <1>1, PTL

(* With one call at a time every kind of call, returns, the product form   *)
(* and adjustments included, explains the stock by a movement: it is the   *)
(* overlap of calls that breaks this.                                      *)
THEOREM StockIsMovedSerially == ASSUME InFlight = 1 PROVE Spec => []StockIsMoved
PROOF
  BY Serially, PTL
=============================================================================
