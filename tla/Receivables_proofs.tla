------------------------- MODULE Receivables_proofs -------------------------
(***************************************************************************)
(* Proofs about Receivables, for every set of invoices and calls: what     *)
(* holds however the calls race (Inductive and its consequences, the sums  *)
(* of advances and of invoices marked paid), and that calls made one after *)
(* another implement OpenItems and keep the books in agreement.            *)
(*                                                                         *)
(* QuietStep and PostingStep reduce a step to what it does to the posted   *)
(* vouchers; the parts of the invariants are proved from these two.        *)
(***************************************************************************)
EXTENDS Receivables, FiniteSetTheorems, TLAPS

LEMMA ClampNat == \A n \in Int : Clamp(n) \in Nat /\ (n >= 0 => Clamp(n) = n)
PROOF
  BY DEF Clamp

LEMMA LesserFact ==
  \A m, n \in Nat : Lesser(m, n) \in Nat /\ Lesser(m, n) <= m /\ Lesser(m, n) <= n
PROOF
  BY DEF Lesser

-----------------------------------------------------------------------------
(* Sums.  The provers know nothing of a fold, so a sum of natural numbers  *)
(* is first shown to count a set of units; the facts on finite sets do the *)
(* rest.  Induction over the subsets of a finite set is the choice of a    *)
(* smallest counterexample.                                                *)

Pick(S) == CHOOSE x \in S : TRUE

(* The units of the amounts f[x], x \in S. *)
Units(f, S) == {u \in S \X Nat : u[2] \in 1 .. f[u[1]]}

LEMMA SmallestSubset ==
  ASSUME NEW S, IsFiniteSet(S), NEW F, F \subseteq SUBSET S, F # {}
  PROVE  \E T \in F : \A U \in F : U \subseteq T => U = T
PROOF
<1>1. IsWellFoundedOn(StrictSubsetOrdering(S), SUBSET S)
  BY FS_StrictSubsetOrderingWellFounded, FS_FiniteSubsetsOfFinite
<1>2. PICK T \in F : \A U \in F : ~ (<<U, T>> \in StrictSubsetOrdering(S))
  BY <1>1, WFMin
<1>3. ASSUME NEW U \in F, U \subseteq T, U # T PROVE FALSE
  <2>1. <<U, T>> \in (SUBSET S) \X (SUBSET S)
    OBVIOUS
  <2> QED
    BY <1>2, <1>3, <2>1 DEF StrictSubsetOrdering
<1> QED
  BY <1>3

LEMMA UnitsAdd ==
  ASSUME NEW S, IsFiniteSet(S), NEW x, x \notin S, NEW f, f[x] \in Nat, IsFiniteSet(Units(f, S))
  PROVE  /\ IsFiniteSet(Units(f, S \cup {x}))
         /\ Cardinality(Units(f, S \cup {x})) = f[x] + Cardinality(Units(f, S))
PROOF
<1>1. Units(f, S \cup {x}) = Units(f, S) \cup ({x} \X (1 .. f[x]))
  BY DEF Units
<1>2. IsFiniteSet({x} \X (1 .. f[x])) /\ Cardinality({x} \X (1 .. f[x])) = f[x]
  <2>1. IsFiniteSet({x}) /\ Cardinality({x}) = 1
    BY FS_Singleton
  <2>2. \A n \in Nat : 1 * n = n /\ IsFiniteSet(1 .. n) /\ Cardinality(1 .. n) = n
    <3> SUFFICES ASSUME NEW n \in Nat PROVE 1 * n = n /\ IsFiniteSet(1 .. n) /\ Cardinality(1 .. n) = n
      OBVIOUS
    <3>1. 1 \in Int /\ n \in Int /\ 1 * n = n /\ (IF 1 <= n THEN n - 1 + 1 ELSE 0) = n
      OBVIOUS
    <3> QED
      BY <3>1, FS_Interval
  <2>3. /\ IsFiniteSet({x} \X (1 .. f[x]))
        /\ Cardinality({x} \X (1 .. f[x])) = Cardinality({x}) * Cardinality(1 .. f[x])
    BY <2>1, <2>2, FS_Product
  <2> QED
    BY <2>1, <2>2, <2>3
<1>3. Units(f, S) \cap ({x} \X (1 .. f[x])) = {}
  BY DEF Units
<1>4. Cardinality({}) = 0 /\ Cardinality(Units(f,S)) \in Nat
  BY FS_EmptySet, FS_CardinalityType
<1> DEFINE U == Units(f, S)
           V == {x} \X (1 .. f[x])
<1>5. Units(f, S \cup {x}) = U \cup V /\ Cardinality(U \cap V) = 0
  BY <1>1, <1>3, <1>4
<1>6. IsFiniteSet(U) /\ IsFiniteSet(V) /\ Cardinality(V) = f[x] /\ Cardinality(U) \in Nat
  BY <1>2, <1>4
<1> HIDE DEF U, V
<1>7. IsFiniteSet(U \cup V) /\ Cardinality(U \cup V) = Cardinality(U) + Cardinality(V) - Cardinality(U \cap V)
  BY <1>6, FS_Union
<1>8. IsFiniteSet(U \cup V) /\ Cardinality(U \cup V) = f[x] + Cardinality(U)
  BY <1>5, <1>6, <1>7
<1> QED
  BY <1>5, <1>8 DEF U

LEMMA UnitsFinite ==
  ASSUME NEW S, IsFiniteSet(S), NEW f, \A x \in S : f[x] \in Nat
  PROVE  \A T \in SUBSET S : IsFiniteSet(Units(f, T))
PROOF
<1> DEFINE F == {T \in SUBSET S : ~ IsFiniteSet(Units(f, T))}
<1> SUFFICES ASSUME F # {} PROVE FALSE
  OBVIOUS
<1>1. PICK T \in F : \A U \in F : U \subseteq T => U = T
  <2>1. F \subseteq SUBSET S
    OBVIOUS
  <2> HIDE DEF F
  <2> QED
    BY <2>1, SmallestSubset
<1>2. CASE T = {}
  <2>1. Units(f, T) = {}
    BY <1>2 DEF Units
  <2> QED
    BY <2>1, FS_EmptySet
<1>3. ASSUME NEW x \in T PROVE FALSE
  <2>1. T \ {x} \notin F /\ IsFiniteSet(T \ {x}) /\ T = (T \ {x}) \cup {x}
    BY <1>1, FS_Subset
  <2> QED
    BY <2>1, UnitsAdd
<1> QED
  BY <1>2, <1>3

Sums(f, S, g) ==
  g = [T \in SUBSET S |-> IF T = {} THEN 0 ELSE f[Pick(T)] + g[T \ {Pick(T)}]]

LEMMA SumUnfolds == \A f, S : SumFunctionOnSet(f, S) = (CHOOSE g : Sums(f, S, g))[S]
PROOF
  BY DEF SumFunctionOnSet, FoldFunctionOnSet, MapThenFoldSet, Sums, Pick

LEMMA SumIsCount ==
  ASSUME NEW S, IsFiniteSet(S), NEW f, \A x \in S : f[x] \in Nat
  PROVE  SumFunctionOnSet(f, S) = Cardinality(Units(f, S))
PROOF
<1> DEFINE h == [T \in SUBSET S |-> Cardinality(Units(f, T))]
           g == CHOOSE g : Sums(f, S, g)
<1>1. Sums(f, S, h)
  <2>1. ASSUME NEW T \in SUBSET S, T # {}
        PROVE  h[T] = f[Pick(T)] + h[T \ {Pick(T)}]
    <3>1. Pick(T) \in T
      BY <2>1 DEF Pick
    <3>2. IsFiniteSet(T \ {Pick(T)}) /\ T = (T \ {Pick(T)}) \cup {Pick(T)}
      BY <3>1, FS_Subset
    <3>3. IsFiniteSet(Units(f, T \ {Pick(T)}))
      BY UnitsFinite
    <3> QED
      BY <3>1, <3>2, <3>3, UnitsAdd
  <2>2. h[{}] = 0
    <3>1. Units(f, {}) = {}
      BY DEF Units
    <3> QED
      BY <3>1, FS_EmptySet
  <2> QED
    BY <2>1, <2>2 DEF Sums
<1>2. Sums(f, S, g)
  BY <1>1
<1> HIDE DEF g, h
<1>3. DEFINE F == {T \in SUBSET S : g[T] # h[T]}
<1>4. ASSUME NEW T \in F, \A U \in F : U \subseteq T => U = T PROVE FALSE
  <2>1. T = {} \/ (Pick(T) \in T /\ T \ {Pick(T)} \notin F)
    BY <1>4 DEF Pick
  <2>2. g[T] = IF T = {} THEN 0 ELSE f[Pick(T)] + g[T \ {Pick(T)}]
    BY <1>2 DEF Sums
  <2>3. h[T] = IF T = {} THEN 0 ELSE f[Pick(T)] + h[T \ {Pick(T)}]
    BY <1>1 DEF Sums
  <2> QED
    BY <2>1, <2>2, <2>3
<1>5. F = {}
  <2>1. F \subseteq SUBSET S
    OBVIOUS
  <2> HIDE DEF F
  <2> QED
    BY <1>4, <2>1, SmallestSubset
<1> QED
  BY <1>5, SumUnfolds DEF g, h

(* What the proofs use of sums.                                            *)
LEMMA SumEmpty == ASSUME NEW f PROVE SumFunctionOnSet(f, {}) = 0
PROOF
<1>1. Units(f, {}) = {}
  BY DEF Units
<1> QED
  BY <1>1, SumIsCount, FS_EmptySet

LEMMA SumAdd ==
  ASSUME NEW S, IsFiniteSet(S), NEW x, x \notin S, NEW f, \A y \in S \cup {x} : f[y] \in Nat
  PROVE  SumFunctionOnSet(f, S \cup {x}) = SumFunctionOnSet(f, S) + f[x]
PROOF
<1>1. IsFiniteSet(S \cup {x}) /\ IsFiniteSet(Units(f, S))
  BY FS_AddElement, UnitsFinite
<1>2. Cardinality(Units(f, S)) \in Nat /\ f[x] \in Nat
  BY <1>1, FS_CardinalityType
<1>3. SumFunctionOnSet(f, S) = Cardinality(Units(f, S))
  BY SumIsCount
<1>4. SumFunctionOnSet(f, S \cup {x}) = Cardinality(Units(f, S \cup {x}))
  BY <1>1, SumIsCount
<1> QED
  BY <1>1, <1>2, <1>3, <1>4, UnitsAdd

LEMMA SumType ==
  ASSUME NEW S, IsFiniteSet(S), NEW f, \A x \in S : f[x] \in Nat
  PROVE  SumFunctionOnSet(f, S) \in Nat
PROOF
  BY SumIsCount, UnitsFinite, FS_CardinalityType

LEMMA SumEqual ==
  ASSUME NEW S, IsFiniteSet(S), NEW f, NEW g, \A x \in S : f[x] \in Nat /\ g[x] = f[x]
  PROVE  SumFunctionOnSet(g, S) = SumFunctionOnSet(f, S)
PROOF
<1>1. Units(f, S) = Units(g, S)
  BY DEF Units
<1> QED
  BY <1>1, SumIsCount

LEMMA SumChange ==
  ASSUME NEW S, IsFiniteSet(S), NEW x \in S, NEW f, NEW g, g[x] \in Nat,
         \A y \in S : f[y] \in Nat /\ (y # x => g[y] = f[y])
  PROVE  /\ SumFunctionOnSet(g, S) = SumFunctionOnSet(f, S) - f[x] + g[x]
         /\ f[x] <= SumFunctionOnSet(f, S)
PROOF
<1>1. IsFiniteSet(S \ {x}) /\ S = (S \ {x}) \cup {x} /\ x \notin S \ {x}
  BY FS_Subset
<1>2. SumFunctionOnSet(f, S) = SumFunctionOnSet(f, S \ {x}) + f[x]
  BY <1>1, SumAdd
<1>3. SumFunctionOnSet(g, S) = SumFunctionOnSet(g, S \ {x}) + g[x]
  BY <1>1, SumAdd
<1>4. SumFunctionOnSet(g, S \ {x}) = SumFunctionOnSet(f, S \ {x})
  BY <1>1, SumEqual
<1>5. SumFunctionOnSet(f, S \ {x}) \in Nat
  BY <1>1, SumType
<1> QED
  BY <1>2, <1>3, <1>4, <1>5

-----------------------------------------------------------------------------
(* Types.                                                                  *)

LEMMA SubmitType == ASSUME NEW r \in Requests, TypeOK, Submit(r) PROVE TypeOK'
PROOF
<1> USE RequestAssumption, AmountAssumption DEF TypeOK, tables, invoiceVars, bookVars, advanceVars
<1>1. phase' \in [Requests -> Phases]
  BY DEF Submit, Step, Phases
<1>2. PICK k \in Operations, i \in Invoices, o \in posted \cup {None} :
        \E n \in 1 .. MaxAmount, m \in 0 .. MaxAmount : Asks(k, i, o, n, m) /\ Fill(r, k, i, o, n, m)
  BY DEF Submit
<1>3. PICK n \in 1 .. MaxAmount, m \in 0 .. MaxAmount : Asks(k, i, o, n, m) /\ Fill(r, k, i, o, n, m)
  BY <1>2
<1>4. kind' \in [Requests -> Kinds] /\ doc' \in [Requests -> Invoices]
  BY <1>3 DEF Fill
<1>5. of' \in [Requests -> Requests \cup {None}]
  BY <1>3 DEF Fill
<1>6. amount' \in [Requests -> Nat] /\ cut' \in [Requests -> Nat]
  <2>1. n \in Nat /\ m \in Nat
    OBVIOUS
  <2> QED
    BY <1>3, <2>1 DEF Fill
<1>7. UNCHANGED <<number, tables>>
  BY DEF Submit
<1> QED
  BY <1>1, <1>4, <1>5, <1>6, <1>7

LEMMA ReadType == ASSUME NEW r \in Requests, TypeOK, Refuse(r) \/ Read(r) PROVE TypeOK'
PROOF
<1> USE RequestAssumption, AmountAssumption DEF TypeOK, Step, Phases, requestVars, draftVars, tables, invoiceVars, bookVars, advanceVars
<1>0. CASE Refuse(r)
  BY <1>0 DEF Refuse
<1>1. CASE ReadOutstanding(r)
  <2>1. amount' \in [Requests -> Nat]
    BY <1>1 DEF ReadOutstanding
  <2>2. phase' \in [Requests -> Phases]
    BY <1>1 DEF ReadOutstanding
  <2> QED
    BY <1>1, <2>1, <2>2 DEF ReadOutstanding
<1>2. CASE CheckKey(r)
  BY <1>2 DEF CheckKey
<1>3. CASE CheckOutstanding(r)
  BY <1>3 DEF CheckOutstanding
<1>4. CASE CheckAllocation(r)
  BY <1>4 DEF CheckAllocation
<1>5. CASE ReadAdvance(r)
  BY <1>5 DEF ReadAdvance
<1>6. CASE CheckTarget(r)
  BY <1>6 DEF CheckTarget
<1>7. CASE ReadInvoice(r)
  <2>1. Lesser(OpenAmount(doc[r]), amount[r]) \in Nat
    BY LesserFact DEF OpenAmount
  <2> QED
    BY <1>7, <2>1 DEF ReadInvoice
<1>8. CASE ReadReturned(r)
  BY <1>8 DEF ReadReturned
<1>9. CASE PrepareNumber(r)
  BY <1>9 DEF PrepareNumber
<1>10. CASE ReadVoucher(r)
  BY <1>10 DEF ReadVoucher
<1> QED
  BY <1>0, <1>1, <1>2, <1>3, <1>4, <1>5, <1>6, <1>7, <1>8, <1>9, <1>10 DEF Read

(* What the parts of a write transaction leave behind.                     *)
LEMMA PartsType ==
  ASSUME TypeOK, NEW r \in Requests, NEW i \in Invoices, NEW n \in Nat
  PROVE  /\ LowerBalance(n) => balance' \in Nat
         /\ Settle(i, n) => /\ paid' \in [Invoices -> Nat] /\ due' \in [Invoices -> Nat]
                            /\ paidMinor' \in [Invoices -> Nat]
                            /\ dueMinor' \in [Invoices -> Nat]
         /\ SetPaid(i, n) => /\ paid' \in [Invoices -> Nat] /\ due' \in [Invoices -> Nat]
                             /\ UNCHANGED <<paidMinor, dueMinor>>
         /\ Journal(r, n) => /\ posted' = posted \cup {r} /\ ledger' \in Int
                             /\ arCredit' \in [Requests -> Int]
         /\ AdvanceNumber(r) => next' \in [Numbered -> Nat]
         /\ LeaveAdvance(r, n) => /\ advance' \in [Requests -> Nat] /\ UNCHANGED applied
                                  /\ status' \in [Requests -> {"none", "OPEN", "APPLIED"}]
PROOF
<1> USE AmountAssumption DEF TypeOK
<1>1. LowerBalance(n) => balance' \in Nat
  <2>1. balance - n \in Int
    OBVIOUS
  <2> QED
    BY <2>1, ClampNat DEF LowerBalance
<1>2. paidMinor[i] + n \in Nat /\ paid[i] + n \in Nat
  OBVIOUS
<1>3. Clamp(dueMinor[i] - n) \in Nat /\ Clamp(due[i] - n) \in Nat /\ Clamp(Total[i] - n) \in Nat
  <2>1. dueMinor[i] - n \in Int /\ due[i] - n \in Int /\ Total[i] - n \in Int
    OBVIOUS
  <2> QED
    BY <2>1, ClampNat
<1>4. Settle(i, n) => /\ paid' \in [Invoices -> Nat] /\ due' \in [Invoices -> Nat]
                      /\ paidMinor' \in [Invoices -> Nat]
                      /\ dueMinor' \in [Invoices -> Nat]
  BY <1>2, <1>3 DEF Settle
<1>5. SetPaid(i, n) => /\ paid' \in [Invoices -> Nat] /\ due' \in [Invoices -> Nat]
                       /\ UNCHANGED <<paidMinor, dueMinor>>
  BY <1>3 DEF SetPaid
<1>6. Journal(r, n) => /\ posted' = posted \cup {r} /\ ledger' \in Int
                       /\ arCredit' \in [Requests -> Int]
  BY DEF Journal
<1>7. AdvanceNumber(r) => next' \in [Numbered -> Nat]
  <2>1. number[r] \in Nat /\ number[r] + 1 \in Nat
    OBVIOUS
  <2>2. CASE kind[r] \in Numbered
    BY <2>1, <2>2 DEF AdvanceNumber
  <2>3. CASE kind[r] \notin Numbered
    BY <2>3 DEF AdvanceNumber
  <2> QED
    BY <2>2, <2>3
<1>8. LeaveAdvance(r, n) => /\ advance' \in [Requests -> Nat] /\ UNCHANGED applied
                            /\ status' \in [Requests -> {"none", "OPEN", "APPLIED"}]
  BY DEF LeaveAdvance
<1> QED
  BY <1>1, <1>4, <1>5, <1>6, <1>7, <1>8

LEMMA CommitType ==
  ASSUME NEW r \in Requests, TypeOK, TargetsPosted, CutsCovered, Commit(r)
  PROVE  TypeOK'
PROOF
<1>1. doc[r] \in Invoices /\ cut[r] \in Nat /\ amount[r] \in Nat
  BY DEF TypeOK
<1>2. /\ LowerBalance(cut[r]) => balance' \in Nat
      /\ Journal(r, cut[r]) => /\ posted' = posted \cup {r} /\ ledger' \in Int
                               /\ arCredit' \in [Requests -> Int]
      /\ AdvanceNumber(r) => next' \in [Numbered -> Nat]
      /\ Settle(doc[r], cut[r]) =>
           /\ paid' \in [Invoices -> Nat] /\ due' \in [Invoices -> Nat]
           /\ paidMinor' \in [Invoices -> Nat] /\ dueMinor' \in [Invoices -> Nat]
  BY <1>1, PartsType
<1>3. CASE CommitPayment(r)
  <2> DEFINE n == Lesser(Total[doc[r]], paid[doc[r]] + cut[r])
  <2>1. n \in Nat
    <3>1. Total[doc[r]] \in Nat /\ paid[doc[r]] + cut[r] \in Nat
      BY <1>1, AmountAssumption DEF TypeOK
    <3> QED
      BY <3>1, LesserFact
  <2>2. SetPaid(doc[r], n) => /\ paid' \in [Invoices -> Nat] /\ due' \in [Invoices -> Nat]
                              /\ UNCHANGED <<paidMinor, dueMinor>>
    BY <1>1, <2>1, PartsType
  <2> QED
    BY <1>2, <1>3, <2>2 DEF CommitPayment, TypeOK, Step, Phases, requestVars, draftVars, advanceVars
<1>4. CASE CommitReceipt(r)
  <2>1. amount[r] - cut[r] \in Nat
    BY <1>1, <1>4 DEF CommitReceipt, CutsCovered
  <2>2. LeaveAdvance(r, amount[r] - cut[r]) =>
          /\ advance' \in [Requests -> Nat] /\ UNCHANGED applied
          /\ status' \in [Requests -> {"none", "OPEN", "APPLIED"}]
    BY <1>1, <2>1, PartsType
  <2> QED
    BY <1>2, <1>4, <2>2 DEF CommitReceipt, TypeOK, Step, Phases, requestVars, draftVars
<1>5. CASE CommitApply(r)
  <2>1. applied' \in [Requests -> Nat]
    <3>1. of[r] \in Requests
      BY <1>5 DEF CommitApply, TargetsPosted, TypeOK, Step
    <3>2. applied[of[r]] + cut[r] \in Nat
      BY <1>1, <3>1 DEF TypeOK
    <3> QED
      BY <1>5, <3>2 DEF CommitApply, TypeOK
  <2>2. status' \in [Requests -> {"none", "OPEN", "APPLIED"}]
    BY <1>5 DEF CommitApply, TypeOK
  <2> QED
    BY <1>2, <1>5, <2>1, <2>2 DEF CommitApply, TypeOK, Step, Phases, requestVars, draftVars
<1>6. CASE CommitCreditNote(r)
  <2>1. amount[r] - cut[r] \in Nat
    BY <1>1, <1>6 DEF CommitCreditNote, CutsCovered
  <2>2. LeaveAdvance(r, amount[r] - cut[r]) =>
          /\ advance' \in [Requests -> Nat] /\ UNCHANGED applied
          /\ status' \in [Requests -> {"none", "OPEN", "APPLIED"}]
    BY <1>1, <2>1, PartsType
  <2>3. Clamp(dueMinor[doc[r]] - cut[r]) \in Nat /\ Clamp(due[doc[r]] - cut[r]) \in Nat
    BY <1>1, ClampNat DEF TypeOK
  <2>4. dueMinor' \in [Invoices -> Nat] /\ due' \in [Invoices -> Nat]
    BY <1>6, <2>3 DEF CommitCreditNote, TypeOK
  <2>5. returned' \in [Invoices -> Nat]
    BY <1>1, <1>6 DEF CommitCreditNote, TypeOK
  <2> QED
    BY <1>2, <1>6, <2>2, <2>4, <2>5 DEF CommitCreditNote, TypeOK, Step, Phases, requestVars, draftVars
<1>7. CASE CommitReversal(r)
  <2>1. of[r] \in posted /\ of[r] \in Requests
    BY <1>7 DEF CommitReversal, TargetsPosted, TypeOK, Step
  <2>2. posted' = posted \cup {r} /\ ledger' \in Int /\ arCredit' \in [Requests -> Int]
    BY <1>7, <2>1 DEF CommitReversal, Journal, TypeOK
  <2>3. /\ reversedAt' \subseteq posted' /\ balance' \in Nat
        /\ paid' \in [Invoices -> Nat] /\ due' \in [Invoices -> Nat]
        /\ UNCHANGED <<paidMinor, dueMinor>>
    <3>1. CASE kind[of[r]] = "markPaid"
      <4>1. Clamp(paid[doc[of[r]]] - amount[of[r]]) \in Nat /\ doc[of[r]] \in Invoices
        BY <2>1, ClampNat DEF TypeOK
      <4>2. SetPaid(doc[of[r]], Clamp(paid[doc[of[r]]] - amount[of[r]])) =>
              /\ paid' \in [Invoices -> Nat] /\ due' \in [Invoices -> Nat]
              /\ UNCHANGED <<paidMinor, dueMinor>>
        BY <2>1, <4>1, PartsType
      <4> QED
        BY <1>7, <2>1, <2>2, <3>1, <4>2 DEF CommitReversal, UndoPayment, TypeOK
    <3>2. CASE kind[of[r]] # "markPaid"
      BY <1>7, <2>2, <3>2 DEF CommitReversal, UndoPayment, TypeOK, invoiceVars
    <3> QED
      BY <3>1, <3>2
  <2> QED
    BY <1>7, <2>2, <2>3 DEF CommitReversal, TypeOK, Step, Phases, requestVars, draftVars, advanceVars
<1> QED
  BY <1>3, <1>4, <1>5, <1>6, <1>7 DEF Commit

LEMMA TypeStep == TypeOK /\ TargetsPosted /\ CutsCovered /\ [Next]_vars => TypeOK'
PROOF
<1>1. UNCHANGED vars /\ TypeOK => TypeOK'
  BY DEF vars, TypeOK, requestVars, draftVars, tables, invoiceVars, bookVars, advanceVars
<1> QED
  BY <1>1, SubmitType, ReadType, CommitType DEF Next

-----------------------------------------------------------------------------
(* A step is quiet (submission, refusal, a read) or it posts a voucher.    *)

Asked(r) == <<kind[r], doc[r], of[r], number[r]>>

Quiet(r) == /\ UNCHANGED tables
            /\ phase[r] # "done" /\ phase'[r] # "done" /\ phase'[r] # "idle"
            /\ \A q \in Requests : q # r => phase'[q] = phase[q] /\ UNCHANGED Asked(q)

Posting(r) == /\ UNCHANGED <<requestVars, draftVars>>
              /\ phase[r] = "ready" /\ phase' = [phase EXCEPT ![r] = "done"]
              /\ posted' = posted \cup {r}

LEMMA QuietStep ==
  ASSUME NEW r \in Requests, TypeOK, Submit(r) \/ Refuse(r) \/ Read(r)
  PROVE  Quiet(r)
PROOF
<1> USE DEF TypeOK, Step, Quiet, Asked, requestVars, draftVars
<1>1. CASE Submit(r)
  <2>1. PICK k \in Operations, i \in Invoices, o \in posted \cup {None} :
          \E n \in 1 .. MaxAmount, m \in 0 .. MaxAmount : Asks(k, i, o, n, m) /\ Fill(r, k, i, o, n, m)
    BY <1>1 DEF Submit
  <2>2. \A q \in Requests : q # r => kind'[q] = kind[q] /\ doc'[q] = doc[q] /\ of'[q] = of[q]
    BY <2>1 DEF Fill
  <2> QED
    BY <1>1, <2>2 DEF Submit
<1>2. CASE Refuse(r)
  BY <1>2 DEF Refuse, Active
<1>3. CASE ReadOutstanding(r)
  BY <1>3 DEF ReadOutstanding
<1>4. CASE CheckKey(r)
  BY <1>4 DEF CheckKey
<1>5. CASE CheckOutstanding(r)
  BY <1>5 DEF CheckOutstanding
<1>6. CASE CheckAllocation(r)
  BY <1>6 DEF CheckAllocation
<1>7. CASE ReadAdvance(r)
  BY <1>7 DEF ReadAdvance
<1>8. CASE CheckTarget(r)
  BY <1>8 DEF CheckTarget
<1>9. CASE ReadInvoice(r)
  BY <1>9 DEF ReadInvoice
<1>10. CASE ReadReturned(r)
  BY <1>10 DEF ReadReturned
<1>11. CASE PrepareNumber(r)
  BY <1>11 DEF PrepareNumber
<1>12. CASE ReadVoucher(r)
  BY <1>12 DEF ReadVoucher
<1> QED
  BY <1>1, <1>2, <1>3, <1>4, <1>5, <1>6, <1>7, <1>8, <1>9, <1>10, <1>11, <1>12 DEF Read

LEMMA PostingStep ==
  ASSUME NEW r \in Requests, TypeOK, Commit(r)
  PROVE  Posting(r)
PROOF
  BY DEF Commit, CommitPayment, CommitReceipt, CommitApply, CommitCreditNote, CommitReversal,
         Posting, Journal, Step, TypeOK

LEMMA Shapes ==
  TypeOK /\ [Next]_vars =>
    \/ \E r \in Requests : Quiet(r)
    \/ \E r \in Requests : Posting(r) /\ Commit(r)
    \/ UNCHANGED vars
PROOF
  BY QuietStep, PostingStep DEF Next

(* Every action but Submit moves a call that is under way; no action moves *)
(* another call than its own.                                              *)
LEMMA ActiveStep ==
  ASSUME NEW r \in Requests, TypeOK, Submit(r) \/ Refuse(r) \/ Read(r) \/ Commit(r)
  PROVE  /\ Submit(r) \/ phase[r] \in Active
         /\ \A q \in Requests : q # r =>
              /\ phase'[q] = phase[q] /\ kind'[q] = kind[q] /\ doc'[q] = doc[q]
              /\ of'[q] = of[q] /\ amount'[q] = amount[q] /\ cut'[q] = cut[q]
PROOF
<1> USE DEF TypeOK, Step, Active, requestVars, draftVars
<1>1. CASE Submit(r)
  <2>1. PICK k \in Operations, i \in Invoices, o \in posted \cup {None} :
          \E n \in 1 .. MaxAmount, m \in 0 .. MaxAmount : Asks(k, i, o, n, m) /\ Fill(r, k, i, o, n, m)
    BY <1>1 DEF Submit
  <2> QED
    BY <1>1, <2>1 DEF Submit, Fill
<1>2. CASE Refuse(r)
  BY <1>2 DEF Refuse
<1>3. CASE ReadOutstanding(r)
  BY <1>3 DEF ReadOutstanding
<1>4. CASE CheckOutstanding(r)
  BY <1>4 DEF CheckOutstanding
<1>5. CASE CheckTarget(r)
  BY <1>5 DEF CheckTarget
<1>6. CASE ReadInvoice(r)
  BY <1>6 DEF ReadInvoice
<1>7. CASE PrepareNumber(r)
  BY <1>7 DEF PrepareNumber
<1>8. CASE CheckKey(r) \/ CheckAllocation(r) \/ ReadAdvance(r) \/ ReadReturned(r) \/ ReadVoucher(r)
  BY <1>8 DEF CheckKey, CheckAllocation, ReadAdvance, ReadReturned, ReadVoucher
<1>9. CASE Commit(r)
  BY <1>9, PostingStep DEF Posting
<1> QED
  BY <1>1, <1>2, <1>3, <1>4, <1>5, <1>6, <1>7, <1>8, <1>9 DEF Read

LEMMA PostedStep == TypeOK /\ PostedIsDone /\ [Next]_vars => PostedIsDone'
PROOF
<1> SUFFICES ASSUME TypeOK, PostedIsDone, [Next]_vars PROVE PostedIsDone'
  OBVIOUS
<1> USE DEF PostedIsDone
<1>1. ASSUME NEW r \in Requests, Quiet(r) PROVE PostedIsDone'
  <2>1. \A q \in Requests : phase'[q] = "done" <=> phase[q] = "done"
    BY <1>1 DEF Quiet
  <2> QED
    BY <1>1, <2>1 DEF Quiet, tables, bookVars
<1>2. ASSUME NEW r \in Requests, Posting(r) PROVE PostedIsDone'
  BY <1>2 DEF Posting, TypeOK
<1>3. CASE UNCHANGED vars
  BY <1>3 DEF vars, tables, bookVars
<1> QED
  BY <1>1, <1>2, <1>3, Shapes

(* What is posted stays as it is.                                          *)
LEMMA PostedStays ==
  TypeOK /\ PostedIsDone /\ [Next]_vars =>
    \A q \in posted : q \in posted' /\ UNCHANGED Asked(q)
PROOF
<1> SUFFICES ASSUME TypeOK, PostedIsDone, [Next]_vars, NEW q \in posted
             PROVE  q \in posted' /\ UNCHANGED Asked(q)
  OBVIOUS
<1>1. ASSUME NEW r \in Requests, Quiet(r) PROVE q \in posted' /\ UNCHANGED Asked(q)
  BY <1>1 DEF Quiet, PostedIsDone, tables, bookVars
<1>2. ASSUME NEW r \in Requests, Posting(r) PROVE q \in posted' /\ UNCHANGED Asked(q)
  BY <1>2 DEF Posting, Asked, requestVars, draftVars
<1>3. CASE UNCHANGED vars
  BY <1>3 DEF vars, tables, bookVars, Asked, requestVars, draftVars
<1> QED
  BY <1>1, <1>2, <1>3, Shapes

LEMMA TargetsStep == TypeOK /\ TargetsPosted /\ [Next]_vars => TargetsPosted'
PROOF
<1> SUFFICES ASSUME TypeOK, TargetsPosted, [Next]_vars PROVE TargetsPosted'
  OBVIOUS
<1> USE DEF TargetsPosted
<1>1. ASSUME NEW r \in Requests, Submit(r) PROVE TargetsPosted'
  <2>1. PICK k \in Operations, i \in Invoices, o \in posted \cup {None} :
          \E n \in 1 .. MaxAmount, m \in 0 .. MaxAmount : Asks(k, i, o, n, m) /\ Fill(r, k, i, o, n, m)
    BY <1>1 DEF Submit
  <2>2. k \in {"apply", "reverse"} => o \in posted
    BY <2>1 DEF Asks
  <2>3. kind'[r] = k /\ of'[r] = o
    BY <2>1 DEF Fill, TypeOK
  <2>4. \A q \in Requests : q # r => phase'[q] = phase[q] /\ UNCHANGED Asked(q)
    BY <1>1, QuietStep DEF Quiet
  <2>5. posted' = posted
    BY <1>1 DEF Submit, tables, bookVars
  <2> QED
    BY <2>2, <2>3, <2>4, <2>5 DEF Asked
<1>2. ASSUME NEW r \in Requests, Refuse(r) \/ Read(r) PROVE TargetsPosted'
  <2>1. UNCHANGED <<kind, of, posted>> /\ phase[r] # "idle"
    BY <1>2 DEF Refuse, Active, Read, Step, ReadOutstanding, CheckKey, CheckOutstanding, CheckAllocation,
         ReadAdvance, CheckTarget, ReadInvoice, ReadReturned, PrepareNumber, ReadVoucher,
         requestVars, tables, bookVars
  <2>2. \A q \in Requests : q # r => phase'[q] = phase[q]
    BY <1>2, QuietStep DEF Quiet
  <2> QED
    BY <2>1, <2>2
<1>3. ASSUME NEW r \in Requests, Commit(r) PROVE TargetsPosted'
  <2>1. Posting(r)
    BY <1>3, PostingStep
  <2> QED
    BY <2>1 DEF Posting, requestVars, TypeOK
<1>4. CASE UNCHANGED vars
  BY <1>4 DEF vars, requestVars, tables, bookVars
<1> QED
  BY <1>1, <1>2, <1>3, <1>4 DEF Next

LEMMA CutsStep == TypeOK /\ CutsCovered /\ [Next]_vars => CutsCovered'
PROOF
<1> SUFFICES ASSUME TypeOK, CutsCovered, [Next]_vars PROVE CutsCovered'
  OBVIOUS
<1> USE DEF CutsCovered
<1>1. ASSUME NEW r \in Requests, Submit(r) PROVE CutsCovered'
  <2>1. PICK k \in Operations, i \in Invoices, o \in posted \cup {None} :
          \E n \in 1 .. MaxAmount, m \in 0 .. MaxAmount : Asks(k, i, o, n, m) /\ Fill(r, k, i, o, n, m)
    BY <1>1 DEF Submit
  <2>2. PICK n \in 1 .. MaxAmount, m \in 0 .. MaxAmount : Asks(k, i, o, n, m) /\ Fill(r, k, i, o, n, m)
    BY <2>1
  <2>3. k \in {"receipt", "creditNote"} => m <= n
    <3>1. k = "receipt" => m <= n
      BY <2>2 DEF Asks
    <3>2. k = "creditNote" => m = 0
      BY <2>2 DEF Asks
    <3>3. 0 <= n
      BY AmountAssumption
    <3> QED
      BY <3>1, <3>2, <3>3
  <2>4. kind'[r] = k /\ amount'[r] = n /\ cut'[r] = m
    BY <2>2 DEF Fill, TypeOK
  <2>5. \A q \in Requests : q # r => kind'[q] = kind[q] /\ amount'[q] = amount[q] /\ cut'[q] = cut[q]
    BY <2>2 DEF Fill, TypeOK
  <2> QED
    BY <2>3, <2>4, <2>5
<1>2. ASSUME NEW r \in Requests, ReadInvoice(r) PROVE CutsCovered'
  <2>1. Lesser(OpenAmount(doc[r]), amount[r]) <= amount[r]
    BY LesserFact DEF OpenAmount, TypeOK
  <2> QED
    BY <1>2, <2>1 DEF ReadInvoice, requestVars, TypeOK
<1>3. ASSUME NEW r \in Requests, ReadOutstanding(r) \/ CheckOutstanding(r) \/ CheckTarget(r)
      PROVE  CutsCovered'
  <2>1. kind[r] \notin {"receipt", "creditNote"} /\ UNCHANGED kind
    BY <1>3 DEF ReadOutstanding, CheckOutstanding, CheckTarget, requestVars
  <2>2. \A q \in Requests : q # r => amount'[q] = amount[q] /\ cut'[q] = cut[q]
    BY <1>3 DEF ReadOutstanding, CheckOutstanding, CheckTarget, requestVars, draftVars, TypeOK
  <2> QED
    BY <2>1, <2>2
<1>4. ASSUME NEW r \in Requests, Refuse(r) \/ CheckKey(r) \/ CheckAllocation(r) \/ ReadAdvance(r)
                                  \/ ReadReturned(r) \/ PrepareNumber(r) \/ ReadVoucher(r) \/ Commit(r)
      PROVE  CutsCovered'
  <2>1. UNCHANGED <<kind, amount, cut>>
    BY <1>4, PostingStep DEF Posting, Refuse, CheckKey, CheckAllocation, ReadAdvance, ReadReturned,
         PrepareNumber, ReadVoucher, requestVars, draftVars
  <2> QED
    BY <2>1
<1>5. CASE UNCHANGED vars
  BY <1>5 DEF vars, requestVars, draftVars
<1> QED
  BY <1>1, <1>2, <1>3, <1>4, <1>5 DEF Next, Read

-----------------------------------------------------------------------------
(* The three properties of racing calls.                                   *)

LEMMA ReversedStep ==
  TypeOK /\ PostedIsDone /\ TargetsPosted /\ ReversedOnce /\ [Next]_vars => ReversedOnce'
PROOF
<1> SUFFICES ASSUME TypeOK, PostedIsDone, TargetsPosted, ReversedOnce, [Next]_vars
             PROVE  ReversedOnce'
  OBVIOUS
<1> USE DEF ReversedOnce, PostedAs, Reversed
<1>0. \A v \in posted : kind'[v] = kind[v] /\ of'[v] = of[v]
  BY PostedStays DEF Asked
<1>1. CASE UNCHANGED posted /\ UNCHANGED reversedAt
  BY <1>0, <1>1
<1>2. ASSUME NEW r \in Requests, Commit(r) PROVE ReversedOnce'
  <2>1. Posting(r)
    BY <1>2, PostingStep
  <2>2. /\ posted' = posted \cup {r} /\ r \notin posted
        /\ UNCHANGED <<kind, of>> /\ phase[r] = "ready"
    BY <2>1 DEF Posting, PostedIsDone, requestVars
  <2>3. \A v \in posted : v \in Requests /\ phase[v] = "done"
    BY DEF PostedIsDone
  <2>4. \A v \in posted : kind[v] = "reverse" => of[v] \in posted /\ of[v] # r
    BY <2>2, <2>3 DEF TargetsPosted
  <2>5. CASE CommitReversal(r)
    <3>1. kind[r] = "reverse" /\ ~Reversed(of[r]) /\ of[r] \in posted /\ of[r] # r
      BY <2>2, <2>5 DEF CommitReversal, TargetsPosted
    <3>2. reversedAt' = IF kind[of[r]] = "markPaid" THEN reversedAt \cup {of[r]} ELSE reversedAt
      BY <2>5 DEF CommitReversal, UndoPayment
    <3>3. \A v \in posted : Reversed(v)' <=> Reversed(v) \/ v = of[r]
      BY <2>2, <3>1
    <3> QED
      BY <2>2, <3>1, <3>2, <3>3
  <2>6. CASE ~CommitReversal(r)
    <3>1. kind[r] # "reverse" /\ UNCHANGED reversedAt
      BY <1>2, <2>6 DEF Commit, CommitPayment, CommitReceipt, CommitApply, CommitCreditNote, Numbered
    <3>2. \A v \in Requests : Reversed(v)' <=> Reversed(v)
      BY <2>2, <3>1
    <3>3. ~Reversed(r) /\ r \notin reversedAt
      BY <2>2, <2>4 DEF TypeOK
    <3> QED
      BY <2>2, <2>3, <3>1, <3>2, <3>3
  <2> QED
    BY <2>5, <2>6
<1>3. ASSUME NEW r \in Requests, Quiet(r) PROVE UNCHANGED posted /\ UNCHANGED reversedAt
  BY <1>3 DEF Quiet, tables, bookVars
<1>4. UNCHANGED vars => UNCHANGED posted /\ UNCHANGED reversedAt
  BY DEF vars, tables, bookVars
<1> QED
  BY <1>1, <1>2, <1>3, <1>4, Shapes

LEMMA KeyStep ==
  TypeOK /\ PostedIsDone /\ OneReceiptPerKey /\ [Next]_vars => OneReceiptPerKey'
PROOF
<1> SUFFICES ASSUME TypeOK, PostedIsDone, OneReceiptPerKey, [Next]_vars PROVE OneReceiptPerKey'
  OBVIOUS
<1> USE DEF OneReceiptPerKey, PostedAs
<1>0. \A v \in posted : kind'[v] = kind[v] /\ doc'[v] = doc[v]
  BY PostedStays DEF Asked
<1>1. CASE UNCHANGED posted
  BY <1>0, <1>1
<1>2. ASSUME NEW r \in Requests, Commit(r) PROVE OneReceiptPerKey'
  <2>1. posted' = posted \cup {r} /\ UNCHANGED <<kind, doc>>
    BY <1>2, PostingStep DEF Posting, requestVars
  <2>2. CASE CommitPayment(r)
    BY <2>1, <2>2 DEF CommitPayment, KeyTaken
  <2>3. CASE ~CommitPayment(r)
    <3>1. kind[r] # "markPaid"
      BY <1>2, <2>3 DEF Commit, CommitReceipt, CommitApply, CommitCreditNote, CommitReversal
    <3> QED
      BY <2>1, <3>1
  <2> QED
    BY <2>2, <2>3
<1>3. ASSUME NEW r \in Requests, Quiet(r) PROVE UNCHANGED posted
  BY <1>3 DEF Quiet, tables, bookVars
<1>4. UNCHANGED vars => UNCHANGED posted
  BY DEF vars, tables, bookVars
<1> QED
  BY <1>1, <1>2, <1>3, <1>4, Shapes

LEMMA NumbersStep ==
  TypeOK /\ PostedIsDone /\ FreshNumbers /\ [Next]_vars => FreshNumbers'
PROOF
<1> SUFFICES ASSUME TypeOK, PostedIsDone, FreshNumbers, [Next]_vars PROVE FreshNumbers'
  OBVIOUS
<1> USE DEF FreshNumbers
<1>0. \A v \in posted : kind'[v] = kind[v] /\ number'[v] = number[v]
  BY PostedStays DEF Asked
<1>1. CASE UNCHANGED posted /\ UNCHANGED next
  BY <1>0, <1>1
<1>2. ASSUME NEW r \in Requests, Commit(r) PROVE FreshNumbers'
  <2>1. posted' = posted \cup {r} /\ UNCHANGED <<kind, number>>
    BY <1>2, PostingStep DEF Posting, requestVars, draftVars
  <2>2. CASE CommitReceipt(r) \/ CommitApply(r) \/ CommitCreditNote(r)
    <3>1. AdvanceNumber(r) /\ NumberFree(r) /\ kind[r] \in Numbered
      BY <2>2 DEF CommitReceipt, CommitApply, CommitCreditNote, Numbered
    <3>2. \A v \in Requests : number[v] \in Nat
      BY DEF TypeOK
    <3>3. next'[kind[r]] > number[r] /\ next'[kind[r]] >= next[kind[r]]
      BY <3>1, <3>2 DEF AdvanceNumber, TypeOK
    <3>4. \A k \in Numbered : k # kind[r] => next'[k] = next[k]
      BY <3>1 DEF AdvanceNumber, TypeOK
    <3>5. \A k \in Numbered : next[k] \in Nat /\ next'[k] \in Nat
      BY <3>1, <3>2 DEF AdvanceNumber, TypeOK
    <3>6. \A v \in posted' : kind[v] \in Numbered => number[v] < next'[kind[v]]
      <4> SUFFICES ASSUME NEW v \in posted', kind[v] \in Numbered PROVE number[v] < next'[kind[v]]
        OBVIOUS
      <4>1. CASE v = r
        BY <3>2, <3>3, <3>5, <4>1
      <4>2. CASE v # r
        <5>1. number[v] < next[kind[v]] /\ v \in Requests
          BY <2>1, <4>2 DEF TypeOK
        <5> QED
          BY <3>2, <3>3, <3>4, <3>5, <5>1
      <4> QED
        BY <4>1, <4>2
    <3>7. \A u, v \in posted' :
            kind[u] = kind[v] /\ kind[v] \in Numbered /\ number[u] = number[v] => u = v
      BY <2>1, <3>1 DEF NumberFree
    <3> QED
      BY <2>1, <3>6, <3>7
  <2>3. CASE CommitPayment(r) \/ CommitReversal(r)
    <3>1. kind[r] \notin Numbered /\ UNCHANGED next
      BY <2>3 DEF CommitPayment, CommitReversal, Numbered
    <3> QED
      BY <2>1, <3>1
  <2> QED
    BY <1>2, <2>2, <2>3 DEF Commit
<1>3. ASSUME NEW r \in Requests, Quiet(r) PROVE UNCHANGED posted /\ UNCHANGED next
  BY <1>3 DEF Quiet, tables, bookVars
<1>4. UNCHANGED vars => UNCHANGED posted /\ UNCHANGED next
  BY DEF vars, tables, bookVars
<1> QED
  BY <1>1, <1>2, <1>3, <1>4, Shapes

LEMMA InitInv == Init => IInv
PROOF
<1> SUFFICES ASSUME Init PROVE IInv
  OBVIOUS
<1>1. TypeOK
  <2>1. (CHOOSE i \in Invoices : TRUE) \in Invoices
    BY AmountAssumption
  <2> QED
    BY <2>1, RequestAssumption, AmountAssumption DEF Init, TypeOK, Phases, Kinds, Numbered
<1>2. PostedIsDone /\ TargetsPosted /\ CutsCovered /\ ReversedOnce /\ OneReceiptPerKey /\ FreshNumbers
  BY DEF Init, PostedIsDone, TargetsPosted, CutsCovered, ReversedOnce, OneReceiptPerKey, FreshNumbers, PostedAs
<1> QED
  BY <1>1, <1>2 DEF IInv

(* The invariant of racing calls is inductive.                             *)
THEOREM Inductive == Spec => []IInv
PROOF
<1>1. IInv /\ [Next]_vars => IInv'
  BY TypeStep, PostedStep, TargetsStep, CutsStep, ReversedStep, KeyStep, NumbersStep DEF IInv
<1> QED
  BY InitInv, <1>1, PTL DEF Spec

(* The tables and the requests keep their types under every interleaving   *)
(* of the calls of localApiFetch.                                          *)
THEOREM TypeCorrect == Spec => []TypeOK
PROOF
<1>1. IInv => TypeOK
  BY DEF IInv
<1> QED
  BY Inductive, <1>1, PTL

(* Racing calls of reverseJournal post one reversal of a journal, and      *)
(* payments.reversed_at says exactly which receipts are reversed.          *)
THEOREM ReversedOnceAlways == Spec => []ReversedOnce
PROOF
<1>1. IInv => ReversedOnce
  BY DEF IInv
<1> QED
  BY Inductive, <1>1, PTL

(* updateInvoiceStatus posts at most one receipt for an invoice.           *)
THEOREM OneReceiptPerKeyAlways == Spec => []OneReceiptPerKey
PROOF
<1>1. IInv => OneReceiptPerKey
  BY DEF IInv
<1> QED
  BY Inductive, <1>1, PTL

(* The series is past every number it gave out: a number prepared after    *)
(* the last commit is free (prepareAccountingVoucherNumber).               *)
THEOREM FreshNumbersAlways == Spec => []FreshNumbers
PROOF
<1>1. IInv => FreshNumbers
  BY DEF IInv
<1> QED
  BY Inductive, <1>1, PTL

-----------------------------------------------------------------------------
(* Advances.                                                               *)

LEMMA PostedKept ==
  TypeOK /\ PostedIsDone /\ [Next]_vars =>
    \A q \in posted : /\ kind'[q] = kind[q] /\ doc'[q] = doc[q] /\ of'[q] = of[q]
                      /\ amount'[q] = amount[q] /\ cut'[q] = cut[q]
PROOF
<1> SUFFICES ASSUME TypeOK, PostedIsDone, [Next]_vars, NEW q \in posted
             PROVE  /\ kind'[q] = kind[q] /\ doc'[q] = doc[q] /\ of'[q] = of[q]
                    /\ amount'[q] = amount[q] /\ cut'[q] = cut[q]
  OBVIOUS
<1>1. q \in Requests /\ phase[q] = "done"
  BY DEF PostedIsDone
<1>2. ASSUME NEW r \in Requests, Submit(r) \/ Refuse(r) \/ Read(r) \/ Commit(r) PROVE r # q
  BY <1>1, <1>2, ActiveStep DEF Active, Submit, Step
<1>3. CASE UNCHANGED vars
  BY <1>3 DEF vars, requestVars, draftVars
<1> QED
  BY <1>1, <1>2, <1>3, ActiveStep DEF Next

LEMMA AppliesStep == TypeOK /\ AppliesWhole /\ [Next]_vars => AppliesWhole'
PROOF
<1> SUFFICES ASSUME TypeOK, AppliesWhole, [Next]_vars PROVE AppliesWhole'
  OBVIOUS
<1> USE DEF AppliesWhole, Step
<1>0. ASSUME NEW r \in Requests, Submit(r) \/ Refuse(r) \/ Read(r) \/ Commit(r),
             kind'[r] = "apply" /\ phase'[r] \in {"checked", "ready", "done"} => cut'[r] = amount'[r]
      PROVE  AppliesWhole'
  BY <1>0, ActiveStep
<1>1. ASSUME NEW r \in Requests, Submit(r) \/ Refuse(r)
      PROVE  phase'[r] \notin {"checked", "ready", "done"}
  BY <1>1 DEF Submit, Refuse, TypeOK
<1>2. ASSUME NEW r \in Requests, CheckTarget(r) PROVE cut'[r] = amount'[r]
  BY <1>2 DEF CheckTarget, requestVars, TypeOK
<1>3. ASSUME NEW r \in Requests, PrepareNumber(r) \/ Commit(r)
      PROVE  UNCHANGED <<kind, cut, amount>> /\ phase[r] \in {"checked", "ready"}
  BY <1>3, PostingStep DEF Posting, PrepareNumber, requestVars, draftVars
<1>4. ASSUME NEW r \in Requests, Read(r), ~ CheckTarget(r), ~ PrepareNumber(r)
      PROVE  kind'[r] # "apply" \/ phase'[r] = "looked"
  BY <1>4 DEF Read, ReadOutstanding, CheckKey, CheckOutstanding, CheckAllocation, ReadAdvance,
       ReadInvoice, ReadReturned, ReadVoucher, requestVars, TypeOK
<1>5. CASE UNCHANGED vars
  BY <1>5 DEF vars, requestVars, draftVars
<1> QED
  BY <1>0, <1>1, <1>2, <1>3, <1>4, <1>5 DEF Next

LEMMA ApplicationsFact ==
  ASSUME TypeOK, IsFiniteSet(posted), NEW s
  PROVE  /\ IsFiniteSet(Applications(s)) /\ Applications(s) \subseteq posted
         /\ \A q \in Applications(s) : amount[q] \in Nat
PROOF
  BY FS_Subset DEF Applications, PostedAs, TypeOK

(* What has been applied of an advance changes with a posted application.  *)
LEMMA AppliedStep ==
  ASSUME TypeOK, PostedIsDone, [Next]_vars, IsFiniteSet(posted), NEW s
  PROVE  /\ Applications(s)' = Applications(s) =>
              SumOf(amount, Applications(s))' = SumOf(amount, Applications(s))
         /\ \A r \in Requests :
              /\ r \notin posted /\ Applications(s)' = Applications(s) \cup {r}
              /\ amount'[r] = amount[r]
              => SumOf(amount, Applications(s))' = SumOf(amount, Applications(s)) + amount[r]
PROOF
<1> DEFINE A == Applications(s)
<1>1. IsFiniteSet(A) /\ A \subseteq posted /\ \A q \in A : amount[q] \in Nat
  BY ApplicationsFact
<1>2. \A q \in A : amount'[q] = amount[q]
  BY <1>1, PostedKept
<1> HIDE DEF A
<1>3. SumFunctionOnSet(amount', A) = SumFunctionOnSet(amount, A)
  BY <1>1, <1>2, SumEqual
<1>4. ASSUME NEW r \in Requests, r \notin posted, amount'[r] = amount[r]
      PROVE  SumFunctionOnSet(amount', A \cup {r}) = SumFunctionOnSet(amount, A) + amount[r]
  <2>1. r \notin A /\ \A q \in A \cup {r} : amount'[q] \in Nat
    BY <1>1, <1>2, <1>4 DEF TypeOK
  <2>2. SumFunctionOnSet(amount', A \cup {r}) = SumFunctionOnSet(amount', A) + amount'[r]
    BY <1>1, <2>1, SumAdd
  <2> QED
    BY <1>3, <1>4, <2>2
<1> QED
  BY <1>3, <1>4 DEF SumOf, A

LEMMA AdvancesStep == ASSUME IInv, AdvancesInv, [Next]_vars PROVE AdvancesInv'
PROOF
<1>0. TypeOK /\ PostedIsDone /\ TargetsPosted /\ CutsCovered /\ AppliesWhole' /\ IsFiniteSet(posted)
  BY AppliesStep DEF IInv, AdvancesInv
<1>1. ASSUME UNCHANGED tables PROVE AdvancesInv'
  <2>1. UNCHANGED <<posted, advance, applied, status>>
    BY <1>1 DEF tables, bookVars, advanceVars
  <2>2. \A s : Applications(s)' = Applications(s)
    BY <1>0, <2>1, PostedKept DEF Applications, PostedAs
  <2>3. \A s : SumOf(amount, Applications(s))' = SumOf(amount, Applications(s))
    BY <1>0, <2>2, AppliedStep
  <2> QED
    BY <1>0, <2>1, <2>3 DEF AdvancesInv, AdvancesCovered
<1>2. ASSUME NEW r \in Requests, Commit(r) PROVE AdvancesInv'
  <2>1. /\ posted' = posted \cup {r} /\ r \notin posted /\ phase[r] = "ready"
        /\ UNCHANGED <<kind, doc, of, amount, cut>>
    BY <1>0, <1>2, PostingStep DEF Posting, PostedIsDone, requestVars, draftVars
  <2>2. IsFiniteSet(posted')
    BY <1>0, <2>1, FS_AddElement
  <2>3. advance[r] = 0 /\ applied[r] = 0 /\ cut[r] \in Nat /\ amount[r] \in Nat
    BY <1>0, <2>1 DEF AdvancesInv, TypeOK
  <2>4. \A s : Applications(s)' = IF kind[r] = "apply" /\ of[r] = s
                                   THEN Applications(s) \cup {r} ELSE Applications(s)
    BY <2>1 DEF Applications, PostedAs
  <2>5. \A s : SumOf(amount, Applications(s))' =
                 IF kind[r] = "apply" /\ of[r] = s THEN SumOf(amount, Applications(s)) + amount[r]
                 ELSE SumOf(amount, Applications(s))
    BY <1>0, <2>1, <2>4, AppliedStep
  <2>6. \A s \in Requests : advance[s] \in Nat /\ applied[s] \in Nat
    BY <1>0 DEF TypeOK
  <2>7. CASE CommitReceipt(r) \/ CommitCreditNote(r)
    <3>1. kind[r] \in {"receipt", "creditNote"} /\ LeaveAdvance(r, amount[r] - cut[r])
      BY <2>7 DEF CommitReceipt, CommitCreditNote
    <3>2. amount[r] - cut[r] \in Nat
      BY <1>0, <2>3, <3>1 DEF CutsCovered
    <3>3. /\ UNCHANGED applied
          /\ \A s \in Requests : advance'[s] = IF s = r THEN amount[r] - cut[r] ELSE advance[s]
          /\ \A s \in Requests : s # r => status'[s] = status[s]
          /\ status'[r] = "OPEN" <=> 0 < amount[r] - cut[r]
      BY <1>0, <3>1, <3>2 DEF LeaveAdvance, TypeOK
    <3>4. AdvancesCovered'
      BY <2>3, <2>5, <3>1, <3>2, <3>3 DEF AdvancesInv, AdvancesCovered
    <3> QED
      BY <1>0, <2>1, <2>2, <3>3, <3>4 DEF AdvancesInv
  <2>8. CASE CommitApply(r)
    <3>1. /\ kind[r] = "apply" /\ UNCHANGED advance /\ applied[of[r]] + cut[r] <= advance[of[r]]
          /\ applied' = [applied EXCEPT ![of[r]] = @ + cut[r]]
          /\ status' = [status EXCEPT ![of[r]] =
               IF applied[of[r]] + cut[r] >= advance[of[r]] THEN "APPLIED" ELSE "OPEN"]
      BY <2>8 DEF CommitApply
    <3>2. of[r] \in posted /\ of[r] \in Requests
      BY <1>0, <2>1, <3>1 DEF TargetsPosted, TypeOK
    <3>3. cut[r] = amount[r]
      BY <2>1, <3>1 DEF AdvancesInv, AppliesWhole
    <3>4. /\ \A s \in Requests : applied'[s] = IF s = of[r] THEN applied[s] + cut[r] ELSE applied[s]
          /\ \A s \in Requests : s # of[r] => status'[s] = status[s]
          /\ status'[of[r]] = "OPEN" <=> applied[of[r]] + cut[r] < advance[of[r]]
      BY <1>0, <2>3, <2>6, <3>1, <3>2 DEF TypeOK
    <3>5. AdvancesCovered'
      BY <2>3, <2>5, <2>6, <3>1, <3>2, <3>3, <3>4 DEF AdvancesInv, AdvancesCovered
    <3> QED
      BY <1>0, <2>1, <2>2, <3>1, <3>2, <3>4, <3>5 DEF AdvancesInv
  <2>9. CASE CommitPayment(r) \/ CommitReversal(r)
    <3>1. kind[r] # "apply" /\ UNCHANGED <<advance, applied, status>>
      BY <2>9 DEF CommitPayment, CommitReversal, advanceVars
    <3> QED
      BY <1>0, <2>1, <2>2, <2>5, <3>1 DEF AdvancesInv, AdvancesCovered
  <2> QED
    BY <1>2, <2>7, <2>8, <2>9 DEF Commit
<1>3. (\A r \in Requests : Quiet(r) => UNCHANGED tables) /\ (UNCHANGED vars => UNCHANGED tables)
  BY DEF Quiet, vars
<1> QED
  BY <1>0, <1>1, <1>2, <1>3, Shapes

(* No interleaving of applyPartyAdvance spends an advance beyond its       *)
(* worth, and party_advances says what the posted applications add up to.  *)
THEOREM AdvancesCoveredAlways == Spec => []AdvancesCovered
PROOF
<1>1. Init => AdvancesInv
  <2> SUFFICES ASSUME Init PROVE AdvancesInv
    OBVIOUS
  <2>1. \A s : Applications(s) = {}
    BY DEF Init, Applications, PostedAs
  <2>2. \A s : SumOf(amount, Applications(s)) = 0
    BY <2>1, SumEmpty DEF SumOf
  <2> QED
    BY <2>2, FS_EmptySet DEF Init, AdvancesInv, AdvancesCovered, AppliesWhole
<1>2. IInv /\ AdvancesInv /\ [Next]_vars => AdvancesInv'
  BY AdvancesStep
<1>3. AdvancesInv => AdvancesCovered
  BY DEF AdvancesInv
<1> QED
  BY Inductive, <1>1, <1>2, <1>3, PTL DEF Spec

-----------------------------------------------------------------------------
(* Marking invoices paid and taking that back.                             *)

LEMMA AskedKept ==
  ASSUME TypeOK, [Next]_vars, NEW q \in Requests, phase[q] # "idle"
  PROVE  phase'[q] # "idle" /\ kind'[q] = kind[q] /\ doc'[q] = doc[q] /\ of'[q] = of[q]
PROOF
<1>1. ASSUME NEW r \in Requests, r # q, Submit(r) \/ Refuse(r) \/ Read(r) \/ Commit(r)
      PROVE  phase'[q] = phase[q] /\ kind'[q] = kind[q] /\ doc'[q] = doc[q] /\ of'[q] = of[q]
  BY <1>1, ActiveStep
<1>2. ASSUME Refuse(q) \/ Read(q) \/ Commit(q)
      PROVE  phase'[q] # "idle" /\ UNCHANGED <<kind, doc, of>>
  BY <1>2 DEF Refuse, Read, Commit, Step, ReadOutstanding, CheckKey, CheckOutstanding,
       CheckAllocation, ReadAdvance, CheckTarget, ReadInvoice, ReadReturned, PrepareNumber, ReadVoucher,
       CommitPayment, CommitReceipt, CommitApply, CommitCreditNote, CommitReversal, requestVars, TypeOK
<1>3. ~ Submit(q)
  BY DEF Submit, Step
<1>4. CASE UNCHANGED vars
  BY <1>4 DEF vars, requestVars
<1> QED
  BY <1>1, <1>2, <1>3, <1>4 DEF Next

(* Once another kind of call has begun it stays begun.                     *)
LEMMA OnlyMarksBack ==
  ASSUME TypeOK, PostedIsDone, TargetsPosted, [Next]_vars, OnlyMarks' PROVE OnlyMarks
PROOF
<1> SUFFICES ASSUME NEW r \in Requests, phase[r] # "idle" PROVE MarksOrUnmarks(r)
  BY DEF OnlyMarks
<1>1. phase'[r] # "idle" /\ kind'[r] = kind[r] /\ of'[r] = of[r]
  BY AskedKept
<1>2. kind'[r] = "markPaid" \/ (kind'[r] = "reverse" /\ kind'[of'[r]] = "markPaid")
  BY <1>1 DEF OnlyMarks, MarksOrUnmarks
<1>3. kind[r] = "reverse" => kind'[of[r]] = kind[of[r]]
  BY PostedKept DEF TargetsPosted
<1> QED
  BY <1>1, <1>2, <1>3 DEF MarksOrUnmarks

LEMMA MarkWholeStep ==
  ASSUME TypeOK, InvoicesMarked, \A q \in Requests : MarkWhole(q), [Next]_vars
  PROVE  \A q \in Requests : MarkWhole(q)'
PROOF
<1> SUFFICES ASSUME NEW q \in Requests, kind'[q] = "markPaid" PROVE MarkWhole(q)'
  BY DEF MarkWhole
<1>0. MarkWhole(q)
  OBVIOUS
<1>1. ASSUME NEW r \in Requests, r # q, Submit(r) \/ Refuse(r) \/ Read(r) \/ Commit(r)
      PROVE  MarkWhole(q)'
  <2>1. /\ phase'[q] = phase[q] /\ kind'[q] = kind[q] /\ doc'[q] = doc[q]
        /\ amount'[q] = amount[q] /\ cut'[q] = cut[q]
    BY <1>1, ActiveStep
  <2>2. ASSUME Submit(r) \/ Refuse(r) \/ Read(r) PROVE UNCHANGED arCredit
    BY <2>2, QuietStep DEF Quiet, tables, bookVars
  <2>3. ASSUME Commit(r) PROVE arCredit'[q] = arCredit[q]
    BY <1>1, <2>3 DEF Commit, CommitPayment, CommitReceipt, CommitApply, CommitCreditNote,
         CommitReversal, Journal, TypeOK
  <2> QED
    BY <1>0, <1>1, <2>1, <2>2, <2>3 DEF MarkWhole
<1>2. CASE Submit(q) \/ Refuse(q)
  <2>1. phase'[q] \notin {"looked", "checked", "ready", "done"}
    BY <1>2 DEF Submit, Refuse, Step, TypeOK
  <2> QED
    BY <2>1 DEF MarkWhole
<1>3. CASE Read(q)
  <2>0. kind[q] = "markPaid"
    BY <1>3 DEF Read, ReadOutstanding, CheckKey, CheckOutstanding, CheckAllocation, ReadAdvance,
         CheckTarget, ReadInvoice, ReadReturned, PrepareNumber, ReadVoucher, requestVars
  <2>1. CASE ReadOutstanding(q) /\ due[doc[q]] # 0
    <3>1. due[doc[q]] = Total[doc[q]]
      BY <2>1 DEF InvoicesMarked, TypeOK
    <3>2. amount'[q] = due[doc[q]] /\ doc'[q] = doc[q] /\ phase'[q] = "looked"
      BY <2>1 DEF ReadOutstanding, Step, TypeOK
    <3> QED
      BY <3>1, <3>2 DEF MarkWhole
  <2>2. CASE ReadOutstanding(q) /\ due[doc[q]] = 0
    BY <2>2 DEF ReadOutstanding, Step, TypeOK, MarkWhole
  <2>3. CASE CheckKey(q)
    <3>1. UNCHANGED <<amount, doc>> /\ phase[q] = "looked" /\ phase'[q] \in {"same", "checked"}
      BY <2>3 DEF CheckKey, Step, requestVars, TypeOK
    <3> QED
      BY <1>0, <2>0, <3>1 DEF MarkWhole
  <2>4. CASE CheckOutstanding(q)
    <3>1. /\ UNCHANGED <<amount, doc>> /\ phase[q] = "checked" /\ phase'[q] = "ready"
          /\ cut'[q] = amount[q]
      BY <2>4 DEF CheckOutstanding, Step, requestVars, TypeOK
    <3> QED
      BY <1>0, <2>0, <3>1 DEF MarkWhole
  <2> QED
    BY <1>3, <2>0, <2>1, <2>2, <2>3, <2>4 DEF Read, CheckAllocation, ReadAdvance, CheckTarget,
       ReadInvoice, ReadReturned, PrepareNumber, ReadVoucher, Numbered, ReadOutstanding
<1>4. CASE Commit(q)
  <2>1. UNCHANGED <<kind, doc, amount, cut>> /\ phase[q] = "ready" /\ phase'[q] = "done"
    BY <1>4, PostingStep DEF Posting, requestVars, draftVars, TypeOK
  <2>2. CommitPayment(q)
    BY <1>4, <2>1 DEF Commit, CommitReceipt, CommitApply, CommitCreditNote, CommitReversal
  <2>3. arCredit'[q] = cut[q]
    BY <2>2 DEF CommitPayment, Journal, TypeOK
  <2> QED
    BY <1>0, <2>1, <2>3 DEF MarkWhole
<1>5. CASE UNCHANGED vars
  BY <1>0, <1>5 DEF MarkWhole, vars, requestVars, draftVars, tables, bookVars
<1> QED
  BY <1>1, <1>2, <1>3, <1>4, <1>5 DEF Next

(* The two transactions that marking and unmarking commit.                 *)
LEMMA MarkCommit ==
  ASSUME IInv, MarksInv, NEW r \in Requests, CommitPayment(r)
  PROVE  InvoicesMarked' /\ balance' = ledger' /\ balance' = SumOf(due, Invoices)'
PROOF
<1> DEFINE i == doc[r]
<1>0. TypeOK /\ PostedIsDone /\ i \in Invoices /\ Total[i] \in Nat
  BY AmountAssumption DEF IInv, TypeOK
<1>1. phase[r] = "ready" /\ kind[r] = "markPaid" /\ ~ KeyTaken(i)
  BY DEF CommitPayment, Step
<1>2. cut[r] = Total[i]
  BY <1>1 DEF MarksInv, MarkWhole
<1>3. ~ Received(i)
  BY <1>1 DEF KeyTaken, Received, PostedAs
<1>4. paid[i] = 0 /\ due[i] = Total[i]
  BY <1>0, <1>3 DEF MarksInv, InvoicesMarked
<1>5. SetPaid(i, Total[i])
  <2>1. Lesser(Total[i], paid[i] + cut[r]) = Total[i]
    BY <1>0, <1>2, <1>4 DEF Lesser
  <2> QED
    BY <2>1 DEF CommitPayment
<1>6. paid' = [paid EXCEPT ![i] = Total[i]] /\ due' = [due EXCEPT ![i] = 0]
  <2>1. Total[i] - Total[i] = 0 /\ Clamp(0) = 0
    BY <1>0 DEF Clamp
  <2> QED
    BY <1>5, <2>1 DEF SetPaid
<1>7. posted' = posted \cup {r} /\ r \notin posted /\ r \notin reversedAt /\ UNCHANGED <<kind, doc, reversedAt>>
  BY <1>0, <1>1 DEF CommitPayment, Journal, PostedIsDone, TypeOK, requestVars
<1>8. \A j \in Invoices : Received(j)' <=> Received(j) \/ j = i
  BY <1>1, <1>7 DEF Received, PostedAs
<1>9. InvoicesMarked'
  BY <1>0, <1>6, <1>8 DEF InvoicesMarked, MarksInv, TypeOK
<1>10. /\ SumOf(due, Invoices)' = SumOf(due, Invoices) - Total[i]
       /\ Total[i] <= SumOf(due, Invoices) /\ SumOf(due, Invoices) \in Nat
  <2>1. \A j \in Invoices : due[j] \in Nat /\ (j # i => due'[j] = due[j])
    BY <1>0, <1>6 DEF TypeOK
  <2>2. due'[i] = 0
    BY <1>0, <1>6 DEF TypeOK
  <2>3. SumFunctionOnSet(due, Invoices) \in Nat
    BY <2>1, AmountAssumption, SumType
  <2> HIDE DEF i
  <2>4. /\ SumFunctionOnSet(due', Invoices) = SumFunctionOnSet(due, Invoices) - due[i] + due'[i]
        /\ due[i] <= SumFunctionOnSet(due, Invoices)
    BY <1>0, <2>1, <2>2, AmountAssumption, SumChange
  <2> QED
    BY <1>0, <1>4, <2>2, <2>3, <2>4 DEF SumOf
<1>11. balance' = balance - Total[i] /\ ledger' = ledger - Total[i]
  <2>1. balance - Total[i] \in Nat /\ Clamp(balance - Total[i]) = balance - Total[i]
    BY <1>0, <1>10, ClampNat DEF MarksInv
  <2> QED
    BY <1>2, <2>1 DEF CommitPayment, LowerBalance, Journal
<1> QED
  BY <1>9, <1>10, <1>11 DEF MarksInv

LEMMA UnmarkCommit ==
  ASSUME IInv, MarksInv, OnlyMarks, NEW r \in Requests, CommitReversal(r)
  PROVE  InvoicesMarked' /\ balance' = ledger' /\ balance' = SumOf(due, Invoices)'
PROOF
<1> DEFINE v == of[r]
           i == doc[of[r]]
<1>1. TypeOK /\ PostedIsDone /\ phase[r] = "ready" /\ kind[r] = "reverse" /\ ~ Reversed(v)
  BY DEF IInv, CommitReversal, Step
<1>2. v \in posted /\ v \in Requests /\ v # r /\ kind[v] = "markPaid" /\ phase[v] = "done"
  BY <1>1 DEF IInv, TargetsPosted, OnlyMarks, MarksOrUnmarks, PostedIsDone
<1>3. i \in Invoices /\ Total[i] \in Nat
  BY <1>1, <1>2, AmountAssumption DEF TypeOK
<1>4. amount[v] = Total[i] /\ arCredit[v] = Total[i]
  BY <1>2 DEF MarksInv, MarkWhole
<1>5. v \notin reversedAt /\ Received(i)
  BY <1>1, <1>2 DEF IInv, ReversedOnce, PostedAs, Received
<1>6. paid[i] = Total[i] /\ due[i] = 0
  BY <1>3, <1>5 DEF MarksInv, InvoicesMarked
<1>7. /\ paid' = [paid EXCEPT ![i] = 0] /\ due' = [due EXCEPT ![i] = Total[i]]
      /\ reversedAt' = reversedAt \cup {v} /\ balance' = balance + Total[i]
  <2>1. Clamp(paid[i] - amount[v]) = 0 /\ Clamp(Total[i] - 0) = Total[i]
    BY <1>3, <1>4, <1>6 DEF Clamp
  <2>2. UndoPayment(v)
    BY DEF CommitReversal
  <2> QED
    BY <1>2, <1>4, <2>1, <2>2 DEF UndoPayment, SetPaid
<1>8. /\ posted' = posted \cup {r} /\ r \notin posted /\ UNCHANGED <<kind, doc>>
      /\ ledger' = ledger + Total[i]
  <2>1. /\ posted' = posted \cup {r} /\ UNCHANGED <<kind, doc>>
        /\ ledger' = ledger - (-arCredit[v])
    BY DEF CommitReversal, Journal, requestVars
  <2> QED
    BY <1>1, <1>3, <1>4, <2>1 DEF PostedIsDone, TypeOK
<1>9. \A j \in Invoices : Received(j)' <=> Received(j) /\ j # i
  <2>1. \A p \in posted : kind[p] = "markPaid" /\ doc[p] = i => p = v
    BY <1>2 DEF IInv, OneReceiptPerKey, PostedAs
  <2> QED
    BY <1>1, <1>2, <1>7, <1>8, <2>1 DEF Received, PostedAs
<1>10. InvoicesMarked'
  BY <1>1, <1>3, <1>7, <1>9 DEF InvoicesMarked, MarksInv, TypeOK
<1>11. SumOf(due, Invoices)' = SumOf(due, Invoices) + Total[i] /\ SumOf(due, Invoices) \in Nat
  <2>1. \A j \in Invoices : due[j] \in Nat /\ (j # i => due'[j] = due[j])
    BY <1>1, <1>3, <1>7 DEF TypeOK
  <2>2. due'[i] = Total[i]
    BY <1>1, <1>3, <1>7 DEF TypeOK
  <2>3. SumFunctionOnSet(due, Invoices) \in Nat
    BY <2>1, AmountAssumption, SumType
  <2> HIDE DEF i
  <2>4. SumFunctionOnSet(due', Invoices) = SumFunctionOnSet(due, Invoices) - due[i] + due'[i]
    BY <1>3, <2>1, <2>2, AmountAssumption, SumChange
  <2> QED
    BY <1>3, <1>6, <2>2, <2>3, <2>4 DEF SumOf
<1> QED
  BY <1>3, <1>7, <1>8, <1>10, <1>11 DEF MarksInv

LEMMA MarksStep == ASSUME IInv, MarksTrue, [Next]_vars PROVE MarksTrue'
PROOF
<1> SUFFICES ASSUME OnlyMarks' PROVE MarksInv'
  BY DEF MarksTrue
<1>0. TypeOK /\ PostedIsDone /\ OnlyMarks /\ MarksInv
  BY OnlyMarksBack DEF IInv, MarksTrue
<1>1. \A q \in Requests : MarkWhole(q)'
  BY <1>0, MarkWholeStep DEF MarksInv
<1>2. ASSUME UNCHANGED tables PROVE MarksInv'
  <2>1. UNCHANGED <<due, paid, balance, ledger, posted, reversedAt>>
    BY <1>2 DEF tables, invoiceVars, bookVars
  <2>2. \A i \in Invoices : Received(i)' <=> Received(i)
    BY <1>0, <2>1, PostedKept DEF Received, PostedAs
  <2> QED
    BY <1>0, <1>1, <2>1, <2>2 DEF MarksInv, InvoicesMarked, SumOf
<1>3. ASSUME NEW r \in Requests, Commit(r) PROVE MarksInv'
  <2>1. kind[r] \in {"markPaid", "reverse"}
    BY <1>0, <1>3, PostingStep DEF Posting, OnlyMarks, MarksOrUnmarks
  <2>2. CommitPayment(r) \/ CommitReversal(r)
    BY <1>3, <2>1 DEF Commit, CommitReceipt, CommitApply, CommitCreditNote
  <2> QED
    BY <1>0, <1>1, <2>2, MarkCommit, UnmarkCommit DEF MarksInv
<1>4. (\A r \in Requests : Quiet(r) => UNCHANGED tables) /\ (UNCHANGED vars => UNCHANGED tables)
  BY DEF Quiet, vars
<1> QED
  BY <1>0, <1>2, <1>3, <1>4, Shapes

LEMMA OwedIsSum == Owed = SumOf(Total, Invoices)
PROOF
  BY AmountAssumption DEF SumOf, SumFunction

(* While invoices are only marked paid and unmarked, by calls that race in *)
(* any way, an invoice is paid or open in full and the customer's balance  *)
(* is the receivable of the journals and of the invoices.                  *)
THEOREM PaidOrOutstandingAlways == Spec => []PaidOrOutstanding
PROOF
<1>1. Init => MarksTrue
  BY AmountAssumption, OwedIsSum
     DEF Init, MarksTrue, MarksInv, InvoicesMarked, MarkWhole, Received, PostedAs
<1>2. IInv /\ MarksTrue /\ [Next]_vars => MarksTrue'
  BY MarksStep
<1>3. IInv /\ MarksTrue => PaidOrOutstanding
  <2> SUFFICES ASSUME MarksInv, NEW i \in Invoices PROVE paid[i] + due[i] = Total[i]
    BY DEF MarksTrue, MarksInv, PaidOrOutstanding
  <2> QED
    BY AmountAssumption DEF MarksInv, InvoicesMarked
<1> QED
  BY Inductive, <1>1, <1>2, <1>3, PTL DEF Spec

-----------------------------------------------------------------------------
(* Calls that are made one after another, without overlap, and that only   *)
(* record receipts, apply advances and issue credit notes.                 *)

Serial == ~Overlap /\ Operations \subseteq Numbered

LEMMA OneAtATimeStep ==
  ASSUME Serial, TypeOK, OneAtATime, [Next]_vars PROVE OneAtATime'
PROOF
<1> USE DEF OneAtATime
<1>1. ASSUME NEW r \in Requests, Submit(r) PROVE OneAtATime'
  <2>1. \A q \in Requests : q # r => phase'[q] = phase[q] /\ phase[q] \notin Active
    BY <1>1, ActiveStep DEF Submit, Serial, Answered
  <2> QED
    BY <2>1
<1>2. ASSUME NEW r \in Requests, Refuse(r) \/ Read(r) \/ Commit(r) PROVE OneAtATime'
  <2>1. \A q \in Requests : q # r => phase'[q] = phase[q]
    BY <1>2, ActiveStep
  <2>2. phase[r] \in Active
    BY <1>2 DEF Refuse, Read, Commit, Step, Active, ReadOutstanding, CheckKey, CheckOutstanding,
         CheckAllocation, ReadAdvance, CheckTarget, ReadInvoice, ReadReturned, PrepareNumber, ReadVoucher,
         CommitPayment, CommitReceipt, CommitApply, CommitCreditNote, CommitReversal
  <2> QED
    BY <2>1, <2>2
<1>3. CASE UNCHANGED vars
  BY <1>3 DEF vars
<1> QED
  BY <1>1, <1>2, <1>3 DEF Next

(* A call that is not the one moving keeps what it knows: it is not under  *)
(* way, or no table changes.                                               *)
LEMMA OthersCurrent ==
  ASSUME Serial, TypeOK, OneAtATime, ReadsCurrent, NEW r \in Requests,
         Submit(r) \/ Refuse(r) \/ Read(r) \/ Commit(r)
  PROVE  \A q \in Requests : q # r => ReadCurrent(q)'
PROOF
<1> SUFFICES ASSUME NEW q \in Requests, q # r PROVE ReadCurrent(q)'
  OBVIOUS
<1>1. /\ phase'[q] = phase[q] /\ kind'[q] = kind[q] /\ doc'[q] = doc[q]
      /\ of'[q] = of[q] /\ amount'[q] = amount[q] /\ cut'[q] = cut[q]
  BY ActiveStep
<1>2. ReadCurrent(q)
  BY DEF ReadsCurrent
<1>3. phase[q] \notin Active
  BY ActiveStep DEF Submit, Serial, Answered, OneAtATime
<1> QED
  BY <1>1, <1>2, <1>3 DEF ReadCurrent, Active

LEMMA OpenAmountFact ==
  ASSUME TypeOK, due = dueMinor, NEW i \in Invoices PROVE OpenAmount(i) = dueMinor[i]
PROOF
  BY DEF OpenAmount

LEMMA ReadsStep ==
  ASSUME Serial, TypeOK, due = dueMinor, OneAtATime, ReadsCurrent, [Next]_vars
  PROVE  ReadsCurrent'
PROOF
<1> USE DEF Step
<1>0. ASSUME NEW r \in Requests, Submit(r) \/ Refuse(r) \/ Read(r) \/ Commit(r), ReadCurrent(r)'
      PROVE  ReadsCurrent'
  BY <1>0, OthersCurrent DEF ReadsCurrent
<1>1. ASSUME NEW r \in Requests, Submit(r) PROVE ReadCurrent(r)'
  <2>1. PICK k \in Operations, i \in Invoices, o \in posted \cup {None} :
          \E n \in 1 .. MaxAmount, m \in 0 .. MaxAmount : Asks(k, i, o, n, m) /\ Fill(r, k, i, o, n, m)
    BY <1>1 DEF Submit
  <2>2. PICK n \in 1 .. MaxAmount, m \in 0 .. MaxAmount : Asks(k, i, o, n, m) /\ Fill(r, k, i, o, n, m)
    BY <2>1
  <2>3. kind'[r] = k /\ amount'[r] = n /\ phase'[r] = "submitted" /\ n <= MaxAmount
    BY <1>1, <2>2, AmountAssumption DEF Fill, TypeOK, Submit
  <2> QED
    BY <2>3 DEF ReadCurrent
<1>2. ASSUME NEW r \in Requests, Refuse(r) PROVE ReadCurrent(r)'
  <2>1. ReadCurrent(r) /\ phase'[r] = "failed" /\ phase[r] # "idle" /\ UNCHANGED <<kind, amount>>
    BY <1>2 DEF Refuse, Active, TypeOK, ReadsCurrent, requestVars
  <2> QED
    BY <2>1 DEF ReadCurrent
<1>3. ASSUME NEW r \in Requests, Commit(r) PROVE ReadCurrent(r)'
  <2>1. ReadCurrent(r) /\ phase'[r] = "done" /\ phase[r] # "idle" /\ UNCHANGED <<kind, amount>>
    BY <1>3, PostingStep DEF Posting, TypeOK, ReadsCurrent, requestVars
  <2> QED
    BY <2>1 DEF ReadCurrent
<1>4. ASSUME NEW r \in Requests, Read(r) PROVE ReadCurrent(r)'
  <2>0. ReadCurrent(r) /\ doc[r] \in Invoices
    BY DEF ReadsCurrent, TypeOK
  <2>1. phase[r] # "idle" /\ kind[r] \in Numbered
    BY <1>4, <2>0 DEF Read, ReadOutstanding, CheckKey, CheckOutstanding, CheckAllocation, ReadAdvance,
         CheckTarget, ReadInvoice, ReadReturned, PrepareNumber, ReadVoucher, ReadCurrent, Serial
  <2>2. UNCHANGED <<kind, doc, of, amount, dueMinor, advance, applied>>
    BY <1>4, <2>1 DEF Read, ReadOutstanding, CheckKey, CheckOutstanding, CheckAllocation, ReadAdvance,
         CheckTarget, ReadInvoice, ReadReturned, PrepareNumber, ReadVoucher, Numbered,
         requestVars, tables, invoiceVars, advanceVars
  <2>3. CASE CheckAllocation(r)
    BY <2>0, <2>1, <2>2, <2>3, OpenAmountFact DEF CheckAllocation, ReadCurrent, draftVars, TypeOK
  <2>4. CASE ReadAdvance(r)
    BY <2>0, <2>1, <2>2, <2>4 DEF ReadAdvance, ReadCurrent, TypeOK
  <2>5. CASE CheckTarget(r)
    BY <2>0, <2>1, <2>2, <2>5, OpenAmountFact DEF CheckTarget, ReadCurrent, TypeOK
  <2>6. CASE ReadInvoice(r)
    <3>1. cut'[r] <= dueMinor[doc[r]]
      BY <2>0, <2>6, OpenAmountFact, LesserFact DEF ReadInvoice, TypeOK
    <3> QED
      BY <2>0, <2>1, <2>2, <2>6, <3>1 DEF ReadInvoice, ReadCurrent, TypeOK
  <2>7. CASE ReadReturned(r)
    BY <2>0, <2>1, <2>2, <2>7 DEF ReadReturned, ReadCurrent, draftVars, TypeOK
  <2>8. CASE PrepareNumber(r)
    BY <2>0, <2>1, <2>2, <2>8 DEF PrepareNumber, ReadCurrent, TypeOK
  <2> QED
    BY <1>4, <2>1, <2>3, <2>4, <2>5, <2>6, <2>7, <2>8
       DEF Read, ReadOutstanding, CheckKey, CheckOutstanding, ReadVoucher, Numbered
<1>5. CASE UNCHANGED vars
  BY <1>5 DEF vars, ReadsCurrent, ReadCurrent, requestVars, draftVars, tables, invoiceVars, advanceVars
<1> QED
  BY <1>0, <1>1, <1>2, <1>3, <1>4, <1>5 DEF Next

(* What the commit of a call that knows the tables does to them: an        *)
(* open amount that covers its cut, and the credit it leaves or spends.    *)
Settles(r) ==
  /\ cut[r] <= dueMinor[doc[r]]
  /\ dueMinor' = [dueMinor EXCEPT ![doc[r]] = @ - cut[r]] /\ due' = dueMinor'

Leaves(r) ==
  /\ kind[r] \in {"receipt", "creditNote"} /\ cut[r] <= amount[r]
  /\ advance' = [advance EXCEPT ![r] = amount[r] - cut[r]] /\ UNCHANGED applied

Spends(r) ==
  /\ kind[r] = "apply" /\ cut[r] <= advance[of[r]] - applied[of[r]]
  /\ applied' = [applied EXCEPT ![of[r]] = @ + cut[r]] /\ UNCHANGED advance

LEMMA SerialCommit ==
  ASSUME Serial, SerialInv, NEW r \in Requests, Commit(r)
  PROVE  Settles(r) /\ (Leaves(r) \/ Spends(r))
PROOF
<1> USE DEF SerialInv, IInv
<1>0. /\ ReadCurrent(r) /\ phase[r] = "ready" /\ kind[r] \in Numbered
      /\ doc[r] \in Invoices /\ cut[r] \in Nat /\ due[doc[r]] \in Nat /\ dueMinor[doc[r]] \in Nat
  <2>1. ReadCurrent(r) /\ phase[r] = "ready"
    BY PostingStep DEF Posting, ReadsCurrent
  <2> QED
    BY <2>1 DEF ReadCurrent, Serial, TypeOK
<1>1. cut[r] <= dueMinor[doc[r]]
  BY <1>0 DEF ReadCurrent, Numbered
<1>2. Clamp(dueMinor[doc[r]] - cut[r]) = dueMinor[doc[r]] - cut[r] /\ due = dueMinor
  BY <1>0, <1>1, ClampNat
<1>3. /\ dueMinor' = [dueMinor EXCEPT ![doc[r]] = Clamp(@ - cut[r])]
      /\ due' = [due EXCEPT ![doc[r]] = Clamp(@ - cut[r])]
  BY <1>0 DEF Commit, CommitPayment, CommitReceipt, CommitApply, CommitCreditNote, CommitReversal,
       Settle, Numbered
<1>4. Settles(r)
  BY <1>1, <1>2, <1>3 DEF Settles
<1>5. CASE CommitReceipt(r) \/ CommitCreditNote(r)
  <2>1. kind[r] \in {"receipt", "creditNote"} /\ LeaveAdvance(r, amount[r] - cut[r])
    BY <1>5 DEF CommitReceipt, CommitCreditNote
  <2>2. cut[r] <= amount[r]
    BY <2>1 DEF CutsCovered
  <2> QED
    BY <1>4, <2>1, <2>2 DEF LeaveAdvance, Leaves
<1>6. CASE CommitApply(r)
  <2>1. /\ kind[r] = "apply" /\ UNCHANGED advance
        /\ applied' = [applied EXCEPT ![of[r]] = @ + cut[r]]
    BY <1>6 DEF CommitApply
  <2>2. cut[r] <= advance[of[r]] - applied[of[r]]
    BY <1>0, <2>1 DEF ReadCurrent
  <2> QED
    BY <1>4, <2>1, <2>2 DEF Spends
<1> QED
  BY <1>0, <1>4, <1>5, <1>6 DEF Commit, CommitPayment, CommitReversal, Numbered

LEMMA CreditsStep ==
  ASSUME Serial, SerialInv, NEW r \in Requests, Commit(r)
  PROVE  CreditsInv'
PROOF
<1> USE DEF CreditsInv
<1>1. TypeOK /\ PostedIsDone /\ TargetsPosted /\ CreditsInv
  BY DEF SerialInv, IInv
<1>2. posted' = posted \cup {r} /\ phase[r] = "ready"
  BY <1>1, PostingStep DEF Posting
<1>3. r \notin posted /\ cut[r] \in Nat /\ amount[r] \in Nat
  BY <1>1, <1>2 DEF PostedIsDone, TypeOK
<1>4. CASE Leaves(r)
  BY <1>1, <1>2, <1>3, <1>4 DEF Leaves, TypeOK
<1>5. CASE Spends(r)
  <2>1. of[r] \in posted /\ of[r] \in Requests
    BY <1>1, <1>2, <1>5 DEF Spends, TargetsPosted, TypeOK
  <2>2. \A q \in Requests : advance[q] \in Nat /\ applied[q] \in Nat /\ advance'[q] = advance[q]
    BY <1>1, <1>5 DEF Spends, TypeOK
  <2>3. \A q \in Requests : applied'[q] = IF q = of[r] THEN applied[q] + cut[r] ELSE applied[q]
    BY <1>1, <1>5, <2>1 DEF Spends, TypeOK
  <2>4. cut[r] <= advance[of[r]] - applied[of[r]]
    BY <1>5 DEF Spends
  <2> QED
    BY <1>1, <1>2, <1>3, <2>1, <2>2, <2>3, <2>4
<1> QED
  BY <1>4, <1>5, SerialCommit

LEMMA SerialStep == ASSUME Serial, SerialInv, [Next]_vars PROVE SerialInv'
PROOF
<1>1. IInv'
  BY TypeStep, PostedStep, TargetsStep, CutsStep, ReversedStep, KeyStep, NumbersStep DEF IInv, SerialInv
<1>2. OneAtATime' /\ ReadsCurrent'
  BY OneAtATimeStep, ReadsStep DEF SerialInv, IInv
<1>3. (due = dueMinor)' /\ CreditsInv'
  <2>1. ASSUME NEW r \in Requests, Commit(r) PROVE (due = dueMinor)' /\ CreditsInv'
    BY <2>1, SerialCommit, CreditsStep DEF Settles
  <2>2. ASSUME UNCHANGED tables PROVE (due = dueMinor)' /\ CreditsInv'
    BY <2>2 DEF SerialInv, CreditsInv, tables, invoiceVars, bookVars, advanceVars
  <2>3. \A r \in Requests : Quiet(r) => UNCHANGED tables
    BY DEF Quiet
  <2>4. UNCHANGED vars => UNCHANGED tables
    BY DEF vars
  <2>5. TypeOK
    BY DEF SerialInv, IInv
  <2> QED
    BY <2>1, <2>2, <2>3, <2>4, <2>5, Shapes
<1> QED
  BY <1>1, <1>2, <1>3 DEF SerialInv

Credit == [r \in Requests |-> advance[r] - applied[r]]

LEMMA ItemsStep ==
  ASSUME Serial, SerialInv, [Next]_vars
  PROVE  [Items!ItemsNext]_<<dueMinor, Credit>>
PROOF
<1>0. TypeOK /\ CreditsInv /\ TargetsPosted /\ PostedIsDone
  BY DEF SerialInv, IInv
<1>1. ASSUME NEW r \in Requests, Commit(r) PROVE Items!ItemsNext
  <2>1. Settles(r) /\ (Leaves(r) \/ Spends(r))
    BY <1>1, SerialCommit
  <2>2. doc[r] \in Invoices /\ cut[r] \in 0 .. dueMinor[doc[r]]
    BY <1>0, <2>1 DEF Settles, TypeOK
  <2>3. CASE Leaves(r)
    <3>1. amount[r] - cut[r] \in 0 .. MaxAmount
      <4>1. amount[r] <= MaxAmount
        BY DEF SerialInv, ReadsCurrent, ReadCurrent
      <4> QED
        BY <1>0, <2>3, <4>1, AmountAssumption DEF Leaves, TypeOK
    <3>2. advance[r] = 0 /\ applied[r] = 0
      BY <1>0, <1>1, PostingStep DEF Posting, PostedIsDone, CreditsInv
    <3>3. Credit[r] = 0
      BY <3>2 DEF Credit
    <3>4. Credit' = [Credit EXCEPT ![r] = amount[r] - cut[r]]
      <4>1. advance' = [advance EXCEPT ![r] = amount[r] - cut[r]] /\ applied' = applied
        BY <2>3 DEF Leaves
      <4>2. advance'[r] - applied'[r] = amount[r] - cut[r]
        BY <1>0, <3>1, <3>2, <4>1 DEF TypeOK
      <4>3. \A q \in Requests : q # r => advance'[q] - applied'[q] = advance[q] - applied[q]
        BY <1>0, <4>1 DEF TypeOK
      <4> QED
        BY <4>2, <4>3 DEF Credit
    <3>5. PICK n \in 0 .. dueMinor[doc[r]], m \in 0 .. MaxAmount : n = cut[r] /\ m = amount[r] - cut[r]
      BY <2>2, <3>1
    <3>6. Items!Post(r, doc[r], n, m)
      BY <2>1, <3>3, <3>4, <3>5 DEF Items!Post, Settles, Credit
    <3> QED
      BY <2>2, <3>6 DEF Items!ItemsNext
  <2>4. CASE Spends(r)
    <3>1. of[r] \in Requests
      BY <1>0, <1>1, <2>4, PostingStep DEF Spends, TargetsPosted, TypeOK, Posting
    <3>2. cut[r] <= Credit[of[r]]
      BY <2>4, <3>1 DEF Credit, Spends
    <3>3. Credit' = [Credit EXCEPT ![of[r]] = @ - cut[r]]
      <4>1. \A q \in Requests : advance[q] \in Nat /\ applied[q] \in Nat /\ cut[r] \in Nat
        BY <1>0 DEF TypeOK
      <4>2. \A q \in Requests :
              Credit'[q] = IF q = of[r] THEN Credit[q] - cut[r] ELSE Credit[q]
        BY <1>0, <2>4, <3>1, <4>1 DEF Credit, Spends, TypeOK
      <4> QED
        BY <3>1, <4>2 DEF Credit
    <3>4. PICK n \in 0 .. dueMinor[doc[r]] : n = cut[r]
      BY <2>2
    <3>5. Items!Spend(of[r], doc[r], n)
      BY <2>1, <3>2, <3>3, <3>4 DEF Items!Spend, Settles, Credit
    <3> QED
      BY <2>2, <3>1, <3>5 DEF Items!ItemsNext
  <2> QED
    BY <2>1, <2>3, <2>4
<1>2. UNCHANGED tables => UNCHANGED <<dueMinor, Credit>>
  BY DEF tables, invoiceVars, advanceVars, Credit
<1>3. \A r \in Requests : Quiet(r) => UNCHANGED tables
  BY DEF Quiet
<1>4. UNCHANGED vars => UNCHANGED tables
  BY DEF vars
<1> QED
  BY <1>0, <1>1, <1>2, <1>3, <1>4, Shapes

LEMMA SerialInit == ASSUME Init PROVE SerialInv /\ Items!ItemsInit
PROOF
<1>1. SerialInv
  BY InitInv, AmountAssumption
     DEF Init, SerialInv, OneAtATime, Active, ReadsCurrent, ReadCurrent, CreditsInv
<1>2. dueMinor = [i \in Invoices |-> Total[i]] /\ Credit = [r \in Requests |-> 0]
  BY AmountAssumption DEF Init, Credit
<1> QED
  BY <1>1, <1>2 DEF Items!ItemsInit, Credit

(* Receipts, advances and credit notes that are made one after another     *)
(* settle the invoices as OpenItems promises: no allocation is clamped and *)
(* no credit is spent twice (createPartyPayment, applyPartyAdvance,        *)
(* createSalesCreditNote).                                                 *)
THEOREM SerialCallsSettleOpenItems == ASSUME Serial PROVE Spec => ItemsSpec
PROOF
<1>1. Init => SerialInv /\ Items!ItemsInit
  BY SerialInit
<1>2. SerialInv /\ [Next]_vars => SerialInv'
  BY SerialStep
<1>3. SerialInv /\ [Next]_vars => [Items!ItemsNext]_<<dueMinor, Credit>>
  BY ItemsStep
<1> QED
  BY <1>1, <1>2, <1>3, PTL DEF Spec, ItemsSpec, Items!ItemsSpec, Credit

-----------------------------------------------------------------------------
(* The books of calls made one after another.                              *)

LEMMA BooksStep == ASSUME Serial, SerialInv, BooksInv, [Next]_vars PROVE BooksInv'
PROOF
<1>0. TypeOK
  BY DEF SerialInv, IInv
<1>1. ASSUME UNCHANGED tables PROVE BooksInv'
  BY <1>1 DEF BooksInv, SumOf, tables, invoiceVars, bookVars
<1>2. ASSUME NEW r \in Requests, Commit(r) PROVE BooksInv'
  <2> DEFINE i == doc[r]
  <2>1. Settles(r) /\ i \in Invoices /\ cut[r] \in Nat
    BY <1>0, <1>2, SerialCommit DEF TypeOK
  <2>2. LowerBalance(cut[r]) /\ ledger' = ledger - cut[r]
    <3>1. kind[r] \in Numbered
      BY <1>2, PostingStep, <1>0 DEF Posting, SerialInv, ReadsCurrent, ReadCurrent, Serial
    <3> QED
      BY <1>2, <3>1 DEF Commit, CommitPayment, CommitReceipt, CommitApply, CommitCreditNote,
         CommitReversal, Journal, Numbered
  <2>3. /\ \A j \in Invoices : dueMinor[j] \in Nat /\ (j # i => dueMinor'[j] = dueMinor[j])
        /\ dueMinor'[i] = dueMinor[i] - cut[r] /\ dueMinor'[i] \in Nat
    BY <1>0, <2>1 DEF Settles, TypeOK
  <2>4. SumFunctionOnSet(dueMinor, Invoices) \in Nat
    BY <2>3, AmountAssumption, SumType
  <2>5. /\ SumFunctionOnSet(dueMinor', Invoices) =
             SumFunctionOnSet(dueMinor, Invoices) - dueMinor[i] + dueMinor'[i]
        /\ dueMinor[i] <= SumFunctionOnSet(dueMinor, Invoices)
    <3> HIDE DEF i
    <3> QED
      BY <2>1, <2>3, AmountAssumption, SumChange
  <2>6. cut[r] <= balance /\ SumOf(dueMinor, Invoices)' = balance - cut[r] /\ balance \in Nat
    BY <2>1, <2>3, <2>4, <2>5 DEF BooksInv, SumOf, Settles
  <2>7. balance' = balance - cut[r]
    BY <2>1, <2>2, <2>6, ClampNat DEF LowerBalance
  <2> QED
    BY <2>2, <2>6, <2>7 DEF BooksInv
<1>3. (\A r \in Requests : Quiet(r) => UNCHANGED tables) /\ (UNCHANGED vars => UNCHANGED tables)
  BY DEF Quiet, vars
<1> QED
  BY <1>0, <1>1, <1>2, <1>3, Shapes

(* The health report of the accounting views finds nothing to complain     *)
(* about in a customer whose receipts, advances and credit notes were      *)
(* entered one after another.                                              *)
THEOREM BooksMatchSerially == ASSUME Serial PROVE Spec => []BooksMatch
PROOF
<1>1. Init => SerialInv /\ BooksInv
  BY SerialInit, OwedIsSum DEF BooksInv, Init
<1>2. SerialInv /\ BooksInv /\ [Next]_vars => SerialInv' /\ BooksInv'
  BY SerialStep, BooksStep
<1>3. BooksInv => BooksMatch
  BY DEF BooksInv, BooksMatch
<1> QED
  BY <1>1, <1>2, <1>3, PTL DEF Spec
=============================================================================
