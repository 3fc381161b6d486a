---------------------------- MODULE WalletProofs ----------------------------
(* Theorems about Wallet for any masters, orders, requests and operators.  *)
EXTENDS Wallet, FiniteSetTheorems, TLAPS

-----------------------------------------------------------------------------
(* Type correctness *)

(* Crediting an order keeps the ledger well formed.                        *)
LEMMA AccrueType ==
    ASSUME TypeOK, NEW o \in Orders, Accrue(o)
    PROVE  accrued' \subseteq Orders /\ balance' \in [Masters -> Nat]
<1>1. MasterOf[o] \in Masters /\ CalloutOf[o] \in Nat
  BY DataAssumption
<1> QED
  BY <1>1 DEF Accrue, TypeOK

(* So does giving the amount of a withdrawal back.                         *)
LEMMA RefundType ==
    ASSUME TypeOK, NEW w \in Withdrawals
    PROVE  Refunded(w) \in [Masters -> Nat]
<1>1. RequesterOf[w] \in Masters /\ AmountOf[w] \in Nat
  BY DataAssumption
<1> QED
  BY <1>1 DEF Refunded, TypeOK

LEMMA TypeStep == TypeOK /\ [Next]_vars => TypeOK'
<1> SUFFICES ASSUME TypeOK, [Next]_vars PROVE TypeOK'
  OBVIOUS
<1>1. CASE UNCHANGED vars
  BY <1>1 DEF vars, TypeOK
<1>2. ASSUME NEW o \in Orders, OrderStep(o) PROVE TypeOK'
  <2>1. CASE CloseOrder(o)
    BY <2>1, AccrueType DEF CloseOrder, requestVars, operatorVars, TypeOK
  <2>2. CASE DisputeReads(o)
    BY <2>2 DEF DisputeReads, requestVars, operatorVars, TypeOK
  <2>3. CASE DisputeResolves(o)
    BY <2>3, AccrueType DEF DisputeResolves, requestVars, operatorVars, TypeOK
  <2> QED  BY <1>2, <2>1, <2>2, <2>3 DEF OrderStep
<1>3. ASSUME NEW m \in Masters, SetPayoutAccount(m) PROVE TypeOK'
  BY <1>3 DEF SetPayoutAccount, orderVars, operatorVars, TypeOK
<1>4. ASSUME NEW w \in Withdrawals, Request(w) PROVE TypeOK'
  <2>1. RequesterOf[w] \in Masters /\ AmountOf[w] \in Nat
    BY DataAssumption
  <2>2. balance' \in [Masters -> Nat]
    BY <1>4, <2>1 DEF Request, CanSpend, TypeOK
  <2> QED
    BY <1>4, <2>2 DEF Request, orderVars, operatorVars, TypeOK, Status
<1>5. ASSUME NEW w \in Withdrawals, Handler(w) PROVE TypeOK'
  <2>1. ASSUME NEW r \in Results, Payout(w, r) PROVE TypeOK'
    BY <2>1 DEF Payout, orderVars, operatorVars, TypeOK
  <2>2. CASE WriteAnswer(w)
    <3>1. status' \in [Withdrawals -> Status] /\ balance' \in [Masters -> Nat]
      BY <2>2, RefundType DEF WriteAnswer, TypeOK, Status
    <3> QED  BY <2>2, <3>1 DEF WriteAnswer, orderVars, operatorVars, TypeOK
  <2>3. CASE WriteError(w)
    BY <2>3 DEF WriteError, Suspend, orderVars, operatorVars, TypeOK, Status
  <2> QED  BY <1>5, <2>1, <2>2, <2>3 DEF Handler
<1>6. ASSUME NEW w \in Withdrawals, Die(w) PROVE TypeOK'
  BY <1>6 DEF Die, orderVars, operatorVars, TypeOK
<1>7. ASSUME NEW p \in Operators, NEW w \in Withdrawals, OpenError(p, w) PROVE TypeOK'
  BY <1>7 DEF OpenError, orderVars, requestVars, TypeOK
<1>8. ASSUME NEW p \in Operators, NEW outcome \in Resolution, Resolve(p, outcome) PROVE TypeOK'
  <2> DEFINE w == desk[p]
  <2>1. w \in Withdrawals
    BY <1>8 DEF Resolve, TypeOK
  <2>2. desk' \in [Operators -> Withdrawals \cup {NoWithdrawal}]
    BY <1>8 DEF Resolve, TypeOK
  <2>3. CASE StillError(w)
    <3>1. status' \in [Withdrawals -> Status] /\ balance' \in [Masters -> Nat]
      BY <1>8, <2>1, <2>3, RefundType DEF Resolve, TypeOK, Status, Resolution
    <3>2. audit' \subseteq Entry
      BY <1>8, <2>1, <2>3 DEF Resolve, TypeOK, Entry
    <3> QED  BY <1>8, <2>2, <3>1, <3>2 DEF Resolve, orderVars, TypeOK
  <2>4. CASE ~StillError(w)
    BY <1>8, <2>2, <2>4 DEF Resolve, orderVars, TypeOK
  <2> QED  BY <2>3, <2>4
<1> QED
  BY <1>1, <1>2, <1>3, <1>4, <1>5, <1>6, <1>7, <1>8 DEF Next

LEMMA TypeInit == Init => TypeOK
BY DEF Init, TypeOK, Status, Entry

(* Balances are never negative and every table is well formed, however many *)
(* requests race for the same balance.                                     *)
THEOREM WalletTypeCorrect == Spec => []TypeOK
BY TypeInit, TypeStep, PTL DEF Spec

-----------------------------------------------------------------------------
(* Answers *)

(* Steps that leave requests and reconciliations alone.                    *)
LEMMA OthersKeep ==
    ASSUME UNCHANGED <<status, call, left, audit>>,
           HandlersSound, ResolvedOnce, UnreviewedAnswersAreTrue
    PROVE  HandlersSound' /\ ResolvedOnce' /\ UnreviewedAnswersAreTrue'
BY DEF HandlersSound, ResolvedOnce, UnreviewedAnswersAreTrue

(* A step about one withdrawal w: what is to be shown is what holds of w.  *)
LEMMA OneRequest ==
    ASSUME TypeOK, HandlersSound, ResolvedOnce, UnreviewedAnswersAreTrue,
           NEW w \in Withdrawals, audit' = audit,
           \A v \in Withdrawals \ {w} :
               status'[v] = status[v] /\ call'[v] = call[v] /\ left'[v] = left[v],
           call'[w] # "none" => status'[w] = "PENDING",
           call'[w] = "SUCCEEDED" => left'[w],
           call'[w] = "FAILED" => ~left'[w],
           status[w] \notin Resolution,
           status'[w] \in Resolution => (status'[w] = "PAID" <=> left'[w])
    PROVE  HandlersSound' /\ ResolvedOnce' /\ UnreviewedAnswersAreTrue'
<1>1. HandlersSound'
  BY DEF HandlersSound
<1>2. \A e \in audit : e.target \in Withdrawals /\ e.outcome \in Resolution
  BY DEF TypeOK, Entry
<1>3. \A e \in audit : e.target # w
  BY <1>2 DEF ResolvedOnce
<1>4. ResolvedOnce'
  BY <1>2, <1>3 DEF ResolvedOnce
<1>5. UnreviewedAnswersAreTrue'
  BY DEF UnreviewedAnswersAreTrue
<1> QED
  BY <1>1, <1>4, <1>5

LEMMA AnswersStep ==
    TypeOK /\ HandlersSound /\ ResolvedOnce /\ UnreviewedAnswersAreTrue /\ [Next]_vars
        => HandlersSound' /\ ResolvedOnce' /\ UnreviewedAnswersAreTrue'
<1> SUFFICES ASSUME TypeOK, HandlersSound, ResolvedOnce, UnreviewedAnswersAreTrue, [Next]_vars
             PROVE  HandlersSound' /\ ResolvedOnce' /\ UnreviewedAnswersAreTrue'
  OBVIOUS
<1> DEFINE Goal == HandlersSound' /\ ResolvedOnce' /\ UnreviewedAnswersAreTrue'
<1>1. CASE UNCHANGED vars
  BY <1>1, OthersKeep DEF vars
<1>2. ASSUME NEW o \in Orders, OrderStep(o) PROVE Goal
  BY <1>2, OthersKeep
     DEF OrderStep, CloseOrder, DisputeReads, DisputeResolves, requestVars, operatorVars
<1>3. ASSUME NEW m \in Masters, SetPayoutAccount(m) PROVE Goal
  BY <1>3, OthersKeep DEF SetPayoutAccount, operatorVars
<1>4. ASSUME NEW w \in Withdrawals, Request(w) PROVE Goal
  <2>1. status'[w] = "PENDING" /\ call'[w] = "paying" /\ left' = left /\ audit' = audit
    BY <1>4 DEF Request, operatorVars, TypeOK
  <2>2. \A v \in Withdrawals \ {w} : status'[v] = status[v] /\ call'[v] = call[v]
    BY <1>4 DEF Request, TypeOK
  <2>3. status[w] = "NONE"
    BY <1>4 DEF Request
  <2> QED  BY <2>1, <2>2, <2>3, OneRequest DEF Resolution
<1>5. ASSUME NEW w \in Withdrawals, Handler(w) PROVE Goal
  <2>1. call[w] # "none" => status[w] = "PENDING"
    BY DEF HandlersSound
  <2>2. ASSUME NEW r \in Results, Payout(w, r) PROVE Goal
    <3>1. PICK gone \in BOOLEAN : /\ r = "SUCCEEDED" => gone
                                  /\ r = "FAILED" => ~gone
                                  /\ left' = [left EXCEPT ![w] = gone]
      BY <2>2 DEF Payout
    <3>2. /\ call'[w] = r /\ left'[w] = gone /\ status' = status /\ audit' = audit
          /\ \A v \in Withdrawals \ {w} : call'[v] = call[v] /\ left'[v] = left[v]
      BY <2>2, <3>1 DEF Payout, operatorVars, TypeOK
    <3>3. status[w] = "PENDING"
      BY <2>1, <2>2 DEF Payout
    <3> QED  BY <3>1, <3>2, <3>3, OneRequest DEF Resolution
  <2>3. CASE WriteAnswer(w)
    <3>1. /\ status'[w] = (IF call[w] = "SUCCEEDED" THEN "PAID" ELSE "FAILED")
          /\ call'[w] = "none" /\ left' = left /\ audit' = audit
          /\ \A v \in Withdrawals \ {w} : status'[v] = status[v] /\ call'[v] = call[v]
      BY <2>3 DEF WriteAnswer, operatorVars, TypeOK
    <3>2. call[w] \in {"SUCCEEDED", "FAILED"} /\ (call[w] = "SUCCEEDED" <=> left[w])
      BY <2>3 DEF WriteAnswer, HandlersSound
    <3> QED  BY <2>1, <3>1, <3>2, OneRequest DEF Resolution
  <2>4. CASE WriteError(w)
    <3>1. /\ status'[w] = "ERROR" /\ call'[w] = "none" /\ left' = left /\ audit' = audit
          /\ \A v \in Withdrawals \ {w} : status'[v] = status[v] /\ call'[v] = call[v]
      BY <2>4 DEF WriteError, Suspend, operatorVars, TypeOK
    <3>2. status[w] = "PENDING"
      BY <2>1, <2>4 DEF WriteError
    <3> QED  BY <3>1, <3>2, OneRequest DEF Resolution
  <2> QED  BY <1>5, <2>2, <2>3, <2>4 DEF Handler
<1>6. ASSUME NEW w \in Withdrawals, Die(w) PROVE Goal
  <2>1. /\ call'[w] = "none" /\ status' = status /\ audit' = audit
        /\ \A v \in Withdrawals \ {w} : call'[v] = call[v] /\ left'[v] = left[v]
    BY <1>6 DEF Die, operatorVars, TypeOK
  <2>2. status[w] = "PENDING"
    BY <1>6 DEF Die, HandlersSound
  <2> QED  BY <2>1, <2>2, OneRequest DEF Resolution
<1>7. ASSUME NEW p \in Operators, NEW w \in Withdrawals, OpenError(p, w) PROVE Goal
  BY <1>7, OthersKeep DEF OpenError, requestVars
<1>8. ASSUME NEW p \in Operators, NEW outcome \in Resolution, Resolve(p, outcome) PROVE Goal
  <2> DEFINE w == desk[p]
             entry == [actor |-> p, target |-> w, outcome |-> outcome]
  <2>1. w \in Withdrawals /\ call' = call /\ left' = left
    BY <1>8 DEF Resolve, TypeOK
  <2>2. CASE ~StillError(w)
    BY <1>8, <2>2, OthersKeep DEF Resolve
  <2>3. CASE StillError(w)
    <3>1. /\ status'[w] = outcome /\ audit' = audit \cup {entry}
          /\ \A v \in Withdrawals \ {w} : status'[v] = status[v]
      BY <1>8, <2>1, <2>3 DEF Resolve, TypeOK
    <3>2. call[w] = "none"
      BY <2>1, <2>3 DEF StillError, HandlersSound
    <3>3. \A e \in audit : e.target \in Withdrawals \ {w}
      <4>1. \A e \in audit : e.target \in Withdrawals /\ e.outcome \in Resolution
        BY DEF TypeOK, Entry
      <4> QED  BY <2>3, <4>1 DEF ResolvedOnce, StillError, Resolution
    <3>4. entry.target = w /\ entry.outcome = outcome
      OBVIOUS
    <3>5. HandlersSound'
      BY <2>1, <3>1, <3>2 DEF HandlersSound
    <3> HIDE DEF entry
    <3>6. ResolvedOnce'
      BY <3>1, <3>3, <3>4 DEF ResolvedOnce
    <3>7. UnreviewedAnswersAreTrue'
      BY <2>1, <3>1, <3>4 DEF UnreviewedAnswersAreTrue
    <3> QED  BY <3>5, <3>6, <3>7
  <2> QED  BY <2>2, <2>3
<1> QED
  BY <1>1, <1>2, <1>3, <1>4, <1>5, <1>6, <1>7, <1>8 DEF Next

LEMMA AnswersInit == Init => HandlersSound /\ ResolvedOnce /\ UnreviewedAnswersAreTrue
BY DEF Init, HandlersSound, ResolvedOnce, UnreviewedAnswersAreTrue, Resolution

(* A withdrawal is reconciled at most once, and its status stays what the  *)
(* audit entry says, for any number of operators on the same request.      *)
THEOREM ReconciledOnce == Spec => []ResolvedOnce
BY TypeInit, TypeStep, AnswersInit, AnswersStep, PTL DEF Spec

(* Without an operator's decision PAID and FAILED agree with the bank: no  *)
(* money is paid out and given back as well.                               *)
THEOREM AnswersTrue == Spec => []UnreviewedAnswersAreTrue
BY TypeInit, TypeStep, AnswersInit, AnswersStep, PTL DEF Spec

-----------------------------------------------------------------------------
(* Sums over finite sets *)

(* MapThenSumSet takes the elements of a set in the order of CHOOSE, by a  *)
(* function defined on all subsets.                                        *)
Pick(s) == CHOOSE x \in s : TRUE
IsSum(g, Q, A) ==
    g = [s \in SUBSET Q |-> IF s = {} THEN 0 ELSE A[Pick(s)] + g[s \ {Pick(s)}]]
SumFcn(Q, A) == CHOOSE g : IsSum(g, Q, A)
Sum(Q, A) == SumFcn(Q, A)[Q]

LEMMA SumIsMapThenSumSet ==
    ASSUME NEW Q, NEW A
    PROVE  MapThenSumSet(LAMBDA x : A[x], Q) = Sum(Q, A)
  BY DEF MapThenSumSet, MapThenFoldSet, Sum, SumFcn, IsSum, Pick

(* Induction over a finite set: of some of its subsets one is smallest.    *)
LEMMA Smallest ==
    ASSUME NEW S, IsFiniteSet(S), NEW F \in SUBSET SUBSET S, F # {}
    PROVE  \E T \in F : \A U \in F : U \subseteq T => U = T
<1>1. F \subseteq FiniteSubsetsOf(S)
  BY FS_FiniteSubsetsOfFinite
<1>2. PICK T \in F : \A U \in F : <<U, T>> \notin StrictSubsetOrdering(S)
  BY <1>1, FS_StrictSubsetOrderingWellFounded, WFMin
<1> QED
  BY <1>2 DEF StrictSubsetOrdering

LEMMA Picked == ASSUME NEW s, s # {} PROVE Pick(s) \in s
  BY DEF Pick

(* Functions for two sets agree on what is a part of both.                 *)
LEMMA SumUnique ==
    ASSUME NEW Q, NEW R, NEW A, NEW g, NEW h, IsSum(g, Q, A), IsSum(h, R, A),
           NEW S, IsFiniteSet(S), S \subseteq Q, S \subseteq R
    PROVE  g[S] = h[S]
<1> SUFFICES ASSUME g[S] # h[S] PROVE FALSE
  OBVIOUS
<1> DEFINE F == {T \in SUBSET S : g[T] # h[T]}
<1>1. PICK T \in F : \A U \in F : U \subseteq T => U = T
  <2>1. F \in SUBSET SUBSET S /\ F # {}
    OBVIOUS
  <2> HIDE DEF F
  <2> QED  BY <2>1, Smallest
<1>2. T \in SUBSET Q /\ T \in SUBSET R
  OBVIOUS
<1>3. /\ g[T] = IF T = {} THEN 0 ELSE A[Pick(T)] + g[T \ {Pick(T)}]
      /\ h[T] = IF T = {} THEN 0 ELSE A[Pick(T)] + h[T \ {Pick(T)}]
  BY <1>2 DEF IsSum
<1>4. T # {}
  BY <1>3
<1>5. T \ {Pick(T)} \notin F
  BY <1>1, <1>4, Picked
<1> QED
  BY <1>3, <1>4, <1>5

(* There is such a function for every finite set.                          *)
LEMMA SumExists ==
    ASSUME NEW Q, IsFiniteSet(Q), NEW A
    PROVE  IsSum(SumFcn(Q, A), Q, A)
<1> SUFFICES \E g : IsSum(g, Q, A)
  BY DEF SumFcn
<1> SUFFICES ASSUME ~\E g : IsSum(g, Q, A) PROVE FALSE
  OBVIOUS
<1> DEFINE F == {T \in SUBSET Q : ~\E g : IsSum(g, T, A)}
<1>1. PICK T \in F : \A U \in F : U \subseteq T => U = T
  <2>1. F \in SUBSET SUBSET Q /\ F # {}
    OBVIOUS
  <2> HIDE DEF F
  <2> QED  BY <2>1, Smallest
<1>2. \A U \in SUBSET T : U # T => IsSum(SumFcn(U, A), U, A)
  <2>1. \A U \in SUBSET T : U # T => \E g : IsSum(g, U, A)
    BY <1>1
  <2> QED  BY <2>1 DEF SumFcn
<1> DEFINE v(s) == IF s = T THEN A[Pick(T)] + Sum(T \ {Pick(T)}, A) ELSE Sum(s, A)
           g == [s \in SUBSET T |-> IF s = {} THEN 0 ELSE v(s)]
<1>3. ASSUME NEW s \in SUBSET T, s # {}
      PROVE  g[s] = A[Pick(s)] + g[s \ {Pick(s)}]
  <2> DEFINE p == Pick(s)
             r == s \ {Pick(s)}
  <2>1. p \in s /\ r \in SUBSET T /\ r # T /\ r # s
    BY <1>3, Picked
  <2>2. IsSum(SumFcn(r, A), r, A)
    BY <1>2, <2>1
  <2>3. Sum(r, A) = IF r = {} THEN 0 ELSE g[r]
    <3>1. CASE r = {}
      BY <2>2, <3>1 DEF Sum, IsSum
    <3>2. CASE r # {}
      BY <2>1, <3>2
    <3> QED  BY <3>1, <3>2
  <2>4. g[r] = Sum(r, A)
    BY <2>1, <2>3
  <2>5. CASE s = T
    BY <1>3, <2>4, <2>5
  <2>6. CASE s # T
    <3>1. IsSum(SumFcn(s, A), s, A)
      BY <1>2, <2>6
    <3>2. Sum(s, A) = A[p] + SumFcn(s, A)[r]
      BY <1>3, <3>1 DEF Sum, IsSum
    <3>3. SumFcn(s, A)[r] = Sum(r, A)
      <4>1. IsFiniteSet(r)
        BY FS_Subset, <2>1
      <4> QED  BY <2>2, <3>1, <4>1, SumUnique DEF Sum
    <3> QED  BY <1>3, <2>4, <2>6, <3>2, <3>3
  <2> QED  BY <2>5, <2>6
<1>4. g[{}] = 0
  OBVIOUS
<1>5. IsSum(g, T, A)
  <2> HIDE DEF v
  <2>1. g = [s \in SUBSET T |-> IF s = {} THEN 0 ELSE A[Pick(s)] + g[s \ {Pick(s)}]]
    BY <1>3
  <2> QED  BY <2>1 DEF IsSum
<1> QED
  BY <1>1, <1>5

LEMMA SumEmpty == ASSUME NEW A PROVE Sum({}, A) = 0
<1>1. IsSum(SumFcn({}, A), {}, A)
  BY SumExists, FS_EmptySet
<1> QED
  BY <1>1 DEF IsSum, Sum

LEMMA SumPicked ==
    ASSUME NEW Q, IsFiniteSet(Q), NEW A, Q # {}
    PROVE  Sum(Q, A) = A[Pick(Q)] + Sum(Q \ {Pick(Q)}, A)
<1> DEFINE R == Q \ {Pick(Q)}
<1>1. IsFiniteSet(R) /\ R \subseteq Q
  BY FS_RemoveElement
<1>2. IsSum(SumFcn(Q, A), Q, A) /\ IsSum(SumFcn(R, A), R, A)
  BY <1>1, SumExists
<1>3. SumFcn(Q, A)[R] = SumFcn(R, A)[R]
  BY <1>1, <1>2, SumUnique
<1>4. SumFcn(Q, A)[Q] = A[Pick(Q)] + SumFcn(Q, A)[R]
  BY <1>2 DEF IsSum
<1> QED
  BY <1>3, <1>4 DEF Sum

(* A sum of naturals is one.                                               *)
LEMMA SumType ==
    ASSUME NEW D, NEW A \in [D -> Nat], NEW Q \in SUBSET D, IsFiniteSet(Q)
    PROVE  Sum(Q, A) \in Nat
<1> SUFFICES ASSUME Sum(Q, A) \notin Nat PROVE FALSE
  OBVIOUS
<1> DEFINE F == {T \in SUBSET Q : Sum(T, A) \notin Nat}
<1>1. PICK T \in F : \A U \in F : U \subseteq T => U = T
  <2>1. F \in SUBSET SUBSET Q /\ F # {}
    OBVIOUS
  <2> HIDE DEF F
  <2> QED  BY <2>1, Smallest
<1>2. T # {} /\ IsFiniteSet(T)
  <2>1. Sum({}, A) \in Nat
    BY SumEmpty
  <2>2. IsFiniteSet(T)
    BY FS_Subset
  <2> QED  BY <2>1, <2>2
<1>3. Pick(T) \in T /\ Sum(T, A) = A[Pick(T)] + Sum(T \ {Pick(T)}, A)
  BY <1>2, Picked, SumPicked
<1>4. A[Pick(T)] \in Nat
  BY <1>3
<1>5. Sum(T \ {Pick(T)}, A) \in Nat
  BY <1>1, <1>3
<1> QED
  BY <1>3, <1>4, <1>5

(* Any element may be taken out first.                                     *)
LEMMA SumElement ==
    ASSUME NEW D, NEW A \in [D -> Nat], NEW Q \in SUBSET D, IsFiniteSet(Q), NEW x \in Q
    PROVE  Sum(Q, A) = A[x] + Sum(Q \ {x}, A)
<1> SUFFICES ASSUME Sum(Q, A) # A[x] + Sum(Q \ {x}, A) PROVE FALSE
  OBVIOUS
<1> DEFINE F == {T \in SUBSET Q : \E y \in T : Sum(T, A) # A[y] + Sum(T \ {y}, A)}
<1>1. PICK T \in F : \A U \in F : U \subseteq T => U = T
  <2>1. F \in SUBSET SUBSET Q /\ F # {}
    OBVIOUS
  <2> HIDE DEF F
  <2> QED  BY <2>1, Smallest
<1>2. PICK y \in T : Sum(T, A) # A[y] + Sum(T \ {y}, A)
  OBVIOUS
<1> DEFINE p == Pick(T)
<1>3. T # {} /\ IsFiniteSet(T)
  BY FS_Subset
<1>4. p \in T /\ Sum(T, A) = A[p] + Sum(T \ {p}, A)
  BY <1>3, Picked, SumPicked
<1>5. p # y
  BY <1>2, <1>4
<1>6. T \ {p} \notin F /\ T \ {y} \notin F
  BY <1>1, <1>2, <1>4
<1>7. Sum(T \ {p}, A) = A[y] + Sum((T \ {p}) \ {y}, A)
  BY <1>2, <1>5, <1>6
<1>8. Sum(T \ {y}, A) = A[p] + Sum((T \ {y}) \ {p}, A)
  BY <1>4, <1>5, <1>6
<1>9. (T \ {p}) \ {y} = (T \ {y}) \ {p}
  OBVIOUS
<1>10. A[p] \in Nat /\ A[y] \in Nat /\ Sum((T \ {p}) \ {y}, A) \in Nat
  <2>1. (T \ {p}) \ {y} \in SUBSET D /\ IsFiniteSet((T \ {p}) \ {y})
    BY <1>3, FS_Subset
  <2> QED  BY <1>2, <1>4, <2>1, SumType
<1> HIDE DEF p
<1> QED
  BY <1>2, <1>4, <1>7, <1>8, <1>9, <1>10

(* A part has no larger sum than the whole.                                *)
LEMMA SumMonotone ==
    ASSUME NEW D, NEW A \in [D -> Nat], NEW Q \in SUBSET D, IsFiniteSet(Q), NEW P \in SUBSET Q
    PROVE  Sum(P, A) <= Sum(Q, A)
<1> SUFFICES ASSUME ~(Sum(P, A) <= Sum(Q, A)) PROVE FALSE
  OBVIOUS
<1> DEFINE F == {T \in SUBSET Q : \E U \in SUBSET T : ~(Sum(U, A) <= Sum(T, A))}
<1>1. PICK T \in F : \A U \in F : U \subseteq T => U = T
  <2>1. F \in SUBSET SUBSET Q /\ F # {}
    OBVIOUS
  <2> HIDE DEF F
  <2> QED  BY <2>1, Smallest
<1>2. PICK U \in SUBSET T : ~(Sum(U, A) <= Sum(T, A))
  OBVIOUS
<1>3. \A V \in SUBSET T : V \in SUBSET D /\ IsFiniteSet(V) /\ Sum(V, A) \in Nat
  <2>1. \A V \in SUBSET T : V \in SUBSET D /\ IsFiniteSet(V)
    BY FS_Subset
  <2> QED  BY <2>1, SumType
<1>4. PICK x \in T : x \notin U
  <2>1. Sum(U, A) \in Nat /\ U # T
    BY <1>2, <1>3
  <2> QED  BY <2>1
<1>5. Sum(T, A) = A[x] + Sum(T \ {x}, A) /\ A[x] \in Nat
  BY <1>3, SumElement
<1>6. Sum(U, A) <= Sum(T \ {x}, A)
  <2>1. T \ {x} \notin F /\ T \ {x} \in SUBSET Q /\ U \in SUBSET (T \ {x})
    BY <1>1, <1>4
  <2> QED  BY <2>1
<1>7. Sum(U, A) \in Nat /\ Sum(T \ {x}, A) \in Nat /\ Sum(T, A) \in Nat
  BY <1>3
<1> HIDE DEF F
<1> QED
  BY <1>2, <1>5, <1>6, <1>7

-----------------------------------------------------------------------------
(* Conservation *)

HeldStatus == {"PENDING", "ERROR", "PAID"}
Credits(m) == {o \in accrued : MasterOf[o] = m}
Held(m) == {w \in Withdrawals : RequesterOf[w] = m /\ status[w] \in HeldStatus}
AskedFor == {w \in Withdrawals : status[w] # "NONE"}

(* Only so many orders have been credited and withdrawals asked for, so    *)
(* that the sums are sums, whatever sets Orders and Withdrawals are.       *)
LedgerFinite == IsFiniteSet(accrued) /\ IsFiniteSet(AskedFor)

LedgerInv == TypeOK /\ HandlersSound /\ LedgerFinite /\ BooksBalance

LEMMA LedgerSums ==
    ASSUME NEW m \in Masters
    PROVE  /\ Earned(m) = Sum(Credits(m), CalloutOf)
           /\ Reserved(m) = Sum(Held(m), AmountOf)
  BY DEF Earned, Reserved, Credits, Held, HeldStatus,
         MapThenSumSet, MapThenFoldSet, Sum, SumFcn, IsSum, Pick

LEMMA LedgerSumsNext ==
    ASSUME NEW m \in Masters
    PROVE  /\ Earned(m)' = Sum(Credits(m)', CalloutOf)
           /\ Reserved(m)' = Sum(Held(m)', AmountOf)
  BY DEF Earned, Reserved, Credits, Held, HeldStatus,
         MapThenSumSet, MapThenFoldSet, Sum, SumFcn, IsSum, Pick

LEMMA LedgerTypes ==
    ASSUME TypeOK, LedgerFinite, NEW m \in Masters
    PROVE  /\ IsFiniteSet(Credits(m)) /\ Credits(m) \in SUBSET Orders
           /\ IsFiniteSet(Held(m)) /\ Held(m) \in SUBSET Withdrawals
           /\ Sum(Credits(m), CalloutOf) \in Nat /\ Sum(Held(m), AmountOf) \in Nat
           /\ balance[m] \in Nat
<1>1. Credits(m) \in SUBSET accrued /\ Credits(m) \in SUBSET Orders
  BY DEF Credits, TypeOK
<1>2. Held(m) \in SUBSET AskedFor /\ Held(m) \in SUBSET Withdrawals
  BY DEF Held, HeldStatus, AskedFor
<1>3. IsFiniteSet(Credits(m)) /\ IsFiniteSet(Held(m))
  BY <1>1, <1>2, FS_Subset DEF LedgerFinite
<1>4. CalloutOf \in [Orders -> Nat] /\ AmountOf \in [Withdrawals -> Nat]
  BY DataAssumption
<1> QED
  BY <1>1, <1>2, <1>3, <1>4, SumType DEF TypeOK

(* No order is credited, no amount is held or released.                    *)
LEMMA LedgerUntouched ==
    ASSUME LedgerInv, balance' = balance, accrued' = accrued,
           \A w \in Withdrawals : /\ status'[w] \in HeldStatus <=> status[w] \in HeldStatus
                                  /\ status'[w] # "NONE" => status[w] # "NONE"
    PROVE  LedgerFinite' /\ BooksBalance'
<1>1. \A m \in Masters : Credits(m)' = Credits(m) /\ Held(m)' = Held(m)
  BY DEF Credits, Held
<1>2. BooksBalance'
  BY <1>1, LedgerSums, LedgerSumsNext DEF LedgerInv, BooksBalance
<1>3. AskedFor' \in SUBSET AskedFor
  BY DEF AskedFor
<1>4. LedgerFinite'
  BY <1>3, FS_Subset DEF LedgerInv, LedgerFinite
<1> QED
  BY <1>2, <1>4

(* An order is credited, unless it was before.                             *)
LEMMA LedgerCredits ==
    ASSUME LedgerInv, NEW o \in Orders, Accrue(o), status' = status
    PROVE  LedgerFinite' /\ BooksBalance'
<1>1. CASE o \in accrued
  BY <1>1, LedgerUntouched DEF Accrue
<1>2. CASE o \notin accrued
  <2> DEFINE n == MasterOf[o]
  <2>1. /\ accrued' = accrued \cup {o} /\ n \in Masters /\ CalloutOf[o] \in Nat
        /\ balance' = [balance EXCEPT ![n] = @ + CalloutOf[o]]
    BY <1>2, DataAssumption DEF Accrue
  <2>2. LedgerFinite'
    <3>1. IsFiniteSet(accrued') /\ AskedFor' = AskedFor
      BY <2>1, FS_AddElement DEF LedgerInv, LedgerFinite, AskedFor
    <3> QED  BY <3>1 DEF LedgerInv, LedgerFinite
  <2>3. ASSUME NEW m \in Masters
        PROVE  balance'[m] + Sum(Held(m)', AmountOf) = Sum(Credits(m)', CalloutOf)
    <3>1. /\ balance[m] + Sum(Held(m), AmountOf) = Sum(Credits(m), CalloutOf)
          /\ Held(m)' = Held(m)
      BY LedgerSums DEF LedgerInv, BooksBalance, Held
    <3>2. balance[m] \in Nat /\ Sum(Held(m), AmountOf) \in Nat /\ Sum(Credits(m), CalloutOf) \in Nat
      BY LedgerTypes DEF LedgerInv
    <3>3. CASE m # n
      <4>1. Credits(m)' = Credits(m)
        BY <2>1, <3>3 DEF Credits
      <4>2. balance'[m] = balance[m]
        BY <2>1, <3>3 DEF LedgerInv, TypeOK
      <4> QED  BY <3>1, <4>1, <4>2
    <3>4. CASE m = n
      <4>1. Credits(m)' = Credits(m) \cup {o} /\ o \notin Credits(m)
        BY <1>2, <2>1, <3>4 DEF Credits
      <4>2. Credits(m)' \in SUBSET Orders /\ IsFiniteSet(Credits(m)')
        <5>1. Credits(m) \in SUBSET Orders /\ IsFiniteSet(Credits(m))
          BY LedgerTypes DEF LedgerInv
        <5> QED  BY <4>1, <5>1, FS_AddElement
      <4>3. Credits(m)' \ {o} = Credits(m)
        BY <4>1
      <4>4. Sum(Credits(m)', CalloutOf) = CalloutOf[o] + Sum(Credits(m), CalloutOf)
        BY <4>1, <4>2, <4>3, SumElement, DataAssumption
      <4>5. balance'[m] = balance[m] + CalloutOf[o]
        BY <2>1, <3>4 DEF LedgerInv, TypeOK
      <4> HIDE DEF n
      <4> QED  BY <2>1, <3>1, <3>2, <4>4, <4>5
    <3> QED  BY <3>3, <3>4
  <2>4. BooksBalance'
    BY <2>3, LedgerSumsNext DEF BooksBalance
  <2> QED  BY <2>2, <2>4
<1> QED
  BY <1>1, <1>2

(* One withdrawal begins or ceases to be held, and its amount leaves the   *)
(* balance or comes back to it.                                            *)
LEMMA LedgerMoves ==
    ASSUME LedgerInv, LedgerFinite', NEW w \in Withdrawals, accrued' = accrued,
           \A v \in Withdrawals \ {w} : status'[v] = status[v],
           \/ /\ status[w] \notin HeldStatus /\ status'[w] \in HeldStatus
              /\ balance' = [balance EXCEPT ![RequesterOf[w]] = @ - AmountOf[w]]
           \/ /\ status[w] \in HeldStatus /\ status'[w] \notin HeldStatus
              /\ balance' = Refunded(w)
    PROVE  BooksBalance'
<1> DEFINE n == RequesterOf[w]
<1>1. n \in Masters /\ AmountOf[w] \in Nat /\ AmountOf \in [Withdrawals -> Nat]
  BY DataAssumption
<1>2. ASSUME NEW m \in Masters
      PROVE  balance'[m] + Sum(Held(m)', AmountOf) = Sum(Credits(m)', CalloutOf)
  <2>1. /\ balance[m] + Sum(Held(m), AmountOf) = Sum(Credits(m), CalloutOf)
        /\ Credits(m)' = Credits(m)
    BY LedgerSums DEF LedgerInv, BooksBalance, Credits
  <2>2. /\ balance[m] \in Nat /\ Sum(Held(m), AmountOf) \in Nat /\ Sum(Credits(m), CalloutOf) \in Nat
        /\ Held(m) \in SUBSET Withdrawals /\ IsFiniteSet(Held(m))
    BY LedgerTypes DEF LedgerInv
  <2>3. CASE m # n
    <3>1. Held(m)' = Held(m)
      BY <2>3 DEF Held
    <3>2. balance'[m] = balance[m]
      BY <2>3 DEF LedgerInv, TypeOK, Refunded
    <3> QED  BY <2>1, <3>1, <3>2
  <2>4. CASE m = n /\ status[w] \notin HeldStatus
    <3>1. /\ Held(m)' = Held(m) \cup {w} /\ w \notin Held(m)
          /\ balance'[m] = balance[m] - AmountOf[w]
      BY <1>1, <2>4 DEF Held, LedgerInv, TypeOK
    <3>2. Held(m)' \in SUBSET Withdrawals /\ IsFiniteSet(Held(m)') /\ Held(m)' \ {w} = Held(m)
      BY <2>2, <3>1, FS_AddElement
    <3>3. Sum(Held(m)', AmountOf) = AmountOf[w] + Sum(Held(m), AmountOf)
      BY <1>1, <3>1, <3>2, SumElement
    <3> HIDE DEF n
    <3> QED  BY <1>1, <2>1, <2>2, <3>1, <3>3
  <2>5. CASE m = n /\ status[w] \in HeldStatus
    <3>1. /\ Held(m)' = Held(m) \ {w} /\ w \in Held(m)
          /\ balance'[m] = balance[m] + AmountOf[w]
      BY <1>1, <2>5 DEF Held, LedgerInv, TypeOK, Refunded
    <3>2. Sum(Held(m), AmountOf) = AmountOf[w] + Sum(Held(m)', AmountOf)
      BY <1>1, <2>2, <3>1, SumElement
    <3>3. Sum(Held(m)', AmountOf) \in Nat
      <4>1. Held(m)' \in SUBSET Withdrawals /\ IsFiniteSet(Held(m)')
        BY <2>2, <3>1, FS_RemoveElement
      <4> QED  BY <1>1, <4>1, SumType
    <3> HIDE DEF n
    <3> QED  BY <1>1, <2>1, <2>2, <3>1, <3>2, <3>3
  <2> QED  BY <2>3, <2>4, <2>5
<1> QED
  BY <1>2, LedgerSumsNext DEF BooksBalance

LEMMA LedgerStep == LedgerInv /\ [Next]_vars => LedgerFinite' /\ BooksBalance'
<1> SUFFICES ASSUME LedgerInv, [Next]_vars PROVE LedgerFinite' /\ BooksBalance'
  OBVIOUS
<1> DEFINE Goal == LedgerFinite' /\ BooksBalance'
<1>1. CASE UNCHANGED <<accrued, balance, status>>
  BY <1>1, LedgerUntouched
<1>2. ASSUME NEW o \in Orders, OrderStep(o) PROVE Goal
  BY <1>1, <1>2, LedgerCredits
     DEF OrderStep, CloseOrder, DisputeReads, DisputeResolves, requestVars
<1>3. ASSUME NEW w \in Withdrawals, Request(w) PROVE Goal
  <2>1. /\ status' = [status EXCEPT ![w] = "PENDING"] /\ status[w] = "NONE" /\ accrued' = accrued
        /\ balance' = [balance EXCEPT ![RequesterOf[w]] = @ - AmountOf[w]]
    BY <1>3 DEF Request, orderVars
  <2>2. LedgerFinite'
    <3>1. AskedFor' = AskedFor \cup {w}
      BY <2>1 DEF AskedFor, LedgerInv, TypeOK
    <3> QED  BY <2>1, <3>1, FS_AddElement DEF LedgerInv, LedgerFinite
  <2>3. /\ status[w] \notin HeldStatus /\ status'[w] \in HeldStatus
        /\ \A v \in Withdrawals \ {w} : status'[v] = status[v]
    BY <2>1 DEF HeldStatus, LedgerInv, TypeOK
  <2> QED  BY <2>1, <2>2, <2>3, LedgerMoves
(* The status of a request that is there changes.                          *)
<1>4. ASSUME NEW w \in Withdrawals, NEW s \in Status \ {"NONE"},
             status' = [status EXCEPT ![w] = s], accrued' = accrued, status[w] \in {"PENDING", "ERROR"},
             balance' = IF s = "FAILED" THEN Refunded(w) ELSE balance
      PROVE  Goal
  <2>1. /\ status[w] \in HeldStatus /\ status'[w] = s /\ (s \in HeldStatus <=> s # "FAILED")
        /\ \A v \in Withdrawals \ {w} : status'[v] = status[v]
    BY <1>4 DEF HeldStatus, Status, LedgerInv, TypeOK
  <2>2. CASE s # "FAILED"
    BY <1>4, <2>1, <2>2, LedgerUntouched DEF HeldStatus
  <2>3. CASE s = "FAILED"
    <3>1. AskedFor' \in SUBSET AskedFor
      BY <1>4, <2>1 DEF AskedFor
    <3>2. LedgerFinite'
      BY <1>4, <3>1, FS_Subset DEF LedgerInv, LedgerFinite
    <3> QED  BY <1>4, <2>1, <2>3, <3>2, LedgerMoves
  <2> QED  BY <2>2, <2>3
<1>5. ASSUME NEW w \in Withdrawals, Handler(w) PROVE Goal
  <2>1. call[w] # "none" => status[w] = "PENDING"
    BY DEF LedgerInv, HandlersSound
  <2>2. ASSUME NEW r \in Results, Payout(w, r) PROVE Goal
    BY <1>1, <2>2 DEF Payout, orderVars
  <2>3. CASE WriteAnswer(w)
    <3> DEFINE s == IF call[w] = "SUCCEEDED" THEN "PAID" ELSE "FAILED"
    <3>1. /\ s \in Status \ {"NONE"} /\ status' = [status EXCEPT ![w] = s] /\ accrued' = accrued
          /\ status[w] = "PENDING" /\ balance' = IF s = "FAILED" THEN Refunded(w) ELSE balance
      BY <2>1, <2>3 DEF WriteAnswer, orderVars, Status
    <3> HIDE DEF s
    <3> QED  BY <1>4, <3>1
  <2>4. CASE WriteError(w)
    BY <1>4, <2>1, <2>4 DEF WriteError, Suspend, orderVars, Status
  <2> QED  BY <1>5, <2>2, <2>3, <2>4 DEF Handler
<1>6. ASSUME NEW p \in Operators, NEW outcome \in Resolution, Resolve(p, outcome) PROVE Goal
  <2> DEFINE w == desk[p]
  <2>1. w \in Withdrawals /\ accrued' = accrued /\ outcome \in Status \ {"NONE"}
    BY <1>6 DEF Resolve, orderVars, Resolution, Status, LedgerInv, TypeOK
  <2>2. CASE ~StillError(w)
    BY <1>1, <1>6, <2>1, <2>2 DEF Resolve
  <2>3. CASE StillError(w)
    <3>1. /\ status' = [status EXCEPT ![w] = outcome] /\ status[w] = "ERROR"
          /\ balance' = IF outcome = "FAILED" THEN Refunded(w) ELSE balance
      BY <1>6, <2>3 DEF Resolve, StillError
    <3> HIDE DEF w
    <3> QED  BY <1>4, <2>1, <3>1
  <2> QED  BY <2>2, <2>3
<1>7. ASSUME \/ \E m \in Masters : SetPayoutAccount(m)
             \/ \E w \in Withdrawals : Die(w)
             \/ \E p \in Operators, w \in Withdrawals : OpenError(p, w)
      PROVE  Goal
  BY <1>1, <1>7 DEF SetPayoutAccount, Die, OpenError, orderVars, requestVars
<1>8. CASE UNCHANGED vars
  BY <1>1, <1>8 DEF vars
<1> QED
  BY <1>2, <1>3, <1>5, <1>6, <1>7, <1>8 DEF Next

LEMMA LedgerInit == Init => LedgerInv
<1> SUFFICES ASSUME Init PROVE LedgerInv
  OBVIOUS
<1>1. TypeOK /\ HandlersSound
  BY TypeInit, AnswersInit
<1>2. accrued = {} /\ AskedFor = {}
  BY DEF Init, AskedFor
<1>3. \A m \in Masters : Credits(m) = {} /\ Held(m) = {} /\ balance[m] = 0
  BY DEF Init, Credits, Held, HeldStatus
<1>4. BooksBalance
  BY <1>3, LedgerSums, SumEmpty DEF BooksBalance
<1> QED
  BY <1>1, <1>2, <1>4, FS_EmptySet DEF LedgerInv, LedgerFinite

(* Money leaves only for what is asked for.                                *)
LeftIsAskedFor == \A w \in Withdrawals : left[w] => status[w] # "NONE"

LEMMA LeftStep ==
    TypeOK /\ HandlersSound /\ LeftIsAskedFor /\ [Next]_vars => LeftIsAskedFor'
<1> SUFFICES ASSUME TypeOK, HandlersSound, LeftIsAskedFor, [Next]_vars PROVE LeftIsAskedFor'
  OBVIOUS
<1> USE DEF LeftIsAskedFor
<1>1. CASE UNCHANGED <<status, left>>
  BY <1>1
<1>2. ASSUME NEW o \in Orders, OrderStep(o) PROVE LeftIsAskedFor'
  BY <1>1, <1>2 DEF OrderStep, CloseOrder, DisputeReads, DisputeResolves, requestVars
<1>3. ASSUME NEW w \in Withdrawals, NEW s \in Status \ {"NONE"},
             status' = [status EXCEPT ![w] = s], left' = left
      PROVE  LeftIsAskedFor'
  BY <1>3 DEF TypeOK
<1>4. ASSUME NEW w \in Withdrawals, Request(w) \/ WriteAnswer(w) \/ WriteError(w)
      PROVE  LeftIsAskedFor'
  BY <1>3, <1>4 DEF Request, WriteAnswer, WriteError, Suspend, Status
<1>5. ASSUME NEW w \in Withdrawals, Die(w) \/ \E r \in Results : Payout(w, r)
      PROVE  LeftIsAskedFor'
  <2>1. /\ status' = status /\ status[w] = "PENDING"
        /\ \A v \in Withdrawals \ {w} : left'[v] = left[v]
    BY <1>5 DEF Die, Payout, HandlersSound, TypeOK
  <2> QED  BY <2>1
<1>6. ASSUME NEW p \in Operators, NEW outcome \in Resolution, Resolve(p, outcome)
      PROVE  LeftIsAskedFor'
  <2>1. desk[p] \in Withdrawals /\ outcome \in Status \ {"NONE"}
    BY <1>6 DEF Resolve, TypeOK, Resolution, Status
  <2>2. left' = left /\ (status' = status \/ status' = [status EXCEPT ![desk[p]] = outcome])
    BY <1>6 DEF Resolve
  <2> QED  BY <1>1, <1>3, <2>1, <2>2
<1>7. ASSUME \/ \E m \in Masters : SetPayoutAccount(m)
             \/ \E p \in Operators, w \in Withdrawals : OpenError(p, w)
             \/ UNCHANGED vars
      PROVE  LeftIsAskedFor'
  BY <1>1, <1>7 DEF SetPayoutAccount, OpenError, requestVars, vars
<1> QED
  BY <1>2, <1>4, <1>5, <1>6, <1>7 DEF Next, Handler

(* What the bank has paid and nobody has given back is held, and what is   *)
(* held has been earned.                                                   *)
LEMMA BankPays ==
    ASSUME LedgerInv, LeftIsAskedFor, ResolvedOnce, UnreviewedAnswersAreTrue
    PROVE  BankPaysTheEarned
<1> SUFFICES ASSUME NEW m \in Masters PROVE PaidByBank(m) <= Earned(m)
  BY DEF BankPaysTheEarned
<1> DEFINE P == {w \in Withdrawals : RequesterOf[w] = m /\ left[w] /\ ~GivenBack(w)}
<1>1. ASSUME NEW w \in P PROVE w \in Held(m)
  <2>1. status[w] # "NONE"
    BY DEF LeftIsAskedFor
  <2>2. status[w] # "FAILED"
    <3> SUFFICES ASSUME status[w] = "FAILED" PROVE FALSE
      OBVIOUS
    <3>1. PICK e \in audit : e.target = w
      BY DEF UnreviewedAnswersAreTrue, Resolution
    <3>2. e.outcome = "FAILED"
      BY <3>1 DEF ResolvedOnce
    <3> QED  BY <3>1, <3>2 DEF GivenBack
  <2>3. status[w] \in Status
    BY DEF LedgerInv, TypeOK
  <2> QED  BY <2>1, <2>2, <2>3 DEF Held, HeldStatus, Status
<1>2. PaidByBank(m) = Sum(P, AmountOf)
  BY DEF PaidByBank, MapThenSumSet, MapThenFoldSet, Sum, SumFcn, IsSum, Pick
<1>3. P \in SUBSET Held(m)
  BY <1>1
<1> HIDE DEF P
<1>4. /\ IsFiniteSet(Held(m)) /\ Held(m) \in SUBSET Withdrawals
      /\ Sum(Held(m), AmountOf) \in Nat /\ Sum(Credits(m), CalloutOf) \in Nat /\ balance[m] \in Nat
  BY LedgerTypes DEF LedgerInv
<1>5. AmountOf \in [Withdrawals -> Nat]
  BY DataAssumption
<1>6. Sum(P, AmountOf) \in Nat /\ Sum(P, AmountOf) <= Sum(Held(m), AmountOf)
  <2>1. IsFiniteSet(P) /\ P \in SUBSET Withdrawals
    BY <1>3, <1>4, FS_Subset
  <2> QED  BY <1>3, <1>4, <1>5, <2>1, SumType, SumMonotone
<1>7. balance[m] + Sum(Held(m), AmountOf) = Sum(Credits(m), CalloutOf) /\ Earned(m) = Sum(Credits(m), CalloutOf)
  BY LedgerSums DEF LedgerInv, BooksBalance
<1> QED
  BY <1>2, <1>4, <1>6, <1>7

(* No tenge appears or disappears, whatever is closed twice, killed        *)
(* between two transactions or reconciled by rivals, and however many      *)
(* orders and withdrawals there are (accrueCallout, request, resolveError).*)
THEOREM MoneyIsConserved == Spec => []Conservation
<1> DEFINE Inv == LedgerInv /\ LeftIsAskedFor /\ ResolvedOnce /\ UnreviewedAnswersAreTrue
<1>1. Init => Inv
  BY LedgerInit, AnswersInit DEF Init, LeftIsAskedFor
<1>2. Inv /\ [Next]_vars => Inv'
  BY TypeStep, AnswersStep, LedgerStep, LeftStep DEF LedgerInv
<1>3. Inv => Conservation
  BY BankPays DEF LedgerInv, Conservation
<1> QED
  BY <1>1, <1>2, <1>3, PTL DEF Spec
=============================================================================
