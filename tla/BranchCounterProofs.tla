------------------------- MODULE BranchCounterProofs -------------------------
(***************************************************************************)
(* What BranchCounter promises for every number of players, codes, keys,   *)
(* cashiers and shifts, and for all amounts: codes and shifts first, then  *)
(* the wallets, then that the codes are cash that is held.                 *)
(***************************************************************************)
EXTENDS BranchCounter, SumTheorems

Counted == DOMAIN count = Shift

Inv == CodesTyped /\ BooksTyped /\ CodeSettledOnce /\ OneOpenShift /\ Counted

LEMMA InitInv == ASSUME Init PROVE Inv
BY CounterAssumption
   DEF Init, Inv, Counted, CodesTyped, BooksTyped, CodeSettledOnce, OneOpenShift, NoSession

-----------------------------------------------------------------------------
(* The actions on codes.                                                   *)

LEMMA CodesInv ==
    ASSUME Inv, NEW c \in Code,
           CreateCode(c) \/ Lapse(c) \/ CancelCode(c) \/ \E k \in Cashier : ProcessCode(c, k)
    PROVE  CodesTyped' /\ CodeSettledOnce'
<1> USE CounterAssumption DEF Inv, CodesTyped, CodeSettledOnce
<1>1. CASE CreateCode(c) BY <1>1 DEF CreateCode
<1>2. CASE Lapse(c) BY <1>2 DEF Lapse
<1>3. CASE CancelCode(c) BY <1>3 DEF CancelCode, Unlock
<1>4. CASE \E k \in Cashier : ProcessCode(c, k) BY <1>4 DEF ProcessCode
<1> QED BY <1>1, <1>2, <1>3, <1>4

\* The sweep and the lookup expire codes that are pending, so unpaid.
LEMMA ExpiryInv ==
    ASSUME Inv, SweepExpired \/ LookUpCode
    PROVE  CodesTyped' /\ CodeSettledOnce'
<1> USE DEF Inv, CodesTyped, CodeSettledOnce, Overdue, Expire
<1>1. CASE SweepExpired BY <1>1 DEF SweepExpired, Unlock
<1>2. CASE LookUpCode BY <1>2 DEF LookUpCode
<1> QED BY <1>1, <1>2

LEMMA CodesKeepBooks ==
    ASSUME Inv,
           \/ SweepExpired \/ LookUpCode
           \/ \E c \in Code : \/ CreateCode(c) \/ Lapse(c) \/ CancelCode(c)
                              \/ \E k \in Cashier : ProcessCode(c, k)
           \/ \E b \in Bet : PlaceBet(b) \/ \E outcome \in {"lost", "void"} : SettleBet(b, outcome)
    PROVE  BooksTyped' /\ OneOpenShift'
<1>1. UNCHANGED <<row, shift, holder, session>>
  BY DEF SweepExpired, LookUpCode, CreateCode, Lapse, CancelCode, ProcessCode, PlaceBet,
         SettleBet, shiftVars
<1> QED BY <1>1 DEF Inv, BooksTyped, OneOpenShift

LEMMA BetsKeepCodes ==
    ASSUME Inv,
           NEW b \in Bet, PlaceBet(b) \/ \E outcome \in {"lost", "void"} : SettleBet(b, outcome)
    PROVE  CodesTyped' /\ CodeSettledOnce'
BY DEF Inv, CodesTyped, CodeSettledOnce, PlaceBet, SettleBet, codeVars

-----------------------------------------------------------------------------
(* The actions at the counter.                                             *)

LEMMA CounterKeepsCodes == ASSUME Inv, Counter PROVE CodesTyped' /\ CodeSettledOnce'
BY DEF Inv, CodesTyped, CodeSettledOnce, Counter, CommitOperation, AbortOperation, RecordCount,
       BeginOperation, CountShift, OpenShift, codeVars

LEMMA OperationsInv ==
    ASSUME Inv, NEW x \in Session,
           \/ CommitOperation(x) \/ AbortOperation(x)
           \/ \E k \in Cashier, key \in Key : BeginOperation(x, k, key)
           \/ \E k \in Cashier : CountShift(x, k)
    PROVE  BooksTyped' /\ OneOpenShift'
<1> USE DEF Inv, BooksTyped, OneOpenShift
<1>1. CASE CommitOperation(x)
  <2>1. session[x].key \in Key /\ session[x].shift \in Shift BY <1>1 DEF CommitOperation
  <2> QED BY <1>1, <2>1 DEF CommitOperation, shiftVars
<1>2. CASE AbortOperation(x) BY <1>2 DEF AbortOperation, shiftVars
<1>3. CASE \E k \in Cashier, key \in Key : BeginOperation(x, k, key)
  BY <1>3 DEF BeginOperation, OpenShifts, shiftVars
<1>4. CASE \E k \in Cashier : CountShift(x, k) BY <1>4 DEF CountShift
<1> QED BY <1>1, <1>2, <1>3, <1>4

\* A shift is opened for a cashier who has none open.
LEMMA ShiftsInv ==
    ASSUME Inv,
           \/ \E x \in Session : RecordCount(x)
           \/ \E k \in Cashier, s \in Shift : OpenShift(s, k)
    PROVE  BooksTyped' /\ OneOpenShift'
<1> USE DEF Inv, BooksTyped, OneOpenShift
<1>1. CASE \E x \in Session : RecordCount(x) BY <1>1 DEF RecordCount
<1>2. CASE \E k \in Cashier, s \in Shift : OpenShift(s, k)
  BY <1>2 DEF OpenShift, OpenShifts
<1> QED BY <1>1, <1>2

LEMMA StepCounted == ASSUME Inv, [Next]_vars PROVE Counted'
<1>1. CASE UNCHANGED count BY <1>1 DEF Inv, Counted
<1>2. CASE \E x \in Session : RecordCount(x) BY <1>2 DEF Inv, Counted, RecordCount
<1> QED
  BY <1>1, <1>2
     DEF Next, Counter, vars, shiftVars, CommitOperation, AbortOperation, BeginOperation,
         CountShift, OpenShift, SweepExpired, LookUpCode, CreateCode, Lapse, CancelCode,
         ProcessCode, PlaceBet, SettleBet

LEMMA StepInv == ASSUME Inv, [Next]_vars PROVE Inv'
<1>1. CASE UNCHANGED vars
  BY <1>1, StepCounted
     DEF Inv, CodesTyped, BooksTyped, CodeSettledOnce, OneOpenShift, vars, codeVars, shiftVars
<1>2. CASE Counter
  <2>1. CodesTyped' /\ CodeSettledOnce' BY <1>2, CounterKeepsCodes
  <2>2. BooksTyped' /\ OneOpenShift' BY <1>2, OperationsInv, ShiftsInv DEF Counter
  <2> QED BY <2>1, <2>2, StepCounted DEF Inv
<1>3. CASE Next /\ ~Counter
  <2>1. CodesTyped' /\ CodeSettledOnce' BY <1>3, CodesInv, ExpiryInv, BetsKeepCodes DEF Next
  <2>2. BooksTyped' /\ OneOpenShift' BY <1>3, CodesKeepBooks DEF Next
  <2> QED BY <2>1, <2>2, StepCounted DEF Inv
<1> QED BY <1>1, <1>2, <1>3

\* The inductive invariant: codes, rows and shifts are what their tables hold.
THEOREM Invariance == Spec => []Inv
<1>1. Init => Inv BY InitInv
<1>2. Inv /\ [Next]_vars => Inv' BY StepInv
<1> QED BY <1>1, <1>2, PTL DEF Spec

\* A withdrawal code is paid or put back, never both.
THEOREM SettledOnce == Spec => []CodeSettledOnce
BY Invariance, PTL DEF Inv

\* A cashier never has two open shifts.
THEOREM OneDrawer == Spec => []OneOpenShift
BY Invariance, PTL DEF Inv

-----------------------------------------------------------------------------
Kept == \A s \in Shift : shift[s] = "closed" => shift'[s] = "closed" /\ count'[s] = count[s]

LEMMA StepKept == ASSUME Inv, [Next]_vars PROVE Kept
<1> USE DEF Inv, BooksTyped, Counted, Kept
<1>1. CASE \E x \in Session : RecordCount(x) BY <1>1 DEF RecordCount
<1>2. CASE \E k \in Cashier, s \in Shift : OpenShift(s, k) BY <1>2 DEF OpenShift
<1>3. CASE UNCHANGED <<shift, count>> BY <1>3
<1>4. CASE Next
  BY <1>1, <1>2, <1>3, <1>4
     DEF Next, Counter, CommitOperation, AbortOperation, BeginOperation, CountShift, SweepExpired,
         LookUpCode, CreateCode, Lapse, CancelCode, ProcessCode, PlaceBet, SettleBet, shiftVars
<1> QED BY <1>3, <1>4 DEF vars, shiftVars

\* What was recorded for a shift at its close stays as it is.
THEOREM CountStays == Spec => CountIsKept
<1>1. Inv /\ [Next]_vars => [Kept]_vars BY StepKept
<1> QED BY <1>1, Invariance, PTL DEF Spec, CountIsKept, Kept

-----------------------------------------------------------------------------
(* What a player's codes, rows and bets add up to.                         *)

Thing == Code \cup Key \cup Bet

Of(S, u) == {x \in S : Owner[x] = u}

Mine(x, u) == IF Owner[x] = u THEN Amount[x] ELSE 0

LEMMA OfFinite ==
    ASSUME NEW S \in SUBSET Thing, NEW u
    PROVE  /\ IsFiniteSet(Of(S, u)) /\ Of(S, u) \in SUBSET Thing
           /\ \A x \in Of(S, u) : Amount[x] \in Nat /\ Amount[x] \in Int
           /\ Sum(S, u) = SumFunctionOnSet(Amount, Of(S, u))
<1>1. Of(S, u) \in SUBSET Thing BY DEF Of
<1>2. IsFiniteSet(Of(S, u)) BY <1>1, CounterAssumption, FS_Subset DEF Thing
<1>3. \A x \in Of(S, u) : Amount[x] \in Nat BY <1>1, CounterAssumption DEF Thing
<1> QED BY <1>1, <1>2, <1>3 DEF Of, Sum

LEMMA SumType ==
    ASSUME NEW S \in SUBSET Thing, NEW u
    PROVE  Sum(S, u) \in Nat
BY OfFinite, SumNat

LEMMA SumOfNone == \A u : Sum({}, u) = 0
<1> SUFFICES ASSUME NEW u PROVE Sum({}, u) = 0 OBVIOUS
<1>1. {x \in {} : Owner[x] = u} = {} OBVIOUS
<1> QED BY <1>1, SumEmpty DEF Sum

\* A code, row or bet that joins a set adds its amount to its owner's sum.
LEMMA SumWith ==
    ASSUME NEW S \in SUBSET Thing, NEW x \in Thing, x \notin S, NEW u
    PROVE  Sum(S \cup {x}, u) = Sum(S, u) + Mine(x, u)
<1>1. CASE Owner[x] = u
  <2>1. Of(S \cup {x}, u) = Of(S, u) \cup {x} /\ x \notin Of(S, u) BY <1>1 DEF Of
  <2>2. Amount[x] \in Int BY CounterAssumption DEF Thing
  <2>3. SumFunctionOnSet(Amount, Of(S, u) \cup {x}) = SumFunctionOnSet(Amount, Of(S, u)) + Amount[x]
    BY <2>1, <2>2, OfFinite, SumAdd
  <2>4. Sum(S \cup {x}, u) = SumFunctionOnSet(Amount, Of(S \cup {x}, u)) BY DEF Of, Sum
  <2> QED BY <1>1, <2>1, <2>3, <2>4, OfFinite DEF Mine
<1>2. CASE Owner[x] # u
  <2>1. {y \in S \cup {x} : Owner[y] = u} = {y \in S : Owner[y] = u} BY <1>2
  <2>2. Sum(S \cup {x}, u) = Sum(S, u) BY <2>1 DEF Sum
  <2> QED BY <1>2, <2>2, SumType DEF Mine
<1> QED BY <1>1, <1>2

LEMMA SumOfOne == ASSUME NEW x \in Thing, NEW u PROVE Sum({x}, u) = Mine(x, u) /\ Mine(x, u) \in Nat
<1>1. Mine(x, u) \in Nat BY CounterAssumption DEF Mine, Thing
<1>2. Sum({} \cup {x}, u) = Sum({}, u) + Mine(x, u) BY SumWith
<1>3. {} \cup {x} = {x} OBVIOUS
<1> QED BY <1>1, <1>2, <1>3, SumOfNone

\* A part that leaves a set takes its sum along.
LEMMA SumWithout ==
    ASSUME NEW S \in SUBSET Thing, NEW R \in SUBSET S, NEW u
    PROVE  /\ Sum(S \ R, u) = Sum(S, u) - Sum(R, u)
           /\ Sum(R, u) <= Sum(S, u)
<1>1. S \ R \in SUBSET Thing /\ R \in SUBSET Thing OBVIOUS
<1>2. Of(S, u) = Of(S \ R, u) \cup Of(R, u) /\ Of(S \ R, u) \cap Of(R, u) = {} BY DEF Of
<1>3. Sum(S, u) = Sum(S \ R, u) + Sum(R, u)
  <2>1. SumFunctionOnSet(Amount, Of(S \ R, u) \cup Of(R, u))
          = SumFunctionOnSet(Amount, Of(S \ R, u)) + SumFunctionOnSet(Amount, Of(R, u))
    BY <1>1, <1>2, OfFinite, SumUnion
  <2> QED BY <1>1, <1>2, <2>1, OfFinite
<1>4. Sum(S, u) \in Nat /\ Sum(S \ R, u) \in Nat /\ Sum(R, u) \in Nat BY <1>1, SumType
<1> QED BY <1>3, <1>4

LEMMA SumWithoutOne ==
    ASSUME NEW S \in SUBSET Thing, NEW x \in S, NEW u
    PROVE  /\ Sum(S \ {x}, u) = Sum(S, u) - Mine(x, u)
           /\ Mine(x, u) <= Sum(S, u) /\ Mine(x, u) \in Nat
<1>1. {x} \in SUBSET S /\ x \in Thing OBVIOUS
<1>2. Sum({x}, u) = Mine(x, u) /\ Mine(x, u) \in Nat BY <1>1, SumOfOne
<1>3. Sum(S \ {x}, u) = Sum(S, u) - Sum({x}, u) /\ Sum({x}, u) <= Sum(S, u)
  BY <1>1, SumWithout
<1> QED BY <1>2, <1>3

-----------------------------------------------------------------------------
(* The wallets.                                                            *)

WalletTyped ==
    /\ balance \in [User -> Nat] /\ locked \in [User -> Nat]
    /\ bet \in [Bet -> {"absent", "pending", "lost", "void"}]

Money == WalletTyped /\ LockedMatchesCodes /\ WalletMatchesLedger

LEMMA Parts ==
    /\ Outstanding \in SUBSET Thing /\ Paid \in SUBSET Thing
    /\ \A status : Bets(status) \in SUBSET Thing
    /\ \A K \in SUBSET Key : Booked(K) \in SUBSET Thing
BY DEF Outstanding, Paid, Bets, Booked, Thing

SumsTyped(u) ==
    /\ Sum(Outstanding, u) \in Nat /\ Sum(Paid, u) \in Nat
    /\ Sum(Bets("pending"), u) \in Nat /\ Sum(Bets("lost"), u) \in Nat
    /\ Sum(Booked(Deposits), u) \in Nat /\ Sum(Booked(Key \ Deposits), u) \in Nat

LEMMA PartsTyped == ASSUME NEW u PROVE SumsTyped(u) /\ SumsTyped(u)'
<1>1. Deposits \in SUBSET Key /\ Key \ Deposits \in SUBSET Key BY CounterAssumption
<1>2. SumsTyped(u) BY <1>1, Parts, SumType DEF SumsTyped
<1>3. /\ Outstanding' \in SUBSET Thing /\ Paid' \in SUBSET Thing
      /\ Bets("pending")' \in SUBSET Thing /\ Bets("lost")' \in SUBSET Thing
      /\ Booked(Deposits)' \in SUBSET Thing /\ Booked(Key \ Deposits)' \in SUBSET Thing
  BY CounterAssumption DEF Outstanding, Paid, Bets, Booked, Thing
<1>4. SumsTyped(u)' BY <1>3, SumType DEF SumsTyped
<1> QED BY <1>2, <1>4

LEMMA InitMoney == ASSUME Init PROVE Money
<1>1. /\ Outstanding = {} /\ Paid = {} /\ Bets("pending") = {} /\ Bets("lost") = {}
      /\ Booked(Deposits) = {} /\ Booked(Key \ Deposits) = {}
  BY CounterAssumption DEF Init, Outstanding, Paid, Bets, Booked
<1>2. WalletTyped BY CounterAssumption DEF Init, WalletTyped
<1>3. ASSUME NEW u \in User
      PROVE  /\ balance[u] = Opening[u] /\ Opening[u] \in Nat /\ locked[u] = 0
             /\ Sum(Outstanding, u) = 0 /\ Sum(Paid, u) = 0
             /\ Sum(Bets("pending"), u) = 0 /\ Sum(Bets("lost"), u) = 0
             /\ Sum(Booked(Deposits), u) = 0 /\ Sum(Booked(Key \ Deposits), u) = 0
  BY <1>1, SumOfNone, CounterAssumption DEF Init
<1>4. LockedMatchesCodes BY <1>3 DEF LockedMatchesCodes
<1>5. WalletMatchesLedger BY <1>3 DEF WalletMatchesLedger
<1> QED BY <1>2, <1>4, <1>5 DEF Money

\* What the locked balance exceeds codes and stakes by, and the wallet the ledger.
LockedGap(u) == locked[u] - (Sum(Outstanding, u) + Sum(Bets("pending"), u))
LedgerGap(u) ==
    (balance[u] + locked[u] + Sum(Booked(Key \ Deposits), u) + Sum(Paid, u)
      + Sum(Bets("lost"), u)) - (Opening[u] + Sum(Booked(Deposits), u))

\* A step that moves wallets as it moves those sums.
Balanced(u) == LockedGap(u)' = LockedGap(u) /\ LedgerGap(u)' = LedgerGap(u)

LEMMA BalancedStep ==
    ASSUME Money, WalletTyped', \A u \in User : Balanced(u)
    PROVE  Money'
<1>1. ASSUME NEW u \in User
      PROVE  /\ balance[u] \in Nat /\ locked[u] \in Nat /\ Opening[u] \in Nat
             /\ balance'[u] \in Nat /\ locked'[u] \in Nat
             /\ SumsTyped(u) /\ SumsTyped(u)'
             /\ Balanced(u)
  BY PartsTyped, CounterAssumption DEF Money, WalletTyped
<1>2. ASSUME NEW u \in User
      PROVE  locked'[u] = Sum(Outstanding', u) + Sum(Bets("pending")', u)
  <2>1. LockedGap(u) = 0
    BY <1>1 DEF Money, LockedMatchesCodes, LockedGap, SumsTyped
  <2>2. locked'[u] - (Sum(Outstanding', u) + Sum(Bets("pending")', u)) = 0
    BY <1>1, <2>1 DEF LockedGap, Balanced
  <2> QED BY <1>1, <2>2 DEF SumsTyped
<1>3. ASSUME NEW u \in User
      PROVE  balance'[u] + locked'[u] + Sum(Booked(Key \ Deposits)', u) + Sum(Paid', u)
               + Sum(Bets("lost")', u)
             = Opening[u] + Sum(Booked(Deposits)', u)
  <2>1. LedgerGap(u) = 0
    <3>1. balance[u] + locked[u] + Sum(Booked(Key \ Deposits), u) + Sum(Paid, u)
            + Sum(Bets("lost"), u) = Opening[u] + Sum(Booked(Deposits), u)
      BY DEF Money, WalletMatchesLedger
    <3> QED BY <1>1, <3>1 DEF LedgerGap, SumsTyped
  <2>2. (balance'[u] + locked'[u] + Sum(Booked(Key \ Deposits)', u) + Sum(Paid', u)
          + Sum(Bets("lost")', u)) - (Opening[u] + Sum(Booked(Deposits)', u)) = 0
    BY <1>1, <2>1 DEF LedgerGap, Balanced
  <2> QED BY <1>1, <2>2 DEF SumsTyped
<1>4. LockedMatchesCodes' BY <1>2 DEF LockedMatchesCodes
<1>5. WalletMatchesLedger' BY <1>3 DEF WalletMatchesLedger
<1> QED BY <1>4, <1>5 DEF Money

\* A step that moves none of it.
LEMMA IdleMoney ==
    ASSUME Money, UNCHANGED <<balance, locked, bet, row>>,
           Outstanding' = Outstanding, Paid' = Paid
    PROVE  Money'
<1>1. /\ Bets("pending")' = Bets("pending") /\ Bets("lost")' = Bets("lost")
      /\ Booked(Deposits)' = Booked(Deposits)
      /\ Booked(Key \ Deposits)' = Booked(Key \ Deposits)
  BY DEF Bets, Booked
<1>2. WalletTyped' BY DEF Money, WalletTyped
<1>3. ASSUME NEW u \in User PROVE Balanced(u)
  <2>1. /\ balance'[u] = balance[u] /\ locked'[u] = locked[u]
        /\ balance[u] \in Nat /\ locked[u] \in Nat
    BY DEF Money, WalletTyped
  <2>sums. SumsTyped(u) /\ SumsTyped(u)' BY PartsTyped
  <2> QED BY <1>1, <2>1, <2>sums DEF Balanced, LockedGap, LedgerGap, SumsTyped
<1> QED BY <1>2, <1>3, BalancedStep

LEMMA CreateMoney ==
    ASSUME Inv, Money, NEW c \in Code, CreateCode(c)
    PROVE  Money'
<1>1. /\ Outstanding' = Outstanding \cup {c} /\ c \notin Outstanding /\ Paid' = Paid
  BY CounterAssumption DEF CreateCode, Inv, CodesTyped, CodeSettledOnce, Outstanding, Paid
<1>2. /\ Bets("pending")' = Bets("pending") /\ Bets("lost")' = Bets("lost")
      /\ Booked(Deposits)' = Booked(Deposits)
      /\ Booked(Key \ Deposits)' = Booked(Key \ Deposits)
  BY DEF CreateCode, Bets, Booked
<1>3. c \in Thing /\ Owner[c] \in User /\ Amount[c] \in Nat BY CounterAssumption DEF Thing
<1>4. ASSUME NEW u \in User PROVE Balanced(u)
  <2>1. Sum(Outstanding', u) = Sum(Outstanding, u) + Mine(c, u) BY <1>1, <1>3, Parts, SumWith
  <2>2. /\ balance'[u] = balance[u] - Mine(c, u) /\ balance'[u] \in Nat
        /\ locked'[u] = locked[u] + Mine(c, u) /\ locked'[u] \in Nat
        /\ balance[u] \in Nat /\ locked[u] \in Nat /\ Mine(c, u) \in Nat
    BY <1>3 DEF CreateCode, Money, WalletTyped, Mine
  <2>sums. SumsTyped(u) /\ SumsTyped(u)' BY PartsTyped
  <2> QED BY <1>1, <1>2, <2>1, <2>2, <2>sums DEF Balanced, LockedGap, LedgerGap, SumsTyped
<1>5. WalletTyped'
  BY <1>3 DEF CreateCode, Money, WalletTyped
<1> QED BY <1>4, <1>5, BalancedStep

\* Codes that are outstanding are put back in full: the locked balance covers them.
LEMMA UnlockInFull ==
    ASSUME Money, NEW C \in SUBSET Outstanding, Unlock(C)
    PROVE  /\ WalletTyped' \/ bet' # bet
           /\ \A u \in User : /\ balance'[u] = balance[u] + Sum(C, u)
                              /\ locked'[u] = locked[u] - Sum(C, u)
<1>1. ASSUME NEW u \in User
      PROVE  /\ Sum(C, u) <= locked[u] /\ Sum(C, u) \in Nat
             /\ balance[u] \in Nat /\ locked[u] \in Nat
  <2>1. Sum(C, u) <= Sum(Outstanding, u) /\ Sum(C, u) \in Nat
    <3>1. C \in SUBSET Thing BY Parts
    <3> QED BY <3>1, Parts, SumWithout, SumType
  <2>2. locked[u] = Sum(Outstanding, u) + Sum(Bets("pending"), u)
    BY DEF Money, LockedMatchesCodes
  <2>3. balance[u] \in Nat /\ locked[u] \in Nat BY DEF Money, WalletTyped
  <2>sums. SumsTyped(u) /\ SumsTyped(u)' BY PartsTyped
  <2> QED BY <2>1, <2>2, <2>3, <2>sums DEF SumsTyped
<1>2. \A u \in User : /\ balance'[u] = balance[u] + Sum(C, u)
                      /\ locked'[u] = locked[u] - Sum(C, u)
  BY <1>1 DEF Unlock
<1>3. balance' \in [User -> Nat] /\ locked' \in [User -> Nat] BY <1>1 DEF Unlock
<1> QED BY <1>2, <1>3 DEF WalletTyped, Money

LEMMA PutBackMoney ==
    ASSUME Money, NEW C \in SUBSET Outstanding, Unlock(C),
           Outstanding' = Outstanding \ C, UNCHANGED <<payer, row, bet>>
    PROVE  Money'
<1>1. /\ Bets("pending")' = Bets("pending") /\ Bets("lost")' = Bets("lost")
      /\ Booked(Deposits)' = Booked(Deposits)
      /\ Booked(Key \ Deposits)' = Booked(Key \ Deposits) /\ Paid' = Paid
  BY DEF Bets, Booked, Paid
<1>2. ASSUME NEW u \in User PROVE Balanced(u)
  <2>1. Sum(Outstanding', u) = Sum(Outstanding, u) - Sum(C, u) BY Parts, SumWithout
  <2>2. balance'[u] = balance[u] + Sum(C, u) /\ locked'[u] = locked[u] - Sum(C, u)
    BY UnlockInFull
  <2>3. balance[u] \in Nat /\ locked[u] \in Nat BY DEF Money, WalletTyped
  <2>4. Sum(C, u) \in Nat
    <3>1. C \in SUBSET Thing BY Parts
    <3> QED BY <3>1, SumType
  <2>sums. SumsTyped(u) /\ SumsTyped(u)' BY PartsTyped
  <2> QED BY <1>1, <2>1, <2>2, <2>3, <2>4, <2>sums DEF Balanced, LockedGap, LedgerGap, SumsTyped
<1>3. WalletTyped' BY UnlockInFull
<1> QED BY <1>2, <1>3, BalancedStep

LEMMA CodesMoney ==
    ASSUME Inv, Money, NEW c \in Code, Lapse(c) \/ CancelCode(c)
    PROVE  Money'
<1>1. CASE Lapse(c)
  <2>1. Outstanding' = Outstanding /\ Paid' = Paid BY <1>1 DEF Lapse, Outstanding, Paid
  <2> QED BY <1>1, <2>1, IdleMoney DEF Lapse, walletVars
<1>2. CASE CancelCode(c)
  <2>1. c \in Outstanding BY <1>2 DEF CancelCode, Inv, CodeSettledOnce, Outstanding
  <2>2. Outstanding' = Outstanding \ {c}
    BY <1>2 DEF CancelCode, Unlock, Inv, CodesTyped, CodeSettledOnce, Outstanding
  <2> QED BY <1>2, <2>1, <2>2, PutBackMoney DEF CancelCode
<1> QED BY <1>1, <1>2

LEMMA ExpiryMoney ==
    ASSUME Inv, Money, SweepExpired \/ LookUpCode
    PROVE  Money'
<1>1. CASE SweepExpired
  <2>1. Overdue \in SUBSET Outstanding
    BY DEF Overdue, Inv, CodesTyped, CodeSettledOnce, Outstanding
  <2>2. Outstanding' = Outstanding \ Overdue
    BY <1>1 DEF SweepExpired, Expire, Unlock, Overdue, Inv, CodesTyped, Outstanding
  <2> QED BY <1>1, <2>1, <2>2, PutBackMoney DEF SweepExpired
<1>2. CASE LookUpCode
  <2>1. Outstanding' = Outstanding /\ Paid' = Paid
    BY <1>2 DEF LookUpCode, Expire, Overdue, Outstanding, Paid
  <2> QED BY <1>2, <2>1, IdleMoney DEF LookUpCode, walletVars
<1> QED BY <1>1, <1>2

LEMMA ProcessMoney ==
    ASSUME Inv, Money, NEW c \in Code, NEW k \in Cashier, ProcessCode(c, k)
    PROVE  Money'
<1>1. /\ Outstanding' = Outstanding \ {c} /\ c \in Outstanding
      /\ Paid' = Paid \cup {c} /\ c \notin Paid
  BY CounterAssumption DEF ProcessCode, Inv, CodesTyped, CodeSettledOnce, Outstanding, Paid
<1>2. /\ Bets("pending")' = Bets("pending") /\ Bets("lost")' = Bets("lost")
      /\ Booked(Deposits)' = Booked(Deposits)
      /\ Booked(Key \ Deposits)' = Booked(Key \ Deposits)
  BY DEF ProcessCode, Bets, Booked
<1>3. c \in Thing /\ Owner[c] \in User /\ Amount[c] \in Nat BY CounterAssumption DEF Thing
<1>4. ASSUME NEW u \in User PROVE Balanced(u)
  <2>1. Sum(Outstanding', u) = Sum(Outstanding, u) - Mine(c, u)
    BY <1>1, <1>3, Parts, SumWithoutOne
  <2>2. Sum(Paid', u) = Sum(Paid, u) + Mine(c, u) BY <1>1, <1>3, Parts, SumWith
  <2>3. /\ balance'[u] = balance[u] /\ locked'[u] = locked[u] - Mine(c, u)
        /\ balance[u] \in Nat /\ locked[u] \in Nat /\ Mine(c, u) \in Nat
    BY <1>3 DEF ProcessCode, Money, WalletTyped, Mine
  <2>sums. SumsTyped(u) /\ SumsTyped(u)' BY PartsTyped
  <2> QED BY <1>1, <1>2, <2>1, <2>2, <2>3, <2>sums DEF Balanced, LockedGap, LedgerGap, SumsTyped
<1>5. WalletTyped'
  BY <1>3 DEF ProcessCode, Money, WalletTyped
<1> QED BY <1>4, <1>5, BalancedStep

-----------------------------------------------------------------------------
(* Stakes and operations at the counter.                                   *)

LEMMA PlaceMoney ==
    ASSUME Money, NEW b \in Bet, PlaceBet(b)
    PROVE  Money'
<1>1. /\ Outstanding' = Outstanding /\ Paid' = Paid
      /\ Bets("lost")' = Bets("lost")
      /\ Bets("pending")' = Bets("pending") \cup {b} /\ b \notin Bets("pending")
      /\ Booked(Deposits)' = Booked(Deposits)
      /\ Booked(Key \ Deposits)' = Booked(Key \ Deposits)
  BY DEF PlaceBet, Money, WalletTyped, Outstanding, Paid, Bets, Booked, codeVars
<1>2. b \in Thing /\ Owner[b] \in User /\ Amount[b] \in Nat BY CounterAssumption DEF Thing
<1>3. ASSUME NEW u \in User PROVE Balanced(u)
  <2>1. Sum(Bets("pending")', u) = Sum(Bets("pending"), u) + Mine(b, u)
    BY <1>1, <1>2, Parts, SumWith
  <2>2. /\ balance'[u] = balance[u] - Mine(b, u) /\ locked'[u] = locked[u] + Mine(b, u)
        /\ balance[u] \in Nat /\ locked[u] \in Nat /\ Mine(b, u) \in Nat
    BY <1>2 DEF PlaceBet, Money, WalletTyped, Mine
  <2>sums. SumsTyped(u) /\ SumsTyped(u)' BY PartsTyped
  <2> QED BY <1>1, <2>1, <2>2, <2>sums DEF Balanced, LockedGap, LedgerGap, SumsTyped
<1>4. WalletTyped'
  BY <1>2 DEF PlaceBet, Money, WalletTyped
<1> QED BY <1>3, <1>4, BalancedStep

\* The stake is covered by what is locked, so that nothing is lost at zero.
LEMMA SettleMoney ==
    ASSUME Money, NEW b \in Bet, NEW outcome \in {"lost", "void"}, SettleBet(b, outcome)
    PROVE  Money'
<1> DEFINE lost == IF outcome = "lost" THEN {b} ELSE {}
<1>1. /\ Outstanding' = Outstanding /\ Paid' = Paid
      /\ Bets("pending")' = Bets("pending") \ {b} /\ b \in Bets("pending")
      /\ Bets("lost")' = Bets("lost") \cup lost /\ b \notin Bets("lost")
      /\ Booked(Deposits)' = Booked(Deposits)
      /\ Booked(Key \ Deposits)' = Booked(Key \ Deposits)
  BY DEF SettleBet, Money, WalletTyped, Outstanding, Paid, Bets, Booked, codeVars
<1>2. b \in Thing /\ Owner[b] \in User /\ Amount[b] \in Nat BY CounterAssumption DEF Thing
<1>3. ASSUME NEW u \in User
      PROVE  /\ Mine(b, u) \in Nat /\ Mine(b, u) <= locked[u]
             /\ balance[u] \in Nat /\ locked[u] \in Nat
             /\ Sum(Bets("pending")', u) = Sum(Bets("pending"), u) - Mine(b, u)
  <2>1. /\ Sum(Bets("pending")', u) = Sum(Bets("pending"), u) - Mine(b, u)
        /\ Mine(b, u) <= Sum(Bets("pending"), u) /\ Mine(b, u) \in Nat
    BY <1>1, <1>2, Parts, SumWithoutOne
  <2>2. locked[u] = Sum(Outstanding, u) + Sum(Bets("pending"), u)
    BY DEF Money, LockedMatchesCodes
  <2>3. balance[u] \in Nat /\ locked[u] \in Nat BY DEF Money, WalletTyped
  <2>sums. SumsTyped(u) /\ SumsTyped(u)' BY PartsTyped
  <2> QED BY <2>1, <2>2, <2>3, <2>sums DEF SumsTyped
<1>4. Amount[b] <= locked[Owner[b]] BY <1>2, <1>3 DEF Mine
<1>5. ASSUME NEW u \in User PROVE Balanced(u)
  <2>1. Sum(Bets("lost")', u)
          = Sum(Bets("lost"), u) + (IF outcome = "lost" THEN Mine(b, u) ELSE 0)
    <3>1. CASE outcome = "lost" BY <1>1, <1>2, <3>1, Parts, SumWith
    <3>2. CASE outcome = "void"
      <4>1. Bets("lost")' = Bets("lost") BY <1>1, <3>2
      <4>sums. SumsTyped(u) /\ SumsTyped(u)' BY PartsTyped
      <4> QED BY <3>2, <4>1, <4>sums DEF SumsTyped
    <3> QED BY <3>1, <3>2
  <2>2. /\ locked'[u] = locked[u] - Mine(b, u)
        /\ balance'[u] = balance[u] + (IF outcome = "lost" THEN 0 ELSE Mine(b, u))
    BY <1>2, <1>3, <1>4 DEF SettleBet, Money, WalletTyped, Mine
  <2>sums. SumsTyped(u) /\ SumsTyped(u)' BY PartsTyped
  <2>3. CASE outcome = "lost"
    BY <1>1, <1>3, <2>1, <2>2, <2>3, <2>sums DEF Balanced, LockedGap, LedgerGap, SumsTyped
  <2>4. CASE outcome = "void"
    BY <1>1, <1>3, <2>1, <2>2, <2>4, <2>sums DEF Balanced, LockedGap, LedgerGap, SumsTyped
  <2> QED BY <2>3, <2>4
<1>6. WalletTyped'
  BY <1>2, <1>4 DEF SettleBet, Money, WalletTyped
<1> QED BY <1>5, <1>6, BalancedStep

LEMMA CommitMoney ==
    ASSUME Inv, Money, NEW x \in Session, CommitOperation(x)
    PROVE  Money'
<1> DEFINE k == session[x].key
<1>1. /\ Outstanding' = Outstanding /\ Paid' = Paid
      /\ Bets("pending")' = Bets("pending") /\ Bets("lost")' = Bets("lost")
  BY DEF CommitOperation, Outstanding, Paid, Bets, codeVars
<1>2. k \in Key /\ session[x].shift # None
  BY CounterAssumption DEF CommitOperation, Inv, BooksTyped
<1>3. k \in Thing /\ Owner[k] \in User /\ Amount[k] \in Nat
  BY <1>2, CounterAssumption DEF Thing
<1>4. \A K \in SUBSET Key :
        /\ k \in K => Booked(K)' = Booked(K) \cup {k} /\ k \notin Booked(K)
        /\ k \notin K => Booked(K)' = Booked(K)
  BY <1>2 DEF CommitOperation, Inv, BooksTyped, Booked
<1>5. Deposits \in SUBSET Key /\ Key \ Deposits \in SUBSET Key BY CounterAssumption
<1> HIDE DEF k
<1>6. ASSUME NEW u \in User PROVE Balanced(u)
  <2>1. /\ balance[u] \in Nat /\ locked[u] \in Nat /\ locked'[u] = locked[u]
        /\ Mine(k, u) \in Nat
        /\ balance'[u] = IF k \in Deposits THEN balance[u] + Mine(k, u)
                                           ELSE balance[u] - Mine(k, u)
    BY <1>3 DEF CommitOperation, Money, WalletTyped, Mine, k
  <2>2. CASE k \in Deposits
    <3>1. Sum(Booked(Deposits)', u) = Sum(Booked(Deposits), u) + Mine(k, u)
      BY <1>3, <1>4, <1>5, <2>2, Parts, SumWith
    <3>2. Booked(Key \ Deposits)' = Booked(Key \ Deposits) BY <1>4, <1>5, <2>2
    <3>sums. SumsTyped(u) /\ SumsTyped(u)' BY PartsTyped
    <3>3. /\ balance[u] \in Nat /\ locked[u] \in Nat /\ locked'[u] = locked[u]
          /\ Mine(k, u) \in Nat /\ balance'[u] = balance[u] + Mine(k, u)
      BY <2>1, <2>2
    <3>4. LedgerGap(u)' = LedgerGap(u)
      <4>1. Opening[u] \in Nat BY CounterAssumption
      <4> QED BY <1>1, <3>1, <3>2, <3>3, <3>sums, <4>1 DEF LedgerGap, SumsTyped
    <3>5. LockedGap(u)' = LockedGap(u) BY <1>1, <3>3 DEF LockedGap
    <3> QED BY <3>4, <3>5 DEF Balanced
  <2>3. CASE k \notin Deposits
    <3>1. Sum(Booked(Key \ Deposits)', u) = Sum(Booked(Key \ Deposits), u) + Mine(k, u)
      <4>1. k \in Key \ Deposits BY <1>2, <2>3 DEF k
      <4> QED BY <1>3, <1>4, <1>5, <4>1, Parts, SumWith
    <3>2. Booked(Deposits)' = Booked(Deposits) BY <1>4, <1>5, <2>3
    <3>3. /\ balance[u] \in Nat /\ locked[u] \in Nat /\ locked'[u] = locked[u]
          /\ Mine(k, u) \in Nat /\ balance'[u] = balance[u] - Mine(k, u)
      BY <2>1, <2>3
    <3>sums. SumsTyped(u) /\ SumsTyped(u)' BY PartsTyped
    <3>4. LedgerGap(u)' = LedgerGap(u)
      <4>1. Opening[u] \in Nat BY CounterAssumption
      <4> QED BY <1>1, <3>1, <3>2, <3>3, <3>sums, <4>1 DEF LedgerGap, SumsTyped
    <3>5. LockedGap(u)' = LockedGap(u) BY <1>1, <3>3 DEF LockedGap
    <3> QED BY <3>4, <3>5 DEF Balanced
  <2> QED BY <2>2, <2>3
<1>7. WalletTyped' BY <1>3 DEF CommitOperation, Money, WalletTyped, k
<1> QED BY <1>6, <1>7, BalancedStep

-----------------------------------------------------------------------------
LEMMA StepMoney == ASSUME Inv, Money, [Next]_vars PROVE Money'
<1>1. CASE UNCHANGED vars
  <2>1. Outstanding' = Outstanding /\ Paid' = Paid
    BY <1>1 DEF vars, codeVars, Outstanding, Paid
  <2> QED BY <1>1, <2>1, IdleMoney DEF vars, walletVars
<1>2. CASE Next
  <2>1. ASSUME UNCHANGED <<walletVars, codeVars, row, bet>> PROVE Money'
    <3>1. Outstanding' = Outstanding /\ Paid' = Paid BY <2>1 DEF codeVars, Outstanding, Paid
    <3> QED BY <2>1, <3>1, IdleMoney DEF walletVars
  <2>2. CASE Counter
    BY <2>1, <2>2, CommitMoney
       DEF Counter, AbortOperation, RecordCount, BeginOperation, CountShift, OpenShift
  <2> QED
    BY <1>2, <2>2, CreateMoney, CodesMoney, ExpiryMoney, ProcessMoney, PlaceMoney, SettleMoney
       DEF Next
<1> QED BY <1>1, <1>2

\* The inductive invariant of the wallets.
THEOREM MoneyInvariance == Spec => []Money
<1>1. Init => Money BY InitMoney
<1>2. Inv /\ Money /\ [Next]_vars => Money' BY StepMoney
<1> QED BY <1>1, <1>2, Invariance, PTL DEF Spec

\* What is locked of a player is what his codes and open stakes add up to, for any
\* number of players, codes and bets and whatever their amounts.
THEOREM LockedCorrect == Spec => []LockedMatchesCodes
BY MoneyInvariance, PTL DEF Money

\* A player's wallet is what he began with and what the ledger says since, whatever
\* requests are repeated and in whatever order they commit.
THEOREM WalletCorrect == Spec => []WalletMatchesLedger
BY MoneyInvariance, PTL DEF Money

-----------------------------------------------------------------------------
(* Counts are typed, which completes the type invariant.                   *)

LEMMA CashTyped == ASSUME NEW K \in SUBSET Key, NEW s PROVE CashOf(s, K) \in Nat
<1>1. {k \in K : row[k] = s} \in SUBSET (Code \cup Key \cup Bet) OBVIOUS
<1>2. IsFiniteSet({k \in K : row[k] = s}) BY <1>1, CounterAssumption, FS_Subset
<1>3. \A k \in {k \in K : row[k] = s} : Amount[k] \in Nat BY <1>1, CounterAssumption
<1> QED BY <1>2, <1>3, SumNat DEF CashOf

CountsTyped == count \in [Shift -> CountRecord] /\ closing \in [Session -> CountRecord]

LEMMA StepCountsTyped == ASSUME Inv, CountsTyped, [Next]_vars PROVE CountsTyped'
<1> USE DEF CountsTyped
<1>1. CASE UNCHANGED <<count, closing>> BY <1>1
<1>2. CASE \E x \in Session : RecordCount(x) BY <1>2 DEF RecordCount, CountRecord, NoCount
<1>3. CASE \E x \in Session, k \in Cashier : CountShift(x, k)
  <2>1. Deposits \in SUBSET Key /\ Key \ Deposits \in SUBSET Key BY CounterAssumption
  <2>2. PICK x \in Session, k \in Cashier, s \in Shift :
          closing' = [closing EXCEPT ![x] =
            [shift |-> s, in |-> CashOf(s, Deposits), out |-> CashOf(s, Key \ Deposits)]]
    BY <1>3 DEF CountShift, OpenShifts
  <2>3. UNCHANGED count BY <1>3 DEF CountShift
  <2>4. CashOf(s, Deposits) \in Nat /\ CashOf(s, Key \ Deposits) \in Nat BY <2>1, CashTyped
  <2> QED BY <2>2, <2>3, <2>4 DEF CountRecord
<1>4. CASE Next
  BY <1>1, <1>2, <1>3, <1>4
     DEF Next, Counter, shiftVars, CommitOperation, AbortOperation, BeginOperation, OpenShift,
         SweepExpired, LookUpCode, CreateCode, Lapse, CancelCode, ProcessCode, PlaceBet, SettleBet
<1> QED BY <1>1, <1>4 DEF vars, shiftVars

\* No wallet is negative, and every status and count is one its table can hold.
THEOREM TypeCorrect == Spec => []TypeOK
<1>1. Init => CountsTyped BY DEF Init, CountsTyped, CountRecord, NoCount
<1>2. Inv /\ CountsTyped /\ [Next]_vars => CountsTyped' BY StepCountsTyped
<1>3. Inv /\ Money /\ CountsTyped => TypeOK BY DEF Inv, Money, WalletTyped, CountsTyped, TypeOK
<1> QED BY <1>1, <1>2, <1>3, Invariance, MoneyInvariance, PTL DEF Spec

-----------------------------------------------------------------------------
(* The codes are cash that is held.                                        *)

places == [c \in Code |-> Place(c)]

LEMMA InitHeld == ASSUME Init PROVE Held!Init
BY CounterAssumption DEF Init, Held!Init, Place

\* A step that leaves the codes alone and moves one wallet at most.
LEMMA ElsewhereHeld ==
    ASSUME UNCHANGED <<payer, returned>>, Paid' = Paid,
           \A c \in Code : (code'[c] = "absent") = (code[c] = "absent"),
           NEW u \in User, \A v \in User \ {u} : balance'[v] = balance[v]
    PROVE  Held!Next
<1>1. \A c \in Code : Place(c)' = Place(c) BY DEF Place
<1>2. places' = places BY <1>1 DEF places
<1> QED BY <1>2 DEF places, Held!Next, Held!OtherBusiness

LEMMA IssueHeld == ASSUME Inv, Money, NEW c \in Code, CreateCode(c) PROVE Held!Next
<1>1. places[c] = "idle" /\ Amount[c] <= balance[Owner[c]]
  BY DEF CreateCode, Inv, CodesTyped, CodeSettledOnce, places, Place
<1>2. places' = [places EXCEPT ![c] = "held"]
  BY DEF CreateCode, Inv, CodesTyped, CodeSettledOnce, places, Place
<1>3. balance' = [balance EXCEPT ![Owner[c]] = @ - Amount[c]] BY DEF CreateCode
<1> QED BY <1>1, <1>2, <1>3 DEF places, Held!Next, Held!Hold

LEMMA PayHeld ==
    ASSUME Inv, NEW c \in Code, NEW k \in Cashier, ProcessCode(c, k) PROVE Held!Next
<1>1. places[c] = "held"
  BY DEF ProcessCode, Inv, CodesTyped, CodeSettledOnce, places, Place
<1>2. places' = [places EXCEPT ![c] = "paid"]
  BY CounterAssumption DEF ProcessCode, Inv, CodesTyped, CodeSettledOnce, places, Place
<1>3. UNCHANGED balance BY DEF ProcessCode
<1> QED BY <1>1, <1>2, <1>3 DEF places, Held!Next, Held!HandOut

\* What the locked balance covers in full is put back in full.
LEMMA PutBackHeld ==
    ASSUME Inv, Money, NEW C \in SUBSET Outstanding, Unlock(C), UNCHANGED payer,
           \A c \in Code \ C : (code'[c] = "absent") = (code[c] = "absent"),
           \A c \in Code : code[c] # "absent" => code'[c] # "absent"
    PROVE  Held!Next
<1>1. C \in SUBSET Code /\ \A c \in C : places[c] = "held"
  BY DEF Outstanding, places, Place
<1>2. places' = [c \in Code |-> IF c \in C THEN "returned" ELSE places[c]]
  BY DEF Unlock, Outstanding, places, Place
<1>3. balance' = [u \in User |-> balance[u] + Held!Worth(C, u)]
  <2>1. balance' = [u \in User |-> balance'[u]] BY DEF Unlock
  <2>2. \A u \in User : balance'[u] = balance[u] + Sum(C, u) BY UnlockInFull
  <2>3. ASSUME NEW u \in User PROVE Held!Worth(C, u) = Sum(C, u)
    <3>1. {c \in C : Owner[c] = u} = Of(C, u) BY DEF Of
    <3>2. Sum(C, u) = SumFunctionOnSet(Amount, Of(C, u)) BY DEF Of, Sum
    <3> QED
      BY <3>1, <3>2
         DEF Held!Worth, Held!SumFunctionOnSet, Held!FoldFunctionOnSet, Held!MapThenFoldSet,
             SumFunctionOnSet, FoldFunctionOnSet, MapThenFoldSet
  <2> QED BY <2>1, <2>2, <2>3
<1> QED BY <1>1, <1>2, <1>3 DEF places, Held!Next, Held!PutBack

LEMMA StepHeld == ASSUME Inv, Money, [Next]_vars PROVE [Held!Next]_(Held!vars)
<1>1. ASSUME UNCHANGED <<balance, codeVars>> PROVE UNCHANGED Held!vars
  BY <1>1 DEF Held!vars, codeVars, Place
<1>2. CASE UNCHANGED vars BY <1>1, <1>2 DEF vars, walletVars
<1>3. CASE Counter
  <2>1. CASE \E x \in Session : CommitOperation(x)
    <3>1. PICK x \in Session : CommitOperation(x) BY <2>1
    <3>2. Owner[session[x].key] \in User
      BY <3>1, CounterAssumption DEF CommitOperation, Inv, BooksTyped
    <3>3. \A v \in User \ {Owner[session[x].key]} : balance'[v] = balance[v]
      BY <3>1 DEF CommitOperation, Money, WalletTyped
    <3>4. UNCHANGED codeVars BY <3>1 DEF CommitOperation
    <3> QED BY <3>2, <3>3, <3>4, ElsewhereHeld DEF codeVars, Paid
  <2>2. CASE ~ \E x \in Session : CommitOperation(x)
    BY <1>1, <1>3, <2>2
       DEF Counter, AbortOperation, RecordCount, BeginOperation, CountShift, OpenShift, walletVars
  <2> QED BY <2>1, <2>2
<1>4. ASSUME NEW c \in Code, Lapse(c) PROVE UNCHANGED Held!vars
  BY <1>4 DEF Lapse, walletVars, Held!vars, Place
<1>5. ASSUME NEW c \in Code, CancelCode(c) PROVE Held!Next
  <2>1. c \in Outstanding BY <1>5 DEF CancelCode, Inv, CodeSettledOnce, Outstanding
  <2> QED BY <1>5, <2>1, PutBackHeld DEF CancelCode, Inv, CodesTyped
<1>6. CASE SweepExpired
  <2>1. Overdue \in SUBSET Outstanding
    BY DEF Overdue, Inv, CodesTyped, CodeSettledOnce, Outstanding
  <2>2. \A c \in Code : (code'[c] = "absent") = (code[c] = "absent")
    BY <1>6 DEF SweepExpired, Expire, Overdue
  <2> QED BY <1>6, <2>1, <2>2, PutBackHeld DEF SweepExpired
<1>7. CASE LookUpCode
  <2>1. \A c \in Code : (code'[c] = "absent") = (code[c] = "absent")
    BY <1>7 DEF LookUpCode, Expire, Overdue
  <2> QED BY <1>7, <2>1 DEF LookUpCode, walletVars, Held!vars, Place
<1>8. ASSUME NEW b \in Bet,
             PlaceBet(b) \/ \E outcome \in {"lost", "void"} : SettleBet(b, outcome)
      PROVE  Held!Next
  <2>1. Owner[b] \in User BY CounterAssumption
  <2>2. \A v \in User \ {Owner[b]} : balance'[v] = balance[v]
    BY <1>8 DEF PlaceBet, SettleBet, Money, WalletTyped
  <2>3. UNCHANGED codeVars BY <1>8 DEF PlaceBet, SettleBet
  <2> QED BY <2>1, <2>2, <2>3, ElsewhereHeld DEF codeVars, Paid
<1> QED BY <1>2, <1>3, <1>4, <1>5, <1>6, <1>7, <1>8, IssueHeld, PayHeld DEF Next

\* The codes are cash that is held: whatever moves the wallet meanwhile, a code is
\* put back or paid once and in full.
THEOREM ImplementsHeldCash == Spec => CodesAreHeldCash
<1>1. Init => Held!Init BY InitHeld
<1>2. Inv /\ Money /\ [Next]_vars => [Held!Next]_(Held!vars) BY StepHeld
<1> QED
  BY <1>1, <1>2, Invariance, MoneyInvariance, PTL DEF Spec, CodesAreHeldCash, Held!Spec
=============================================================================
