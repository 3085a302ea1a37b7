---------------------------- MODULE WalletProofs ----------------------------
(***************************************************************************)
(* What Wallet guarantees for any number of requests, payments and prices. *)
(* The argument: whoever is between "dedupe" and the commit of a webhook   *)
(* is alone in holding the wallet's lock, so what it has read, the balance *)
(* and the absence of the payment, is still true when it writes; everybody *)
(* else writes without having locked, but only ever a balance it checked.  *)
(***************************************************************************)
EXTENDS Wallet, SumTheorems

Locked(r) == pc[r] \in {"dedupe", "credit"}

(* The wallet's exclusive lock excludes every other holder. *)
LockInv ==
    /\ \A r, q \in Request : Locked(r) /\ Locked(q) => r = q
    /\ \A r, q \in Request : Locked(r) => pc[q] # "inserted"
    /\ \A r \in Request : Locked(r) => open
    /\ \A r \in Request : pc[r] = "created" => ~open
    /\ \A r, q \in Request : pc[r] = "created" /\ pc[q] = "created" => r = q

(* What a request knows when it comes to write. *)
KnowInv ==
    /\ \A r \in Request : seen[r] >= 0
    /\ \A r \in Request : pc[r] = "charge" => amount[r] <= seen[r]
    /\ \A r \in Request : Locked(r) =>
          payment[r] \in Payment /\ amount[r] = Paid[payment[r]] /\ seen[r] = balance
    /\ \A r \in Request : pc[r] = "credit" => ~Booked(payment[r])
    /\ \A r \in Request : ~Locked(r) => payment[r] = NoPayment

Inv == TypeOK /\ LockInv /\ KnowInv /\ PaymentOnce /\ BalanceNeverNegative

(* The initial states: no wallet, no rows, no requests. *)
LEMMA InitInv == Init => Inv
  <1> SUFFICES ASSUME Init PROVE Inv
    OBVIOUS
  <1>1. TypeOK
    <2>1. ledger \in Seq(Entry)
      BY DEF Init
    <2>2. pc \in [Request -> Step]
      BY DEF Init, Step
    <2>3. payment \in [Request -> Payment \cup {NoPayment}]
      BY DEF Init
    <2>4. amount \in [Request -> Nat] /\ seen \in [Request -> Int]
      BY DEF Init
    <2>5. open \in BOOLEAN
      BY DEF Init
    <2>6. balance \in Int
      BY DEF Init
    <2> QED
      BY <2>1, <2>2, <2>3, <2>4, <2>5, <2>6 DEF TypeOK
  <1>2. LockInv
    BY DEF Init, LockInv, Locked
  <1>3. KnowInv
    BY DEF Init, KnowInv, Locked
  <1>4. PaymentOnce /\ BalanceNeverNegative
    BY DEF Init, PaymentOnce, BalanceNeverNegative
  <1> QED
    BY <1>1, <1>2, <1>3, <1>4 DEF Inv

(* What a write does to the balance and the transaction rows. *)
LEMMA BookType ==
  ASSUME TypeOK, NEW r \in Request, NEW a \in Int, Book(r, a)
  PROVE  /\ balance' \in Int
         /\ ledger' \in Seq(Entry)
         /\ balance' = balance \/ balance' = seen[r] + a
         /\ \/ ledger' = ledger /\ balance' = balance
            \/ /\ Len(ledger') = Len(ledger) + 1
               /\ \A i \in 1 .. Len(ledger) : ledger'[i] = ledger[i]
               /\ ledger'[Len(ledger) + 1].payment = payment[r]
               /\ balance' = seen[r] + a
  <1> DEFINE e == [amount |-> a, balance_after |-> seen[r] + a, payment |-> payment[r]]
  <1>1. e \in Entry
    BY DEF TypeOK, Entry
  <1>2. CASE Len(ledger) < MaxLedger
    <2>1. balance' = seen[r] + a /\ ledger' = Append(ledger, e)
      BY <1>2 DEF Book
    <2>2. ledger \in Seq(Entry) /\ seen[r] \in Int
      BY DEF TypeOK
    <2> HIDE DEF e
    <2>3. ledger' \in Seq(Entry) /\ Len(ledger') = Len(ledger) + 1
      BY <1>1, <2>1, <2>2
    <2>4. /\ \A i \in 1 .. Len(ledger) : ledger'[i] = ledger[i]
          /\ ledger'[Len(ledger) + 1] = e
      BY <1>1, <2>1, <2>2
    <2>5. e.payment = payment[r]
      BY DEF e
    <2> QED
      BY <2>1, <2>2, <2>3, <2>4, <2>5
  <1>3. CASE ~(Len(ledger) < MaxLedger)
    BY <1>3 DEF Book, TypeOK
  <1> QED
    BY <1>2, <1>3

(* The transaction rows after a write: at most one more, with the request's payment. *)
LEMMA BookedBy ==
  ASSUME TypeOK, NEW r \in Request, NEW a \in Int, Book(r, a), NEW p, Booked(p)', ~Booked(p)
  PROVE  p = payment[r] /\ balance' = seen[r] + a
  <1>1. PICK i \in DOMAIN ledger' : ledger'[i].payment = p
    BY DEF Booked
  <1>2. ledger' \in Seq(Entry) /\ ledger \in Seq(Entry)
    BY BookType DEF TypeOK
  <1>3. CASE ledger' = ledger
    BY <1>3, <1>1 DEF Booked
  <1>4. CASE ledger' # ledger
    <2>1. /\ Len(ledger') = Len(ledger) + 1
          /\ \A j \in 1 .. Len(ledger) : ledger'[j] = ledger[j]
          /\ ledger'[Len(ledger) + 1].payment = payment[r]
          /\ balance' = seen[r] + a
      BY <1>4, BookType
    <2>2. i \in 1 .. Len(ledger) \/ i = Len(ledger) + 1
      BY <1>1, <1>2, <2>1
    <2>3. i \notin 1 .. Len(ledger)
      BY <1>1, <1>2, <2>1 DEF Booked
    <2> QED
      BY <1>1, <2>1, <2>2, <2>3
  <1> QED
    BY <1>3, <1>4

(* A write keeps payments apart if its own payment was not in the rows yet. *)
LEMMA BookOnce ==
  ASSUME TypeOK, PaymentOnce, NEW r \in Request, NEW a \in Int, Book(r, a),
         payment[r] # NoPayment => ~Booked(payment[r])
  PROVE  PaymentOnce'
  <1>1. ledger \in Seq(Entry) /\ ledger' \in Seq(Entry)
    BY BookType DEF TypeOK
  <1>2. CASE ledger' = ledger
    BY <1>2 DEF PaymentOnce
  <1>3. CASE ledger' # ledger
    <2>1. /\ Len(ledger') = Len(ledger) + 1
          /\ \A j \in 1 .. Len(ledger) : ledger'[j] = ledger[j]
          /\ ledger'[Len(ledger) + 1].payment = payment[r]
      BY <1>3, BookType
    <2> SUFFICES ASSUME NEW i \in DOMAIN ledger', NEW j \in DOMAIN ledger',
                        ledger'[i].payment = ledger'[j].payment,
                        ledger'[i].payment # NoPayment
                 PROVE  i = j
      BY DEF PaymentOnce
    <2>2. /\ i \in 1 .. Len(ledger) \/ i = Len(ledger) + 1
          /\ j \in 1 .. Len(ledger) \/ j = Len(ledger) + 1
      BY <1>1, <2>1
    <2>3. CASE i \in 1 .. Len(ledger) /\ j \in 1 .. Len(ledger)
      BY <1>1, <2>1, <2>3 DEF PaymentOnce
    <2>4. CASE i = Len(ledger) + 1 /\ j \in 1 .. Len(ledger)
      BY <1>1, <2>1, <2>4 DEF Booked
    <2>5. CASE j = Len(ledger) + 1 /\ i \in 1 .. Len(ledger)
      BY <1>1, <2>1, <2>5 DEF Booked
    <2> QED
      BY <2>2, <2>3, <2>4, <2>5
  <1> QED
    BY <1>2, <1>3

-----------------------------------------------------------------------------
(* The ways a step moves one request. *)

(* A request that ends without having written disturbs nothing. *)
LEMMA FinishInv ==
  ASSUME Inv, NEW r \in Request, Finish(r), UNCHANGED tables
  PROVE  Inv'
  <1>1. TypeOK'
    BY DEF Inv, TypeOK, Finish, Goto, Step, tables
  <1>2. LockInv'
    BY DEF Inv, TypeOK, LockInv, Locked, Finish, Goto, tables
  <1>3. KnowInv'
    BY DEF Inv, TypeOK, KnowInv, Locked, Booked, Finish, Goto, tables
  <1>4. PaymentOnce' /\ BalanceNeverNegative'
    BY DEF Inv, PaymentOnce, BalanceNeverNegative, tables
  <1> QED
    BY <1>1, <1>2, <1>3, <1>4 DEF Inv

(* A request that starts without a lock has read the balance of the moment. *)
LEMMA ReadInv ==
  ASSUME Inv, NEW r \in Request, NEW step \in {"insert", "create", "charge"}, NEW a \in Nat,
         Start(r, step, a, NoPayment), step = "charge" => a <= balance, UNCHANGED tables
  PROVE  Inv'
  <1>1. TypeOK'
    BY DEF Inv, TypeOK, Start, Goto, Step, tables
  <1>2. LockInv'
    BY DEF Inv, TypeOK, LockInv, Locked, Start, Goto, tables
  <1>3. KnowInv'
    BY DEF Inv, TypeOK, KnowInv, Locked, Booked, BalanceNeverNegative, Start, Goto, Idle, tables
  <1>4. PaymentOnce' /\ BalanceNeverNegative'
    BY DEF Inv, PaymentOnce, BalanceNeverNegative, tables
  <1> QED
    BY <1>1, <1>2, <1>3, <1>4 DEF Inv

(* A request without a lock that proceeds without writing. *)
LEMMA MoveInv ==
  ASSUME Inv, NEW r \in Request, NEW step \in {"created", "inserted"}, ~Locked(r),
         Goto(r, step), Stay, UNCHANGED tables,
         step = "created" => ~open /\ \A q \in Request : pc[q] # "created",
         step = "inserted" => \A q \in Request : ~Locked(q)
  PROVE  Inv'
  <1>1. TypeOK'
    BY DEF Inv, TypeOK, Goto, Stay, Step, tables
  <1>2. LockInv'
    BY DEF Inv, TypeOK, LockInv, Locked, Goto, Stay, tables
  <1>3. KnowInv'
    BY DEF Inv, TypeOK, KnowInv, Locked, Booked, Goto, Stay, tables
  <1>4. PaymentOnce' /\ BalanceNeverNegative'
    BY DEF Inv, PaymentOnce, BalanceNeverNegative, tables
  <1> QED
    BY <1>1, <1>2, <1>3, <1>4 DEF Inv

(* A request that writes, while nobody else holds the lock, and ends. *)
LEMMA BookInv ==
  ASSUME Inv, NEW r \in Request, NEW a \in Int, Book(r, a), seen[r] + a >= 0,
         \A q \in Request \ {r} : ~Locked(q),
         payment[r] # NoPayment => ~Booked(payment[r]),
         open' \in BOOLEAN,
         open' # open => pc[r] = "created" /\ \A q \in Request \ {r} : pc[q] # "created"
  PROVE  Inv'
  <1> USE DEF Inv
  <1>0. Finish(r)
    BY DEF Book
  <1>1. TypeOK'
    BY <1>0, BookType DEF TypeOK, Finish, Goto, Step
  <1>2. LockInv'
    BY <1>0 DEF TypeOK, LockInv, Locked, Finish, Goto
  <1>3. KnowInv'
    BY <1>0 DEF TypeOK, KnowInv, Locked, Finish, Goto
  <1>4. PaymentOnce'
    BY BookOnce
  <1>5. BalanceNeverNegative'
    BY BookType DEF BalanceNeverNegative
  <1> QED
    BY <1>1, <1>2, <1>3, <1>4, <1>5

-----------------------------------------------------------------------------
(* Every step keeps the invariant. *)

(* A webhook that gets the lock knows the balance of the moment. *)
LEMMA WebhookLockInv ==
  ASSUME Inv, NEW r \in Provider, NEW p \in Payment, WebhookLock(r, p)
  PROVE  Inv'
  <1> USE DEF Inv
  <1>1. r \in Request /\ Paid[p] \in Nat
    BY WalletAssumption DEF Request
  <1>2. /\ open /\ pc[r] = "idle" /\ UNCHANGED tables
        /\ \A q \in Request : ~Locked(q) /\ pc[q] # "inserted"
    BY <1>1 DEF WebhookLock, Shared, Exclusive, Locked, Start, Idle
  <1>3. /\ pc' = [pc EXCEPT ![r] = "dedupe"]
        /\ amount' = [amount EXCEPT ![r] = Paid[p]]
        /\ payment' = [payment EXCEPT ![r] = p]
        /\ seen' = [seen EXCEPT ![r] = balance]
    BY DEF WebhookLock, Start, Goto
  <1>4. TypeOK'
    BY <1>1, <1>2, <1>3 DEF TypeOK, Step, tables
  <1>5. LockInv'
    BY <1>1, <1>2, <1>3 DEF TypeOK, LockInv, Locked, tables
  <1>6. KnowInv'
    BY <1>1, <1>2, <1>3 DEF TypeOK, KnowInv, BalanceNeverNegative, Locked, Booked, tables
  <1>7. PaymentOnce' /\ BalanceNeverNegative'
    BY <1>2 DEF PaymentOnce, BalanceNeverNegative, tables
  <1> QED
    BY <1>4, <1>5, <1>6, <1>7

(* The look for a duplicate keeps what the webhook knows of the balance. *)
LEMMA WebhookDedupeInv ==
  ASSUME Inv, NEW r \in Request, WebhookDedupe(r)
  PROVE  Inv'
  <1> USE DEF Inv
  <1>1. CASE Booked(payment[r])
    BY <1>1, FinishInv DEF WebhookDedupe
  <1>2. CASE ~Booked(payment[r])
    <2>1. pc[r] = "dedupe" /\ Goto(r, "credit") /\ Stay /\ UNCHANGED tables
      BY <1>2 DEF WebhookDedupe
    <2>2. TypeOK'
      BY <2>1 DEF TypeOK, Goto, Stay, Step, tables
    <2>3. LockInv'
      BY <2>1 DEF TypeOK, LockInv, Locked, Goto, Stay, tables
    <2>4. KnowInv'
      BY <1>2, <2>1 DEF TypeOK, KnowInv, Locked, Booked, Goto, Stay, tables
    <2>5. PaymentOnce' /\ BalanceNeverNegative'
      BY <2>1 DEF PaymentOnce, BalanceNeverNegative, tables
    <2> QED
      BY <2>2, <2>3, <2>4, <2>5
  <1> QED
    BY <1>1, <1>2

(* A top-up writes only when no webhook holds the lock. *)
LEMMA TopupStepInv ==
  ASSUME Inv, NEW r \in Request, TopupStep(r)
  PROVE  Inv'
  <1> USE DEF Inv
  <1>1. CASE TopupCreate(r)
    <2>1. CASE open
      BY <1>1, <2>1, FinishInv DEF TopupCreate
    <2>2. CASE ~open
      BY <1>1, <2>2, MoveInv DEF TopupCreate, Locked
    <2> QED
      BY <2>1, <2>2
  <1>2. CASE TopupFirst(r)
    <2>1. pc[r] = "created" /\ Book(r, amount[r]) /\ open' = TRUE
      BY <1>2 DEF TopupFirst
    <2>2. ~open /\ \A q \in Request : ~Locked(q)
      BY <2>1 DEF LockInv
    <2>3. amount[r] \in Nat /\ seen[r] \in Int /\ seen[r] >= 0 /\ payment[r] = NoPayment
      BY <2>2 DEF TypeOK, KnowInv
    <2>4. \A q \in Request \ {r} : pc[q] # "created"
      BY <2>1 DEF LockInv
    <2>5. open' \in BOOLEAN
      BY <2>1
    <2>6. amount[r] \in Int /\ seen[r] + amount[r] >= 0
      BY <2>3
    <2> QED
      BY <2>1, <2>2, <2>3, <2>4, <2>5, <2>6, BookInv
  <1>3. CASE TopupInsert(r)
    BY <1>3, MoveInv DEF TopupInsert, Exclusive, Locked
  <1>4. CASE TopupWrite(r)
    <2>1. pc[r] = "inserted" /\ Book(r, amount[r]) /\ open' = open
      BY <1>4 DEF TopupWrite
    <2>2. \A q \in Request : ~Locked(q)
      BY <2>1 DEF LockInv
    <2>3. amount[r] \in Nat /\ seen[r] \in Int /\ seen[r] >= 0 /\ payment[r] = NoPayment
      BY <2>2 DEF TypeOK, KnowInv
    <2> QED
      BY <2>1, <2>2, <2>3, BookInv DEF TypeOK
  <1>5. CASE DeadlockVictim(r)
    BY <1>5, FinishInv DEF DeadlockVictim
  <1> QED
    BY <1>1, <1>2, <1>3, <1>4, <1>5 DEF TopupStep

(* A charge writes a balance that its own check covers. *)
LEMMA ChargeStepInv ==
  ASSUME Inv, NEW r \in Request, ChargeStep(r)
  PROVE  Inv'
  <1> USE DEF Inv
  <1>1. CASE ChargeWrite(r)
    <2>1. pc[r] = "charge" /\ Book(r, -amount[r]) /\ open' = open
      BY <1>1 DEF ChargeWrite
    <2>2. \A q \in Request \ {r} : ~Locked(q)
      BY <1>1 DEF ChargeWrite, Exclusive, Locked
    <2>3. amount[r] \in Nat /\ seen[r] \in Int /\ amount[r] <= seen[r] /\ payment[r] = NoPayment
      BY <2>1 DEF TypeOK, KnowInv, Locked
    <2>4. -amount[r] \in Int /\ seen[r] + (-amount[r]) >= 0
      BY <2>3
    <2> QED
      BY <2>1, <2>2, <2>3, <2>4, BookInv DEF TypeOK
  <1>2. CASE DeadlockVictim(r)
    BY <1>2, FinishInv DEF DeadlockVictim
  <1> QED
    BY <1>1, <1>2 DEF ChargeStep

(* A webhook commits while it alone holds the lock. *)
LEMMA WebhookCommitInv ==
  ASSUME Inv, NEW r \in Request, WebhookCommit(r)
  PROVE  Inv'
  <1> USE DEF Inv
  <1>1. pc[r] = "credit" /\ Book(r, amount[r]) /\ open' = open
    BY DEF WebhookCommit
  <1>2. \A q \in Request \ {r} : ~Locked(q)
    BY <1>1 DEF LockInv, Locked
  <1>3. amount[r] \in Nat /\ seen[r] \in Int /\ seen[r] >= 0 /\ ~Booked(payment[r])
    BY <1>1 DEF TypeOK, KnowInv
  <1>4. amount[r] \in Int /\ seen[r] + amount[r] >= 0
    BY <1>3
  <1>5. open' \in BOOLEAN
    BY <1>1 DEF TypeOK
  <1> QED
    BY <1>1, <1>2, <1>3, <1>4, <1>5, BookInv

(* Each action of the wallet keeps the invariant. *)
LEMMA NextInv == Inv /\ [Next]_vars => Inv'
  <1> SUFFICES ASSUME Inv, [Next]_vars PROVE Inv'
    OBVIOUS
  <1> USE DEF Request
  <1>1. CASE OpenWallet
    <2>1. /\ ~open /\ open' = TRUE /\ UNCHANGED <<balance, ledger, pc, amount, payment, seen>>
          /\ \A q \in Request : pc[q] # "created"
      BY <1>1 DEF OpenWallet
    <2>2. TypeOK'
      BY <2>1 DEF Inv, TypeOK
    <2>3. LockInv'
      BY <2>1 DEF Inv, LockInv, Locked
    <2>4. KnowInv' /\ PaymentOnce' /\ BalanceNeverNegative'
      BY <2>1 DEF Inv, KnowInv, PaymentOnce, BalanceNeverNegative, Locked, Booked
    <2> QED
      BY <2>2, <2>3, <2>4 DEF Inv
  <1>2. ASSUME NEW r \in Topper, TopupStep(r) PROVE Inv'
    BY <1>2, TopupStepInv
  <1>3. ASSUME NEW r \in Topper, NEW a \in TopupAmounts, TopupRead(r, a) PROVE Inv'
    BY <1>3, WalletAssumption, ReadInv DEF TopupRead
  <1>4. ASSUME NEW r \in Payer, ChargeStep(r) PROVE Inv'
    BY <1>4, ChargeStepInv
  <1>5. ASSUME NEW r \in Payer, NEW price \in Prices, ChargeRead(r, price) PROVE Inv'
    <2>1. r \in Request /\ price \in Nat /\ balance \in Int
      BY WalletAssumption DEF Inv, TypeOK
    <2> QED
      BY <1>5, <2>1, ReadInv DEF ChargeRead
  <1>6. ASSUME NEW r \in Provider, WebhookStep(r) PROVE Inv'
    BY <1>6, WebhookDedupeInv, WebhookCommitInv DEF WebhookStep
  <1>7. ASSUME NEW r \in Provider, NEW p \in Payment, WebhookLock(r, p) PROVE Inv'
    BY <1>7, WebhookLockInv
  <1>8. ASSUME NEW r \in Request, Abort(r) PROVE Inv'
    BY <1>8, FinishInv DEF Abort
  <1>9. CASE UNCHANGED vars
    BY <1>9 DEF Inv, TypeOK, LockInv, KnowInv, PaymentOnce, BalanceNeverNegative, Locked,
                Booked, vars
  <1> QED
    BY <1>1, <1>2, <1>3, <1>4, <1>5, <1>6, <1>7, <1>8, <1>9 DEF Next

(* The invariant holds in every state the wallet reaches. *)
THEOREM Invariance == Spec => []Inv
  BY InitInv, NextInv, PTL DEF Spec

-----------------------------------------------------------------------------

(* TypeOK holds for any number of requests: in particular a request is always in *)
(* one of the steps of its handler.                                              *)
THEOREM WalletTypeCorrect == Spec => []TypeOK
  <1>1. Inv => TypeOK
    BY DEF Inv
  <1> QED
    BY <1>1, Invariance, PTL

(* However many webhook calls race, and with whatever top-ups and charges, a    *)
(* payment the provider reports is in the transaction rows at most once.        *)
THEOREM PaymentsAreCreditedOnce == Spec => []PaymentOnce
  <1>1. Inv => PaymentOnce
    BY DEF Inv
  <1> QED
    BY <1>1, Invariance, PTL

(* No interleaving of charges, top-ups and webhooks makes the balance negative. *)
THEOREM BalanceStaysNonNegative == Spec => []BalanceNeverNegative
  <1>1. Inv => BalanceNeverNegative
    BY DEF Inv
  <1> QED
    BY <1>1, Invariance, PTL

(* Only a webhook's commit brings a payment into the transaction rows, and it    *)
(* has held the lock since it read the balance.                                  *)
LEMMA CreditStep ==
  ASSUME Inv, [Next]_vars, NEW p \in Payment, ~Booked(p), Booked(p)'
  PROVE  balance' = balance + Paid[p]
  <1> USE DEF Inv, Request
  <1>0. ledger' # ledger
    BY DEF Booked
  <1>1. PICK r \in Request : TopupFirst(r) \/ TopupWrite(r) \/ ChargeWrite(r) \/ WebhookCommit(r)
    BY <1>0 DEF Next, OpenWallet, TopupStep, ChargeStep, WebhookStep, TopupRead, TopupCreate,
                TopupInsert, DeadlockVictim, ChargeRead, WebhookLock, WebhookDedupe, Abort,
                tables, vars
  <1>2. amount[r] \in Int /\ -amount[r] \in Int /\ p # NoPayment
    BY WalletAssumption DEF TypeOK
  <1>3. ASSUME ~Locked(r), NEW a \in Int, Book(r, a) PROVE FALSE
    BY <1>2, <1>3, BookedBy DEF KnowInv
  <1>4. CASE TopupFirst(r)
    BY <1>2, <1>3, <1>4 DEF TopupFirst, Locked
  <1>5. CASE TopupWrite(r)
    BY <1>2, <1>3, <1>5 DEF TopupWrite, Locked
  <1>6. CASE ChargeWrite(r)
    BY <1>2, <1>3, <1>6 DEF ChargeWrite, Locked
  <1>7. CASE WebhookCommit(r)
    <2>1. Locked(r) /\ Book(r, amount[r])
      BY <1>7 DEF WebhookCommit, Locked
    <2>2. p = payment[r] /\ balance' = seen[r] + amount[r]
      BY <1>2, <2>1, BookedBy
    <2> QED
      BY <2>1, <2>2 DEF KnowInv
  <1> QED
    BY <1>1, <1>4, <1>5, <1>6, <1>7

(* The webhook's read-modify-write of the balance is never interleaved with any  *)
(* other: the step that credits a payment adds exactly what was paid.            *)
THEOREM WebhookAddsWhatWasPaid == Spec => WebhookCreditsExactly
  <1>1. Inv /\ [Next]_vars =>
          [\A p \in Payment : (~Booked(p) /\ Booked(p)') => balance' = balance + Paid[p]]_vars
    BY CreditStep
  <1> QED
    BY <1>1, Invariance, PTL DEF Spec, WebhookCreditsExactly

-----------------------------------------------------------------------------
(* When nothing is lost. *)

(* Nobody but the webhook, which locks the wallet before it reads the balance, or one *)
(* request after the other.                                                          *)
NothingStale == Topper \cup Payer = {} \/ \E r : Request = {r}

(* A webhook is only ever at the steps behind its lock. *)
WebhookInv == \A r \in Provider : Idle(r) \/ Locked(r)

SeenInv == \A r \in Request : ~Idle(r) => seen[r] = balance

LEMMA Alone ==
    ASSUME Inv, NothingStale, WebhookInv, NEW q \in Request, NEW r \in Request,
           ~Idle(q), ~Idle(r)
    PROVE  q = r
<1>1. CASE Topper \cup Payer = {}
  BY <1>1 DEF Inv, LockInv, WebhookInv, Request
<1>2. CASE \E x : Request = {x}
  BY <1>2
<1>. QED  BY <1>1, <1>2 DEF NothingStale

Amounts == [i \in DOMAIN ledger |-> ledger[i].amount]

LEMMA AmountsTyped ==
    ASSUME ledger \in Seq(Entry) PROVE IsFiniteSet(DOMAIN ledger) /\ Amounts \in [DOMAIN ledger -> Int]
<1>1. DOMAIN ledger = 1 .. Len(ledger) /\ Len(ledger) \in Nat
  OBVIOUS
<1>2. IsFiniteSet(1 .. Len(ledger))
  BY <1>1, FS_Interval
<1>3. \A e \in Entry : e.amount \in Int
  BY DEF Entry
<1>4. \A i \in DOMAIN ledger : ledger[i] \in Entry
  OBVIOUS
<1>. QED  BY <1>1, <1>2, <1>3, <1>4 DEF Amounts

(* One row more adds its amount. *)
LEMMA SumOfAppended ==
    ASSUME TypeOK, NEW r \in Request, NEW a \in Int,
           ledger' = Append(ledger, [amount |-> a, balance_after |-> seen[r] + a,
                                     payment |-> payment[r]])
    PROVE  SumFunction(Amounts)' = SumFunction(Amounts) + a
<1>. DEFINE n == Len(ledger)
<1>1. PICK e \in Entry : e = [amount |-> a, balance_after |-> seen[r] + a, payment |-> payment[r]]
  <2>1. seen[r] + a \in Int /\ payment[r] \in Payment \cup {NoPayment}
    BY DEF TypeOK
  <2>2. [amount |-> a, balance_after |-> seen[r] + a, payment |-> payment[r]] \in Entry
    BY <2>1 DEF Entry
  <2>. QED  BY <2>2
<1>2. ledger \in Seq(Entry) /\ n \in Nat /\ DOMAIN ledger = 1 .. n
  BY DEF TypeOK
<1>3. ledger' = Append(ledger, e) /\ e.amount = a
  BY <1>1
<1>4. /\ ledger' \in Seq(Entry) /\ DOMAIN ledger' = 1 .. n + 1 /\ ledger'[n + 1] = e
      /\ \A i \in 1 .. n : ledger'[i] = ledger[i]
  BY <1>2, <1>3
<1>5. PICK T : T = 1 .. n + 1
  OBVIOUS
<1>6. PICK f : f = [i \in T |-> ledger'[i].amount]
  OBVIOUS
<1>7. f = Amounts'
  BY <1>4, <1>5, <1>6 DEF Amounts
<1>8. f \in [T -> Int] /\ f[n + 1] = a /\ n + 1 \in T
  <2>1. \A x \in Entry : x.amount \in Int
    BY DEF Entry
  <2>2. n + 1 \in T /\ \A i \in T : ledger'[i] \in Entry
    BY <1>2, <1>4, <1>5
  <2>3. f[n + 1] = a
    BY <1>3, <1>4, <1>6, <2>2
  <2>. QED  BY <1>6, <2>1, <2>2, <2>3
<1>9. [i \in T \ {n + 1} |-> f[i]] = Amounts
  <2>1. T \ {n + 1} = DOMAIN ledger
    BY <1>2, <1>5
  <2>2. \A i \in DOMAIN ledger : f[i] = ledger[i].amount
    BY <1>2, <1>4, <1>5, <1>6
  <2>. QED  BY <2>1, <2>2 DEF Amounts
<1>10. IsFiniteSet(T)
  BY <1>2, <1>5, FS_Interval
<1>11. SumFunction(f) = f[n + 1] + SumFunction([i \in T \ {n + 1} |-> f[i]])
  BY <1>8, <1>10, SumRemove
<1>12. SumFunction(Amounts) \in Int
  BY <1>2, AmountsTyped, SumType
<1>. QED  BY <1>7, <1>8, <1>9, <1>11, <1>12

ExplainInv == WebhookInv /\ SeenInv /\ balance = SumFunction(Amounts)

LEMMA BookExplained ==
    ASSUME Inv, NothingStale, ExplainInv, NEW r \in Request, ~Idle(r), NEW a \in Int, Book(r, a)
    PROVE  ExplainInv'
<1>1. Finish(r)
  BY DEF Book
<1>2. WebhookInv'
  BY <1>1 DEF Inv, TypeOK, ExplainInv, WebhookInv, Idle, Locked, Finish, Goto, Request
<1>3. SeenInv'
  <2>1. ASSUME NEW q \in Request PROVE Idle(q)'
    <3>1. CASE q = r
      BY <1>1, <3>1 DEF Inv, TypeOK, Idle, Finish, Goto
    <3>2. CASE q # r
      <4>1. Idle(q)
        BY <3>2, Alone DEF ExplainInv
      <4>. QED  BY <1>1, <3>2, <4>1 DEF Inv, TypeOK, Idle, Finish, Goto
    <3>. QED  BY <3>1, <3>2
  <2>. QED  BY <2>1 DEF SeenInv
<1>4. (balance = SumFunction(Amounts))'
  <2>1. CASE Len(ledger) < MaxLedger
    <3>1. ledger' = Append(ledger, [amount |-> a, balance_after |-> seen[r] + a,
                                    payment |-> payment[r]])
      BY <2>1 DEF Book
    <3>2. balance' = balance + a
      BY <2>1 DEF Book, ExplainInv, SeenInv
    <3>3. SumFunction(Amounts)' = SumFunction(Amounts) + a
      BY <3>1, SumOfAppended DEF Inv
    <3>. QED  BY <3>2, <3>3 DEF ExplainInv
  <2>2. CASE ~(Len(ledger) < MaxLedger)
    <3>1. UNCHANGED <<balance, ledger>>
      BY <2>2 DEF Book
    <3>. QED  BY <3>1 DEF ExplainInv, Amounts
  <2>. QED  BY <2>1, <2>2
<1>. QED  BY <1>2, <1>3, <1>4 DEF ExplainInv

(* A step of one request that writes nothing. *)
LEMMA QuietExplained ==
    ASSUME Inv, ExplainInv, NEW r \in Request, UNCHANGED <<balance, ledger>>,
           \/ Finish(r)
           \/ \E step, a, p : Start(r, step, a, p) /\ (r \in Provider => step = "dedupe")
           \/ \E step : Goto(r, step) /\ Stay /\ ~Idle(r) /\ (r \in Provider => step = "credit")
    PROVE  ExplainInv'
<1>1. WebhookInv'
  BY DEF Inv, TypeOK, ExplainInv, WebhookInv, Idle, Locked, Finish, Start, Goto, Request
<1>2. SeenInv'
  BY DEF Inv, TypeOK, ExplainInv, SeenInv, Idle, Finish, Start, Goto, Stay
<1>3. (balance = SumFunction(Amounts))'
  BY DEF ExplainInv, Amounts
<1>. QED  BY <1>1, <1>2, <1>3 DEF ExplainInv

LEMMA ExplainStep == ASSUME Inv, NothingStale, ExplainInv, [Next]_vars PROVE ExplainInv'
<1>. USE DEF Request, tables
<1>0. WalletAssumption /\ amount \in [Request -> Nat]
  BY WalletAssumption DEF Inv, TypeOK
<1>1. CASE OpenWallet \/ UNCHANGED vars
  BY <1>1 DEF OpenWallet, vars, ExplainInv, WebhookInv, SeenInv, Amounts, Idle, Locked
<1>2. ASSUME NEW r \in Topper, TopupStep(r) PROVE ExplainInv'
  <2>1. r \in Request /\ r \notin Provider /\ amount[r] \in Int
    BY <1>0 DEF WalletAssumption
  <2>2. CASE TopupCreate(r) \/ TopupInsert(r) \/ DeadlockVictim(r)
    BY <2>1, <2>2, QuietExplained DEF TopupCreate, TopupInsert, DeadlockVictim, Idle
  <2>3. CASE TopupFirst(r) \/ TopupWrite(r)
    BY <2>1, <2>3, BookExplained DEF TopupFirst, TopupWrite, Idle
  <2>. QED  BY <1>2, <2>2, <2>3 DEF TopupStep
<1>3. ASSUME NEW r \in Topper, NEW a \in TopupAmounts, TopupRead(r, a) PROVE ExplainInv'
  <2>1. r \notin Provider
    BY <1>0 DEF WalletAssumption
  <2>. QED  BY <1>3, <2>1, QuietExplained DEF TopupRead
<1>4. ASSUME NEW r \in Payer, ChargeStep(r) PROVE ExplainInv'
  <2>1. r \in Request /\ r \notin Provider /\ -amount[r] \in Int
    BY <1>0 DEF WalletAssumption
  <2>2. CASE DeadlockVictim(r)
    BY <2>1, <2>2, QuietExplained DEF DeadlockVictim
  <2>3. CASE ChargeWrite(r)
    BY <2>1, <2>3, BookExplained DEF ChargeWrite, Idle
  <2>. QED  BY <1>4, <2>2, <2>3 DEF ChargeStep
<1>5. ASSUME NEW r \in Payer, NEW price \in Prices, ChargeRead(r, price) PROVE ExplainInv'
  <2>1. r \notin Provider
    BY <1>0 DEF WalletAssumption
  <2>. QED  BY <1>5, <2>1, QuietExplained DEF ChargeRead
<1>6. ASSUME NEW r \in Provider, WebhookStep(r) PROVE ExplainInv'
  <2>1. r \in Request /\ amount[r] \in Int
    BY <1>0
  <2>2. CASE WebhookDedupe(r)
    BY <2>1, <2>2, QuietExplained DEF WebhookDedupe, Idle
  <2>3. CASE WebhookCommit(r)
    BY <2>1, <2>3, BookExplained DEF WebhookCommit, Idle
  <2>. QED  BY <1>6, <2>2, <2>3 DEF WebhookStep
<1>7. ASSUME NEW r \in Provider, NEW p \in Payment, WebhookLock(r, p) PROVE ExplainInv'
  BY <1>7, QuietExplained DEF WebhookLock
<1>8. ASSUME NEW r \in Request, Abort(r) PROVE ExplainInv'
  BY <1>8, QuietExplained DEF Abort
<1>. QED  BY <1>1, <1>2, <1>3, <1>4, <1>5, <1>6, <1>7, <1>8 DEF Next

(* What the user manual promises of a top-up holds where nothing stale is      *)
(* written: if only webhooks change the balance, however many race and however *)
(* often a payment is reported, or if one request is served after the other,   *)
(* the balance is what the transaction rows add up to (paymentService's lock   *)
(* before it reads).  Two top-ups at once break it (run WalletLedger).         *)
THEOREM LedgerIsExact == NothingStale => (Spec => []LedgerExplainsBalance)
<1>. SUFFICES ASSUME NothingStale PROVE Spec => []LedgerExplainsBalance
  OBVIOUS
<1>1. Init => ExplainInv
  <2>. SUFFICES ASSUME Init PROVE ExplainInv
    OBVIOUS
  <2>1. SumFunction(Amounts) = 0
    <3>1. DOMAIN Amounts = {}
      BY DEF Init, Amounts
    <3>. QED  BY <3>1, SumEmpty
  <2>. QED  BY <2>1 DEF Init, ExplainInv, WebhookInv, SeenInv, Idle, Request
<1>2. ExplainInv => LedgerExplainsBalance
  BY DEF ExplainInv, LedgerExplainsBalance, Amounts
<1>. QED  BY Invariance, <1>1, <1>2, ExplainStep, PTL DEF Spec
=============================================================================
