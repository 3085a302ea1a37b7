------------------------------- MODULE Wallet -------------------------------
(***************************************************************************)
(* One user's wallet and the rows of `transactions` that belong to it:     *)
(*   - walletService.getWalletByUserId, which opens a wallet on first use; *)
(*   - walletService.createTopupSession (test mode: pays at once);         *)
(*   - paymentService.processPaymentWebhook, sent by the payment provider; *)
(*   - the charge inside mealService.createReservation and                 *)
(*     eventService.registerForEvent.                                      *)
(*                                                                         *)
(* Only the webhook locks the wallet before it reads it.  The others read  *)
(* the balance from their snapshot, compute the new one in JavaScript and  *)
(* write it as an absolute number.  Inserting a transaction row takes a    *)
(* shared lock on the wallet it refers to (foreign key), which a top-up    *)
(* then upgrades by its UPDATE: two top-ups can deadlock, and InnoDB rolls *)
(* one of them back.                                                       *)
(***************************************************************************)
EXTENDS Integers, Sequences, Functions

CONSTANTS
    Payment,           \* payments the provider reports, each any number of times
    NoPayment,         \* the reference of a row no webhook wrote
    Paid,              \* [Payment -> amount]
    TopupAmounts,
    Prices,            \* of meals and events
    MaxLedger,         \* bound on the transaction rows
    Topper,            \* slots for top-up requests being served at once
    Payer,             \* slots for paid reservations and registrations
    Provider,          \* slots for webhook calls
    Failures           \* whether requests may fail in the middle

ASSUME WalletAssumption ==
    /\ NoPayment \notin Payment
    /\ Paid \in [Payment -> Nat \ {0}]
    /\ TopupAmounts \subseteq Nat \ {0}
    /\ Prices \subseteq Nat \ {0}
    /\ Failures \in BOOLEAN
    /\ Topper \cap Payer = {}
    /\ Topper \cap Provider = {}
    /\ Payer \cap Provider = {}

VARIABLES
    open,              \* whether the wallet row exists
    balance,
    ledger,            \* the transaction rows in the order of their commits
    pc,                \* [Request -> Step]
    amount,            \* [Request -> Nat]: what the request adds or takes
    payment,           \* [Request -> Payment \cup {NoPayment}]
    seen               \* [Request -> Nat]: the balance the request read

vars == <<open, balance, ledger, pc, amount, payment, seen>>
tables == <<open, balance, ledger>>

Request == Topper \cup Payer \cup Provider

Entry == [amount : Int, balance_after : Int, payment : Payment \cup {NoPayment}]

Step == {"idle",
         "create", "created",               \* no wallet seen; wallet inserted
         "insert", "inserted",              \* balance read; row inserted, wallet S-locked
         "charge",                          \* balance read and sufficient
         "dedupe", "credit"}                \* wallet locked; no such payment seen

Idle(r) == pc[r] = "idle"

Goto(r, step) == pc' = [pc EXCEPT ![r] = step]

Stay == UNCHANGED <<amount, payment, seen>>

Start(r, step, a, p) ==
    /\ Idle(r)
    /\ Goto(r, step)
    /\ amount' = [amount EXCEPT ![r] = a]
    /\ payment' = [payment EXCEPT ![r] = p]
    /\ seen' = [seen EXCEPT ![r] = balance]

Finish(r) ==
    /\ Goto(r, "idle")
    /\ amount' = [amount EXCEPT ![r] = 0]
    /\ payment' = [payment EXCEPT ![r] = NoPayment]
    /\ seen' = [seen EXCEPT ![r] = 0]

(* Mutant: the webhook finds the wallet without FOR UPDATE. *)
NotExclusive(r) == FALSE

(* Locks on the wallet row that others hold. *)
Shared(r)    == \E q \in Request \ {r} : pc[q] = "inserted"
Exclusive(r) == \E q \in Request \ {r} : pc[q] \in {"dedupe", "credit"}

(* The transaction row, the absolute balance and the commit. *)
Book(r, a) ==
    LET new == seen[r] + a IN
    /\ IF Len(ledger) < MaxLedger
       THEN /\ balance' = new
            /\ ledger' = Append(ledger, [amount |-> a, balance_after |-> new,
                                         payment |-> payment[r]])
       ELSE UNCHANGED <<balance, ledger>>
    /\ Finish(r)

-----------------------------------------------------------------------------
(* getWalletByUserId outside a transaction (GET /wallet/balance).  The unique   *)
(* index on user_id makes a second INSERT wait for the first and then fail.     *)

OpenWallet ==
    /\ ~open
    /\ \A q \in Request : pc[q] # "created"
    /\ open' = TRUE
    /\ UNCHANGED <<balance, ledger, pc, amount, payment, seen>>

-----------------------------------------------------------------------------
(* createTopupSession *)

TopupRead(r, a) ==
    /\ Start(r, IF open THEN "insert" ELSE "create", a, NoPayment)
    /\ UNCHANGED tables

TopupCreate(r) ==
    /\ pc[r] = "create"
    /\ \A q \in Request : pc[q] # "created"
    /\ IF open THEN Finish(r) ELSE Goto(r, "created") /\ Stay
    /\ UNCHANGED tables

TopupFirst(r) ==
    /\ pc[r] = "created"
    /\ open' = TRUE
    /\ Book(r, amount[r])

TopupInsert(r) ==
    /\ pc[r] = "insert"
    /\ ~Exclusive(r)
    /\ Goto(r, "inserted")
    /\ Stay
    /\ UNCHANGED tables

TopupWrite(r) ==
    /\ pc[r] = "inserted"
    /\ ~Shared(r)
    /\ Book(r, amount[r])
    /\ UNCHANGED open

(* A shared lock that cannot be upgraded because another request waits for, or *)
(* shares, the wallet: either of the two may be chosen to be rolled back.      *)
DeadlockVictim(r) ==
    /\ pc[r] \in {"inserted", "charge"}
    /\ \E q \in Request \ {r} :
          pc[q] \in {"inserted", "charge"} /\ "inserted" \in {pc[r], pc[q]}
    /\ Finish(r)
    /\ UNCHANGED tables

-----------------------------------------------------------------------------
(* The charge.  A wallet opened by the charge itself is empty: refused. *)

(* Mutants: the charge does not look at the balance; it takes the price negated. *)
ChargeReadUnchecked(r, price) ==
    /\ open
    /\ Start(r, "charge", price, NoPayment)
    /\ UNCHANGED tables

ChargeReadNegated(r, price) ==
    /\ open
    /\ balance >= price
    /\ Start(r, "charge", -price, NoPayment)
    /\ UNCHANGED tables

ChargeRead(r, price) ==
    /\ open
    /\ balance >= price
    /\ Start(r, "charge", price, NoPayment)
    /\ UNCHANGED tables

ChargeWrite(r) ==
    /\ pc[r] = "charge"
    /\ ~Shared(r)
    /\ ~Exclusive(r)
    /\ Book(r, -amount[r])
    /\ UNCHANGED open

-----------------------------------------------------------------------------
(* processPaymentWebhook *)

WebhookLock(r, p) ==
    /\ open
    /\ ~Shared(r)
    /\ ~Exclusive(r)
    /\ Start(r, "dedupe", Paid[p], p)
    /\ UNCHANGED tables

Booked(p) == \E i \in DOMAIN ledger : ledger[i].payment = p

(* Mutants: no duplicate is looked for; the reply to a duplicate forgets the rollback. *)
WebhookDedupeNothing(r) ==
    /\ pc[r] = "dedupe"
    /\ Goto(r, "credit")
    /\ Stay
    /\ UNCHANGED tables

WebhookDedupeLeaking(r) ==
    /\ pc[r] = "dedupe"
    /\ ~Booked(payment[r])
    /\ Goto(r, "credit")
    /\ Stay
    /\ UNCHANGED tables

WebhookDedupe(r) ==
    /\ pc[r] = "dedupe"
    /\ IF Booked(payment[r]) THEN Finish(r) ELSE Goto(r, "credit") /\ Stay
    /\ UNCHANGED tables

WebhookCommit(r) ==
    /\ pc[r] = "credit"
    /\ Book(r, amount[r])
    /\ UNCHANGED open

-----------------------------------------------------------------------------
(* A statement fails, a lock wait times out or the server dies: rolled back. *)
Abort(r) ==
    /\ Failures
    /\ ~Idle(r)
    /\ Finish(r)
    /\ UNCHANGED tables

TopupStep(r) ==
    \/ TopupCreate(r)
    \/ TopupFirst(r)
    \/ TopupInsert(r)
    \/ TopupWrite(r)
    \/ DeadlockVictim(r)

ChargeStep(r) == ChargeWrite(r) \/ DeadlockVictim(r)

WebhookStep(r) == WebhookDedupe(r) \/ WebhookCommit(r)

Init ==
    /\ open = FALSE
    /\ balance = 0
    /\ ledger = <<>>
    /\ pc = [r \in Request |-> "idle"]
    /\ amount = [r \in Request |-> 0]
    /\ payment = [r \in Request |-> NoPayment]
    /\ seen = [r \in Request |-> 0]

Next ==
    \/ OpenWallet
    \/ \E r \in Topper : TopupStep(r) \/ \E a \in TopupAmounts : TopupRead(r, a)
    \/ \E r \in Payer : ChargeStep(r) \/ \E price \in Prices : ChargeRead(r, price)
    \/ \E r \in Provider : WebhookStep(r) \/ \E p \in Payment : WebhookLock(r, p)
    \/ \E r \in Request : Abort(r)

Spec == Init /\ [][Next]_vars

(* Statements answer, locks are granted in turn and deadlocks are detected. *)
Fairness ==
    /\ \A r \in Topper : SF_vars(TopupStep(r))
    /\ \A r \in Payer : SF_vars(ChargeStep(r))
    /\ \A r \in Provider : SF_vars(WebhookStep(r))

FairSpec == Spec /\ Fairness

-----------------------------------------------------------------------------
(* Properties *)

TypeOK ==
    /\ open \in BOOLEAN
    /\ balance \in Int
    /\ ledger \in Seq(Entry)
    /\ pc \in [Request -> Step]
    /\ amount \in [Request -> Nat]
    /\ payment \in [Request -> Payment \cup {NoPayment}]
    /\ seen \in [Request -> Int]

(* A payment is credited at most once, however often and however concurrently    *)
(* the provider reports it: the duplicate is looked for behind the wallet's lock. *)
PaymentOnce ==
    \A i, j \in DOMAIN ledger :
        ledger[i].payment = ledger[j].payment /\ ledger[i].payment # NoPayment => i = j

(* The balance is never negative, whatever charges race: a charge that read a    *)
(* stale balance writes a stale balance, but one its own check covers.           *)
BalanceNeverNegative == balance >= 0

(* A reported payment raises the balance by exactly what was paid, whatever      *)
(* top-ups and charges are in the middle of: the webhook never writes over them. *)
WebhookCreditsExactly ==
    [][\A p \in Payment :
          (~Booked(p) /\ Booked(p)') => balance' = balance + Paid[p]]_vars

(* Every request is answered: the deadlocks of racing top-ups are broken.        *)
EveryWalletRequestAnswered == \A r \in Request : ~Idle(r) ~> Idle(r)

(* What the user manual promises of a top-up: the money is in the wallet, so the *)
(* balance is what the transaction rows add up to.                               *)
LedgerExplainsBalance ==
    balance = SumFunction([i \in DOMAIN ledger |-> ledger[i].amount])
=============================================================================
