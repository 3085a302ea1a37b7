--------------------------- MODULE MealReservation ---------------------------
(***************************************************************************)
(* Reservations of one meal: diners make, cancel, transfer and accept      *)
(* them, and the clerks of the cafeteria scan them (mealService).  Every   *)
(* handler is a transaction of reads in one snapshot followed by an UPDATE *)
(* by primary key that repeats none of the conditions and is committed at  *)
(* once: the UPDATE lands on whatever the row has become.  The price is    *)
(* charged in the transaction of the reservation; see module Wallet.       *)
(***************************************************************************)
EXTENDS Naturals, FiniteSets

CONSTANTS
    Diner,       \* users
    Ticket,      \* ids of reservations
    Guest,       \* slots for requests of diners being served at once
    Clerk,       \* slots for scans being served at once
    NoDiner,     \* the NULL of a user column
    MaxScans     \* bound: scans of one ticket that may succeed

ASSUME MealAssumption ==
    /\ IsFiniteSet(Clerk) /\ IsFiniteSet(Guest) /\ Guest \cap Clerk = {}
    /\ NoDiner \notin Diner /\ MaxScans \in Nat

VARIABLES
    ticket,      \* [Ticket -> Row \cup {Unmade}]
    scans,       \* [Ticket -> how often the meal was handed out]
    mealPc,      \* [slot -> the statement the request is at]
    mealOf,      \* [slot -> what it read and was asked for]
    invited,     \* history: [Ticket -> the diners its owners offered it to, and its maker]
    madeBy       \* history: [Ticket -> its maker]

mealVars == <<ticket, scans, mealPc, mealOf, invited, madeBy>>

Row == [status   : {"reserved", "used", "cancelled"},
        user     : Diner,
        to       : Diner \cup {NoDiner},
        transfer : {"none", "pending", "accepted"}]

Unmade == [status |-> "none"]

Ask == [ticket : Ticket, user : Diner \cup {NoDiner}, wasPending : BOOLEAN]

NoAsk == [ticket |-> "none"]

MealSlot == Guest \cup Clerk

MealTypeOK ==
    /\ ticket \in [Ticket -> Row \cup {Unmade}]
    /\ scans \in [Ticket -> 0..MaxScans]
    /\ mealPc \in [MealSlot -> {"idle", "cancel", "use", "offer", "accept"}]
    /\ mealOf \in [MealSlot -> Ask \cup {NoAsk}]
    /\ invited \in [Ticket -> SUBSET Diner]
    /\ madeBy \in [Ticket -> Diner \cup {NoDiner}]

MealInit ==
    /\ ticket = [t \in Ticket |-> Unmade]
    /\ scans = [t \in Ticket |-> 0]
    /\ mealPc = [s \in MealSlot |-> "idle"]
    /\ mealOf = [s \in MealSlot |-> NoAsk]
    /\ invited = [t \in Ticket |-> {}]
    /\ madeBy = [t \in Ticket |-> NoDiner]

MealIdle(s) == mealPc[s] = "idle"

(* The SELECT of a handler found the row of t; the handler goes on to its UPDATE. *)
Found(s, step, t, u) ==
    /\ MealIdle(s)
    /\ ticket[t].status = "reserved"
    /\ mealPc' = [mealPc EXCEPT ![s] = step]
    /\ mealOf' = [mealOf EXCEPT ![s] = [ticket |-> t, user |-> u,
           wasPending |-> step = "offer" /\ ticket[t].transfer = "pending"]]
    /\ UNCHANGED <<ticket, scans, invited, madeBy>>

(* The UPDATE of s and its commit: row is what the row of its ticket becomes. *)
Save(s, row) ==
    /\ ticket' = [ticket EXCEPT ![mealOf[s].ticket] = row]
    /\ mealPc' = [mealPc EXCEPT ![s] = "idle"]
    /\ mealOf' = [mealOf EXCEPT ![s] = NoAsk]

Current(s) == ticket[mealOf[s].ticket]

(* Mutant: only a meal that was eaten is looked for. *)
HasMealUsed(u, t) ==
    \E other \in Ticket \ {t} : ticket[other].status = "used" /\ ticket[other].user = u

(* The SELECT for another reservation of u for the meal that is reserved or used. *)
HasMeal(u, t) ==
    \E other \in Ticket \ {t} :
        ticket[other].status \in {"reserved", "used"} /\ ticket[other].user = u

(* Nothing asks whether the diner has a reservation for the meal. *)
CreateReservation(u, t) ==
    /\ ticket[t] = Unmade
    /\ ticket' = [ticket EXCEPT ![t] = [status |-> "reserved", user |-> u,
                                        to |-> NoDiner, transfer |-> "none"]]
    /\ invited' = [invited EXCEPT ![t] = {u}]
    /\ madeBy' = [madeBy EXCEPT ![t] = u]
    /\ UNCHANGED <<scans, mealPc, mealOf>>

CancelFind(g, u, t) == ticket[t] # Unmade /\ ticket[t].user = u /\ Found(g, "cancel", t, NoDiner)

CancelSave(g) ==
    /\ mealPc[g] = "cancel"
    /\ Save(g, [Current(g) EXCEPT !.status = "cancelled"])
    /\ UNCHANGED <<scans, invited, madeBy>>

(* Mutant: a scan does not look at the status of the reservation. *)
UseFindAny(c, t) ==
    /\ MealIdle(c) /\ ticket[t] # Unmade
    /\ mealPc' = [mealPc EXCEPT ![c] = "use"]
    /\ mealOf' = [mealOf EXCEPT ![c] = [ticket |-> t, user |-> NoDiner, wasPending |-> FALSE]]
    /\ UNCHANGED <<ticket, scans, invited, madeBy>>

UseFind(c, t) == Found(c, "use", t, NoDiner)

(* The clerk hands out the meal when the handler replies. *)
UseSave(c) ==
    /\ mealPc[c] = "use"
    /\ scans[mealOf[c].ticket] < MaxScans
    /\ scans' = [scans EXCEPT ![mealOf[c].ticket] = @ + 1]
    /\ Save(c, [Current(c) EXCEPT !.status = "used"])
    /\ UNCHANGED <<invited, madeBy>>

TransferFind(g, u, t, v) ==
    /\ ticket[t] # Unmade /\ ticket[t].user = u
    /\ v # u /\ ~HasMeal(v, t)
    /\ Found(g, "offer", t, v)

(* transfer_status is written only if the row that was read said something else. *)
TransferSave(g) ==
    /\ mealPc[g] = "offer"
    /\ Save(g, [Current(g) EXCEPT
                   !.to = mealOf[g].user,
                   !.transfer = IF mealOf[g].wasPending THEN @ ELSE "pending"])
    /\ invited' = [invited EXCEPT ![mealOf[g].ticket] = @ \cup {mealOf[g].user}]
    /\ UNCHANGED <<scans, madeBy>>

(* Mutant: anybody may accept a pending transfer. *)
AcceptFindAny(g, u, t) ==
    /\ ticket[t] # Unmade
    /\ ticket[t].transfer = "pending" /\ ~HasMeal(u, t)
    /\ Found(g, "accept", t, u)

(* Mutant: who accepts is lost between the check and the UPDATE. *)
AcceptFindNobody(g, u, t) ==
    /\ ticket[t] # Unmade
    /\ ticket[t].to = u /\ ticket[t].transfer = "pending"
    /\ ~HasMeal(u, t)
    /\ Found(g, "accept", t, NoDiner)

AcceptFind(g, u, t) ==
    /\ ticket[t] # Unmade
    /\ ticket[t].to = u /\ ticket[t].transfer = "pending"
    /\ ~HasMeal(u, t)
    /\ Found(g, "accept", t, u)

AcceptSave(g) ==
    /\ mealPc[g] = "accept"
    /\ Save(g, [Current(g) EXCEPT !.user = mealOf[g].user, !.transfer = "accepted"])
    /\ UNCHANGED <<scans, invited, madeBy>>

(* A statement fails or the server crashes: the transaction is rolled back. *)
MealAbort(s) ==
    /\ ~MealIdle(s)
    /\ mealPc' = [mealPc EXCEPT ![s] = "idle"]
    /\ mealOf' = [mealOf EXCEPT ![s] = NoAsk]
    /\ UNCHANGED <<ticket, scans, invited, madeBy>>

cancelReservation(g) ==
    CancelSave(g) \/ \E u \in Diner, t \in Ticket : CancelFind(g, u, t)

transferReservation(g) ==
    TransferSave(g) \/ \E u, v \in Diner, t \in Ticket : TransferFind(g, u, t, v)

acceptTransfer(g) ==
    AcceptSave(g) \/ \E u \in Diner, t \in Ticket : AcceptFind(g, u, t)

useReservation(c) ==
    UseSave(c) \/ \E t \in Ticket : UseFind(c, t)

MealNext ==
    \/ \E u \in Diner, t \in Ticket : CreateReservation(u, t)
    \/ \E g \in Guest : cancelReservation(g) \/ transferReservation(g) \/ acceptTransfer(g)
    \/ \E c \in Clerk : useReservation(c)
    \/ \E s \in MealSlot : MealAbort(s)

MealSpec == MealInit /\ [][MealNext]_mealVars
-----------------------------------------------------------------------------
(* useReservation: a reservation is handed out at most as many times as scans  *)
(* are served at once, whatever cancellations and transfers race with them.    *)
ServedBounded == \A t \in Ticket : scans[t] <= Cardinality(Clerk)

(* transferReservation, acceptTransfer: a reservation only ever belongs to its *)
(* maker or to a diner to whom an owner offered it, although an acceptance may *)
(* land after the offer was redirected.                                        *)
OwnedByInvitation ==
    \A t \in Ticket : ticket[t] # Unmade => ticket[t].user \in invited[t]

(* The reservations u holds of those that others made. *)
Gifts(u) == {t \in Ticket : ticket[t].status = "reserved" /\ ticket[t].user = u /\ madeBy[t] # u}

(* acceptTransfer: a diner never holds more reservations of others for the     *)
(* meal than acceptances are served at once.  Each looks for another one       *)
(* before its UPDATE, so that those that overlap do not see each other, and    *)
(* offers, cancellations, scans and failures may come between the two.         *)
GiftsBounded == \A u \in Diner : Cardinality(Gifts(u)) <= Cardinality(Guest)
=============================================================================
