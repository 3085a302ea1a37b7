-------------------------- MODULE EventRegistration --------------------------
(***************************************************************************)
(* Registration for one event with a capacity and a waitlist, as in        *)
(* services/eventService.js: registerForEvent, cancelRegistration with the *)
(* promoteNextWaitlist it ends in, checkIn, and updateEvent where it       *)
(* changes the capacity.                                                   *)
(*                                                                         *)
(* registerForEvent and promoteNextWaitlist start by locking the event row *)
(* (FOR UPDATE) and take their snapshot behind that lock.                  *)
(* cancelRegistration and checkIn read first and lock only what they       *)
(* write.  Tables hold committed data; a write and the commit that follows *)
(* it are one step when no other request can act in between.               *)
(*                                                                         *)
(* Registrations are numbered in the order of registration_date.           *)
(***************************************************************************)
EXTENDS Integers, Sequences, FiniteSets

CONSTANTS
    User,
    InitialCapacity,   \* the capacity the event starts with; 0 (or null) is no limit
    NewCapacities,     \* the capacities updateEvent may set
    MaxRegistrations,  \* bound on the registrations ever made
    Registrant,        \* slots for registration requests being served at once
    Canceller,         \* slots for cancellation requests being served at once
    Scanner,           \* slots for check-in requests being served at once
    Failing            \* slots whose requests may fail in the middle

ASSUME EventAssumption ==
    /\ InitialCapacity \in Nat
    /\ NewCapacities \subseteq Nat
    /\ MaxRegistrations \in Nat
    /\ Registrant \cap Canceller = {}
    /\ Registrant \cap Scanner = {}
    /\ Canceller \cap Scanner = {}

VARIABLES
    regs,              \* the rows of event_registrations; a destroyed row is "deleted"
    registered_count,
    capacity,
    pc,                \* [Request -> Step]
    arg                \* [Request -> User \cup 0 .. MaxRegistrations]: user, or row, or 0

vars == <<regs, registered_count, capacity, pc, arg>>
event == <<registered_count, capacity>>

Request == Registrant \cup Canceller \cup Scanner

Registration ==
    [user : User, status : {"registered", "waitlisted", "deleted"}, checked_in : BOOLEAN]

Step == {"idle", "check", "seat", "queue",                  \* event locked
         "uncount", "delete",                               \* row read
         "promote", "pick", "promoted",                     \* event locked from "pick" on
         "checkIn"}                                         \* row read

Idle(r) == pc[r] = "idle"

Goto(r, step, x) ==
    /\ pc' = [pc EXCEPT ![r] = step]
    /\ arg' = [arg EXCEPT ![r] = x]

Finish(r) == Goto(r, "idle", 0)

(* Mutants: registrations, or promotions, read the event without FOR UPDATE. *)
EventFreeOfPromotions    == \A r \in Request : pc[r] \notin {"pick", "promoted"}
EventFreeOfRegistrations == \A r \in Request : pc[r] \notin {"check", "seat", "queue"}

(* The event row is locked from its SELECT ... FOR UPDATE to the commit. *)
EventFree == \A r \in Request : pc[r] \notin {"check", "seat", "queue", "pick", "promoted"}

Rows(status) == {i \in DOMAIN regs : regs[i].status = status}

Full == capacity # 0 /\ registered_count >= capacity

ActiveOf(u) == {i \in DOMAIN regs : regs[i].user = u /\ regs[i].status # "deleted"}

-----------------------------------------------------------------------------
(* registerForEvent.  An event that is not published, a passed deadline and an   *)
(* unpaid price refuse the request; the bound is one more reason to refuse.      *)

RegisterLock(r, u) ==
    /\ Idle(r)
    /\ EventFree
    /\ Goto(r, "check", u)
    /\ UNCHANGED <<regs, event>>

RegisterCheck(r) ==
    /\ pc[r] = "check"
    /\ IF ActiveOf(arg[r]) # {} \/ Len(regs) >= MaxRegistrations
       THEN Finish(r)
       ELSE Goto(r, IF Full THEN "queue" ELSE "seat", arg[r])
    /\ UNCHANGED <<regs, event>>

RegisterCommit(r) ==
    LET Row(status) == [user |-> arg[r], status |-> status, checked_in |-> FALSE] IN
    /\ \/ /\ pc[r] = "queue"
          /\ regs' = Append(regs, Row("waitlisted"))
          /\ UNCHANGED registered_count
       \/ /\ pc[r] = "seat"
          /\ regs' = Append(regs, Row("registered"))
          /\ registered_count' = registered_count + 1
    /\ Finish(r)
    /\ UNCHANGED capacity

-----------------------------------------------------------------------------
(* cancelRegistration: wasRegistered is what the first read saw. *)

(* Mutant: every cancellation gives a seat back. *)
CancelReadAny(r, i) ==
    /\ Idle(r)
    /\ regs[i].status # "deleted"
    /\ ~regs[i].checked_in
    /\ Goto(r, "uncount", i)
    /\ UNCHANGED <<regs, event>>

CancelRead(r, i) ==
    /\ Idle(r)
    /\ regs[i].status # "deleted"
    /\ ~regs[i].checked_in
    /\ Goto(r, IF regs[i].status = "registered" THEN "uncount" ELSE "delete", i)
    /\ UNCHANGED <<regs, event>>

(* Mutant: the row is kept with a status of its own. *)
Withdraw(i) == regs' = [regs EXCEPT ![i].status = "cancelled"]

Destroy(i) == regs' = [regs EXCEPT ![i].status = "deleted"]

(* Mutant: nobody is promoted. *)
CancelRegisteredOnly(r) ==
    /\ pc[r] = "uncount"
    /\ EventFree
    /\ registered_count' = registered_count - 1
    /\ Destroy(arg[r])
    /\ Finish(r)
    /\ UNCHANGED capacity

(* The decrement waits for the event's lock; DELETE of a deleted row is no error. *)
CancelRegistered(r) ==
    /\ pc[r] = "uncount"
    /\ EventFree
    /\ registered_count' = registered_count - 1
    /\ Destroy(arg[r])
    /\ Goto(r, "promote", 0)
    /\ UNCHANGED capacity

(* The event row is not touched and nothing is waited for: a promotion locks the row it  *)
(* has picked by its UPDATE only, so the row may be deleted under it until PromoteCommit. *)
CancelWaitlisted(r) ==
    /\ pc[r] = "delete"
    /\ Destroy(arg[r])
    /\ Finish(r)
    /\ UNCHANGED event

(* promoteNextWaitlist, a transaction of its own after the commit. *)
PromoteLock(r) ==
    /\ pc[r] = "promote"
    /\ EventFree
    /\ IF capacity = 0 \/ Full THEN Finish(r) ELSE Goto(r, "pick", 0)
    /\ UNCHANGED <<regs, event>>

(* Mutant: the waitlist is read in no order. *)
PromotePickAny(r) ==
    /\ pc[r] = "pick"
    /\ IF Rows("waitlisted") = {}
       THEN Finish(r)
       ELSE \E i \in Rows("waitlisted") : Goto(r, "promoted", i)
    /\ UNCHANGED <<regs, event>>

(* The first of the waitlist, read from the snapshot ... *)
PromotePick(r) ==
    /\ pc[r] = "pick"
    /\ IF Rows("waitlisted") = {}
       THEN Finish(r)
       ELSE \E i \in Rows("waitlisted") :
               /\ \A j \in Rows("waitlisted") : i <= j
               /\ Goto(r, "promoted", i)
    /\ UNCHANGED <<regs, event>>

(* ... and updated by id: a row deleted meanwhile is not updated, but is counted. *)
PromoteCommit(r) ==
    /\ pc[r] = "promoted"
    /\ regs' = IF regs[arg[r]].status = "deleted"
               THEN regs
               ELSE [regs EXCEPT ![arg[r]].status = "registered"]
    /\ registered_count' = registered_count + 1
    /\ Finish(r)
    /\ UNCHANGED capacity

-----------------------------------------------------------------------------
(* checkIn on the day of the event, for a registration of either status. *)

CheckInRead(r, i) ==
    /\ Idle(r)
    /\ regs[i].status # "deleted"
    /\ ~regs[i].checked_in
    /\ Goto(r, "checkIn", i)
    /\ UNCHANGED <<regs, event>>

CheckInCommit(r) ==
    /\ pc[r] = "checkIn"
    /\ regs' = IF regs[arg[r]].status = "deleted"
               THEN regs
               ELSE [regs EXCEPT ![arg[r]].checked_in = TRUE]
    /\ Finish(r)
    /\ UNCHANGED event

-----------------------------------------------------------------------------
(* updateEvent writes whatever it is given and promotes nobody. *)
UpdateCapacity(c) ==
    /\ EventFree
    /\ capacity' = c
    /\ UNCHANGED <<regs, registered_count, pc, arg>>

(* A statement fails or the server dies.  After the commit of a cancellation the *)
(* promotion that should follow is simply lost.                                  *)
Abort(r) ==
    /\ r \in Failing
    /\ ~Idle(r)
    /\ Finish(r)
    /\ UNCHANGED <<regs, event>>

RegisterStep(r) == RegisterCheck(r) \/ RegisterCommit(r)

CancelStep(r) ==
    \/ CancelRegistered(r)
    \/ CancelWaitlisted(r)
    \/ PromoteLock(r)
    \/ PromotePick(r)
    \/ PromoteCommit(r)

checkIn(r) == CheckInCommit(r) \/ \E i \in DOMAIN regs : CheckInRead(r, i)

updateEvent == \E c \in NewCapacities : UpdateCapacity(c)

Init ==
    /\ regs = <<>>
    /\ registered_count = 0
    /\ capacity = InitialCapacity
    /\ pc = [r \in Request |-> "idle"]
    /\ arg = [r \in Request |-> 0]

Next ==
    \/ \E r \in Registrant : RegisterStep(r) \/ \E u \in User : RegisterLock(r, u)
    \/ \E r \in Canceller : CancelStep(r) \/ \E i \in DOMAIN regs : CancelRead(r, i)
    \/ \E r \in Scanner : checkIn(r)
    \/ updateEvent
    \/ \E r \in Request : Abort(r)

Spec == Init /\ [][Next]_vars

(* Statements answer, and lock requests are granted in turn. *)
Fairness ==
    /\ \A r \in Registrant : SF_vars(RegisterStep(r))
    /\ \A r \in Canceller : SF_vars(CancelStep(r))
    /\ \A r \in Scanner : WF_vars(CheckInCommit(r))

FairSpec == Spec /\ Fairness

-----------------------------------------------------------------------------
(* Properties *)

TypeOK ==
    /\ regs \in Seq(Registration)
    /\ Len(regs) <= MaxRegistrations
    /\ registered_count \in Int
    /\ capacity \in {InitialCapacity} \cup NewCapacities
    /\ pc \in [Request -> Step]
    /\ \A r \in Request : arg[r] \in User \cup {0} \cup DOMAIN regs

(* A user never holds two registrations, however many requests race: the table   *)
(* has no unique index on (event, user), only the event's lock and the snapshot  *)
(* taken behind it.                                                              *)
OneActivePerUser == \A u \in User : Cardinality(ActiveOf(u)) <= 1

(* A seat is only granted, to a new registration or from the waitlist, while the *)
(* count is below the capacity in force at that moment.                          *)
GrantsBelowCapacity ==
    [][registered_count' > registered_count =>
          capacity = 0 \/ registered_count < capacity]_vars

(* registered_count is the number of registered rows.  True when cancellations   *)
(* are served one at a time, whatever registrations and check-ins race with them *)
(* and whatever fails.                                                           *)
CountIsRegistered == registered_count = Cardinality(Rows("registered"))

(* One request after the other: each takes effect in one step, with nothing stale in *)
(* what it acted on, and a free seat goes to whoever has waited longest.  True when  *)
(* cancellations are served one at a time, whatever else races and fails.            *)
Lifecycle == INSTANCE EventLifecycle

ImplementsLifecycle == Lifecycle!Spec

(* A free seat does not stay free while somebody waits for it.  True when        *)
(* cancellations are served one at a time and do not fail after their commit.    *)
WaitlistServed ==
    (Rows("waitlisted") # {} /\ Cardinality(Rows("registered")) < capacity)
        ~> (Rows("waitlisted") = {} \/ Cardinality(Rows("registered")) >= capacity)

(* What the user manual promises: when the event is full, a registration goes to *)
(* the waitlist, so no more users than the capacity are registered.              *)
RegisteredWithinCapacity ==
    InitialCapacity > 0 /\ NewCapacities = {} =>
        Cardinality(Rows("registered")) <= InitialCapacity
=============================================================================
