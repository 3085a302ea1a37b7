---------------------------- MODULE EventLifecycle ----------------------------
(***************************************************************************)
(* What an event's organiser expects of registration, each request taking  *)
(* effect in one step: a user holds one registration, seated while a seat  *)
(* is free and queued otherwise; who leaves a seat frees it; and a free    *)
(* seat goes to whoever has waited longest.  EventRegistration implements  *)
(* this when cancellations are served one at a time.                       *)
(***************************************************************************)
EXTENDS Integers, Sequences

CONSTANTS
    User,
    InitialCapacity,   \* 0 is no limit
    NewCapacities,     \* the capacities the organiser may set
    MaxRegistrations   \* bound on the registrations ever made

VARIABLES
    regs,              \* registrations in the order they were made
    registered_count,  \* seats taken
    capacity

vars == <<regs, registered_count, capacity>>

Init == regs = <<>> /\ registered_count = 0 /\ capacity = InitialCapacity

HasSeat == capacity = 0 \/ registered_count < capacity

Active(i) == regs[i].status # "deleted"

Become(i, new, delta) ==
    /\ regs' = [regs EXCEPT ![i].status = new]
    /\ registered_count' = registered_count + delta
    /\ UNCHANGED capacity

Join(u, status, delta) ==
    /\ Len(regs) < MaxRegistrations
    /\ ~ \E i \in DOMAIN regs : regs[i].user = u /\ Active(i)
    /\ regs' = Append(regs, [user |-> u, status |-> status, checked_in |-> FALSE])
    /\ registered_count' = registered_count + delta
    /\ UNCHANGED capacity

Seat(u) == HasSeat /\ Join(u, "registered", 1)

Queue(u) == ~HasSeat /\ Join(u, "waitlisted", 0)

Leave(i) == regs[i].status = "registered" /\ Become(i, "deleted", -1)

LeaveQueue(i) == regs[i].status = "waitlisted" /\ Become(i, "deleted", 0)

Promote(i) ==
    /\ regs[i].status = "waitlisted"
    /\ \A j \in DOMAIN regs : regs[j].status = "waitlisted" => i <= j
    /\ registered_count < capacity
    /\ Become(i, "registered", 1)

CheckIn(i) ==
    /\ Active(i)
    /\ regs' = [regs EXCEPT ![i].checked_in = TRUE]
    /\ UNCHANGED <<registered_count, capacity>>

SetCapacity(c) == capacity' = c /\ UNCHANGED <<regs, registered_count>>

Next ==
    \/ \E u \in User : Seat(u) \/ Queue(u)
    \/ \E i \in DOMAIN regs : Leave(i) \/ LeaveQueue(i) \/ Promote(i) \/ CheckIn(i)
    \/ \E c \in NewCapacities : SetCapacity(c)

Spec == Init /\ [][Next]_vars
=============================================================================
