---------------------------- MODULE RoomBooking ----------------------------
(***************************************************************************)
(* Reservations of one classroom on one day (reservationService).          *)
(* Creation is a transaction whose conflict query is a plain SELECT: it    *)
(* locks nothing, and no index keeps reservations apart.  Decisions read   *)
(* the status and update the row by its id.                                *)
(***************************************************************************)
EXTENDS Naturals, FiniteSets

CONSTANTS
    Booking,     \* ids of reservations
    Booker,      \* slots for requests to reserve
    Decider,     \* slots for approvals and rejections
    LastHour     \* bound: reservations run from one to another of the hours 0 .. LastHour

ASSUME BookingAssumption ==
    /\ IsFiniteSet(Booking) /\ IsFiniteSet(Booker) /\ IsFiniteSet(Decider)
    /\ Decider # {} /\ Booker \cap Decider = {} /\ LastHour \in Nat

VARIABLES
    bookings,    \* [id -> status, start and end], "none" before the row exists
    rbPc,        \* [slot -> the statement it is at]
    rbOf         \* [slot -> the times asked for, or the reservation being decided]

bookingVars == <<bookings, rbPc, rbOf>>

Hour == 0 .. LastHour
Times == {p \in Hour \X Hour : p[1] < p[2]}
BookingStatus == {"none", "pending", "approved", "rejected"}
NoBooking == [status |-> "none", start |-> 0, end |-> 0]
NoTimes == <<>>

Alive(b) == bookings[b].status \in {"pending", "approved"}

BookingTypeOK ==
    /\ bookings \in [Booking -> [status : BookingStatus, start : Hour, end : Hour]]
    /\ rbPc \in [Booker \cup Decider -> {"idle", "insert", "approve", "reject"}]
    /\ rbOf \in [Booker \cup Decider -> Times \cup Booking \cup {NoTimes}]

BookingInit ==
    /\ bookings = [b \in Booking |-> NoBooking]
    /\ rbPc = [s \in Booker \cup Decider |-> "idle"]
    /\ rbOf = [s \in Booker \cup Decider |-> NoTimes]

RbGoto(s, step, row) == rbPc' = [rbPc EXCEPT ![s] = step] /\ rbOf' = [rbOf EXCEPT ![s] = row]
RbDone(s) == RbGoto(s, "idle", NoTimes)

-----------------------------------------------------------------------------
(* createReservation *)

(* The bug CrowdBounded is for: the query looks at approved reservations only. *)
ConflictsApproved(start, end) ==
    {b \in Booking :
        /\ bookings[b].status = "approved"
        /\ bookings[b].start <= end /\ bookings[b].end >= start}

(* The three BETWEEN / covering cases of the query; BETWEEN includes its ends. *)
Conflicts(start, end) ==
    {b \in Booking :
        /\ Alive(b)
        /\ \/ start <= bookings[b].start /\ bookings[b].start <= end
           \/ start <= bookings[b].end /\ bookings[b].end <= end
           \/ bookings[b].start <= start /\ bookings[b].end >= end}

BookRead(s) ==
    /\ s \in Booker /\ rbPc[s] = "idle"
    /\ \E t \in Times : Conflicts(t[1], t[2]) = {} /\ RbGoto(s, "insert", t)
    /\ UNCHANGED bookings

Fresh == {b \in Booking : bookings[b].status = "none"}

(* INSERT and commit: 'approved' for staff, 'pending' for students. *)
BookInsert(s) ==
    /\ rbPc[s] = "insert" /\ Fresh # {}
    /\ \E status \in {"pending", "approved"} :
          bookings' = [bookings EXCEPT ![CHOOSE b \in Fresh : TRUE] =
                         [status |-> status, start |-> rbOf[s][1], end |-> rbOf[s][2]]]
    /\ RbDone(s)

-----------------------------------------------------------------------------
(* approveReservation and rejectReservation *)

DecideRead(s) ==
    /\ s \in Decider /\ rbPc[s] = "idle"
    /\ \E b \in Booking, step \in {"approve", "reject"} :
          bookings[b].status = "pending" /\ RbGoto(s, step, b)
    /\ UNCHANGED bookings

ApproveBooking(s) ==
    /\ rbPc[s] = "approve"
    /\ bookings' = [bookings EXCEPT ![rbOf[s]].status = "approved"]
    /\ RbDone(s)

RejectBooking(s) ==
    /\ rbPc[s] = "reject"
    /\ bookings' = [bookings EXCEPT ![rbOf[s]].status = "rejected"]
    /\ RbDone(s)

(* A rollback, a failed statement or a crash. *)
BookingAbort(s) ==
    /\ rbPc[s] # "idle"
    /\ RbDone(s) /\ UNCHANGED bookings

BookingNext ==
    \E s \in Booker \cup Decider :
        \/ BookRead(s) \/ BookInsert(s)
        \/ DecideRead(s) \/ ApproveBooking(s) \/ RejectBooking(s)
        \/ BookingAbort(s)

BookingSpec == BookingInit /\ [][BookingNext]_bookingVars

-----------------------------------------------------------------------------
(* Reservations overlap only when their requests did (two inserts behind the same     *)
(* query, or an approval that read 'pending' before a rejection and a new booking):   *)
(* however many requests follow each other, the live reservations at an hour are      *)
(* fewer than the requests served at once (reservationService.js:24-68, 141-148).     *)
At(h, start, end) == start <= h /\ h <= end

CrowdBounded ==
    \A h \in Hour :
        Cardinality({b \in Booking : Alive(b) /\ At(h, bookings[b].start, bookings[b].end)})
            <= Cardinality(Booker) + Cardinality(Decider) - 1

=============================================================================
