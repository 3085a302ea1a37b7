---------------------------- MODULE EventProofs ----------------------------
(***************************************************************************)
(* What EventRegistration guarantees for any number of users, requests and *)
(* capacities.  The argument: registrations and promotions act behind the  *)
(* lock of the event row, so what they found there, that the user has no   *)
(* registration and that a seat is free, is still true at their commit;    *)
(* cancellations and check-ins act on what may be stale, but a row they    *)
(* write gets neither another user nor a second life.                      *)
(***************************************************************************)
EXTENDS EventRegistration, FiniteSetTheorems, TLAPS

Holds(r) == pc[r] \in {"check", "seat", "queue", "pick", "promoted"}

LockInv == \A r, q \in Request : Holds(r) /\ Holds(q) => r = q

(* What the argument of a request is, at the steps that use it. *)
ArgInv ==
    /\ arg \in [Request -> User \cup Nat]
    /\ \A r \in Request : pc[r] \in {"check", "seat", "queue"} => arg[r] \in User
    /\ \A r \in Request :
          pc[r] \in {"uncount", "delete", "promoted", "checkIn"} => arg[r] \in DOMAIN regs

(* What a request knows behind the lock. *)
KnowInv ==
    /\ \A r \in Request : pc[r] \in {"seat", "queue"} =>
          ActiveOf(arg[r]) = {} /\ Len(regs) < MaxRegistrations
    /\ \A r \in Request : pc[r] = "seat" => capacity = 0 \/ registered_count < capacity
    /\ \A r \in Request : pc[r] \in {"pick", "promoted"} => registered_count < capacity

(* OneActivePerUser without counting. *)
OnePerUser ==
    \A i, j \in DOMAIN regs :
        /\ regs[i].user = regs[j].user
        /\ regs[i].status # "deleted" /\ regs[j].status # "deleted"
        => i = j

Inv == TypeOK /\ LockInv /\ ArgInv /\ KnowInv /\ OnePerUser

-----------------------------------------------------------------------------
LEMMA InitInv == Init => Inv
<1> SUFFICES ASSUME Init PROVE Inv
  OBVIOUS
<1>1. regs \in Seq(Registration) /\ Len(regs) = 0 /\ DOMAIN regs = {}
  BY DEF Init
<1>2. pc \in [Request -> Step] /\ arg \in [Request -> User \cup Nat]
  BY DEF Init, Step
<1>3. TypeOK
  BY <1>1, <1>2, EventAssumption DEF Init, TypeOK
<1>4. LockInv /\ ArgInv /\ KnowInv /\ OnePerUser
  BY <1>1, <1>2 DEF Init, LockInv, ArgInv, KnowInv, OnePerUser, Holds
<1>5. QED
  BY <1>3, <1>4 DEF Inv

(* A step that reads and goes on: it must have found what the next step relies on. *)
LEMMA ReadKeeps ==
    ASSUME Inv, NEW r \in Request, NEW step \in Step, NEW x \in User \cup {0} \cup DOMAIN regs,
           Goto(r, step, x), UNCHANGED <<regs, event>>,
           step \in {"check", "seat", "queue", "pick", "promoted"} => Holds(r) \/ EventFree,
           step \in {"check", "seat", "queue"} => x \in User,
           step \in {"uncount", "delete", "promoted", "checkIn"} => x \in DOMAIN regs,
           step \in {"seat", "queue"} => ActiveOf(x) = {} /\ Len(regs) < MaxRegistrations,
           step = "seat" => capacity = 0 \/ registered_count < capacity,
           step \in {"pick", "promoted"} => registered_count < capacity
    PROVE  Inv'
<1>1. /\ pc \in [Request -> Step] /\ arg \in [Request -> User \cup Nat]
      /\ regs \in Seq(Registration) /\ x \in User \cup Nat
  BY DEF Inv, TypeOK, ArgInv
<1>2. /\ pc' \in [Request -> Step] /\ arg' \in [Request -> User \cup Nat]
      /\ pc'[r] = step /\ arg'[r] = x
      /\ \A q \in Request : q # r => pc'[q] = pc[q] /\ arg'[q] = arg[q]
  BY <1>1 DEF Goto
<1>3. regs' = regs /\ registered_count' = registered_count /\ capacity' = capacity
  BY DEF event
<1>4. TypeOK'
  BY <1>2, <1>3 DEF Inv, TypeOK
<1>5. LockInv'
  BY <1>2 DEF Inv, LockInv, Holds, EventFree
<1>6. ArgInv'
  BY <1>2, <1>3 DEF Inv, ArgInv
<1>7. KnowInv'
  <2>1. \A u : ActiveOf(u)' = ActiveOf(u)
    BY <1>3 DEF ActiveOf
  <2>2. QED
    BY <1>2, <1>3, <2>1 DEF Inv, KnowInv
<1>8. OnePerUser'
  BY <1>3 DEF Inv, OnePerUser
<1>9. QED
  BY <1>4, <1>5, <1>6, <1>7, <1>8 DEF Inv

(* A step that writes rows and ends, or goes on to the promotion: either nobody else is *)
(* behind the lock, or nothing changes that somebody there relies on.                   *)
LEMMA WriteKeeps ==
    ASSUME Inv, NEW r \in Request, NEW step \in {"idle", "promote"}, Goto(r, step, 0),
           regs' \in Seq(Registration), Len(regs) <= Len(regs'), Len(regs') <= MaxRegistrations,
           registered_count' \in Int, capacity' = capacity, OnePerUser',
           \/ Holds(r) \/ EventFree
           \/ /\ registered_count' = registered_count /\ Len(regs') = Len(regs)
              /\ \A u : ActiveOf(u)' \subseteq ActiveOf(u)
    PROVE  Inv'
<1>1. /\ pc \in [Request -> Step] /\ arg \in [Request -> User \cup Nat]
      /\ regs \in Seq(Registration) /\ step \in Step
  BY DEF Inv, TypeOK, ArgInv, Step
<1>2. /\ pc' \in [Request -> Step] /\ arg' \in [Request -> User \cup Nat]
      /\ pc'[r] = step /\ arg'[r] = 0
      /\ \A q \in Request : q # r => pc'[q] = pc[q] /\ arg'[q] = arg[q]
  BY <1>1 DEF Goto
<1>3. DOMAIN regs \subseteq DOMAIN regs'
  BY <1>1
<1>4. TypeOK'
  BY <1>2, <1>3 DEF Inv, TypeOK
<1>5. LockInv'
  BY <1>2 DEF Inv, LockInv, Holds
<1>6. ArgInv'
  <2>1. ASSUME NEW q \in Request, pc'[q] \in {"check", "seat", "queue"} PROVE arg'[q] \in User
    BY <1>2, <2>1 DEF Inv, ArgInv
  <2>2. ASSUME NEW q \in Request, pc'[q] \in {"uncount", "delete", "promoted", "checkIn"}
        PROVE  arg'[q] \in DOMAIN regs'
    BY <1>2, <1>3, <2>2 DEF Inv, ArgInv
  <2>3. QED
    BY <1>2, <2>1, <2>2 DEF ArgInv
<1>7. KnowInv'
  <2>1. CASE Holds(r) \/ EventFree
    <3>1. \A q \in Request : pc'[q] \notin {"seat", "queue", "pick", "promoted"}
      BY <1>2, <2>1 DEF Inv, LockInv, Holds, EventFree
    <3>2. QED
      BY <3>1 DEF KnowInv
  <2>2. CASE /\ registered_count' = registered_count /\ Len(regs') = Len(regs)
             /\ \A u : ActiveOf(u)' \subseteq ActiveOf(u)
    <3>1. ASSUME NEW q \in Request, pc'[q] \in {"seat", "queue"}
          PROVE  ActiveOf(arg[q])' = {} /\ Len(regs') < MaxRegistrations
      <4>1. q # r /\ pc[q] \in {"seat", "queue"} /\ arg'[q] = arg[q]
        BY <1>2, <3>1
      <4>2. ActiveOf(arg[q]) = {} /\ Len(regs) < MaxRegistrations
        BY <4>1 DEF Inv, KnowInv
      <4>3. {i \in DOMAIN regs' : regs'[i].user = arg[q] /\ regs'[i].status # "deleted"}
               \subseteq ActiveOf(arg[q])
        BY <2>2 DEF ActiveOf
      <4>4. QED
        BY <2>2, <4>1, <4>2, <4>3 DEF ActiveOf
    <3>2. QED
      BY <1>2, <2>2, <3>1 DEF Inv, KnowInv
  <2>3. QED
    BY <2>1, <2>2
<1>8. QED
  BY <1>4, <1>5, <1>6, <1>7 DEF Inv

(* Rows that are written keep their user, and a destroyed row stays destroyed. *)
LEMMA RowsKeep ==
    ASSUME Inv, regs' \in Seq(Registration), Len(regs') = Len(regs),
           \A i \in DOMAIN regs :
              /\ regs'[i].user = regs[i].user
              /\ regs'[i].status # "deleted" => regs[i].status # "deleted"
    PROVE  OnePerUser' /\ \A u : ActiveOf(u)' \subseteq ActiveOf(u)
<1>1. DOMAIN regs' = DOMAIN regs
  BY DEF Inv, TypeOK
<1>2. OnePerUser'
  BY <1>1 DEF Inv, OnePerUser
<1>3. \A u : ActiveOf(u)' \subseteq ActiveOf(u)
  BY <1>1 DEF ActiveOf
<1>4. QED
  BY <1>2, <1>3

(* A new row is for a user who had none. *)
LEMMA RegisterCommitKeeps == ASSUME Inv, NEW r \in Request, RegisterCommit(r) PROVE Inv'
<1>1. PICK row \in Registration : regs' = Append(regs, row) /\ row.user = arg[r]
  <2>1. pc[r] \in {"seat", "queue"}
    BY DEF RegisterCommit
  <2>2. arg[r] \in User
    BY <2>1 DEF Inv, ArgInv
  <2>3. \A status \in {"registered", "waitlisted"} :
           [user |-> arg[r], status |-> status, checked_in |-> FALSE] \in Registration
    BY <2>2 DEF Registration
  <2>4. QED
    BY <2>3 DEF RegisterCommit
<1>2. /\ pc[r] \in {"seat", "queue"} /\ Goto(r, "idle", 0) /\ capacity' = capacity
      /\ registered_count' \in Int
  BY DEF RegisterCommit, Finish, Inv, TypeOK
<1>3. ActiveOf(arg[r]) = {} /\ Len(regs) < MaxRegistrations
  BY <1>2 DEF Inv, KnowInv
<1>4. regs \in Seq(Registration) /\ Len(regs) \in Nat /\ MaxRegistrations \in Nat
  BY EventAssumption DEF Inv, TypeOK
<1>5. /\ regs' \in Seq(Registration) /\ Len(regs') = Len(regs) + 1
      /\ regs'[Len(regs) + 1] = row
      /\ \A i \in DOMAIN regs : regs'[i] = regs[i]
      /\ \A i \in DOMAIN regs' : i \in DOMAIN regs \/ i = Len(regs) + 1
  BY <1>1, <1>4
<1>6. OnePerUser'
  <2>1. \A i \in DOMAIN regs : regs[i].user = row.user => regs[i].status = "deleted"
    BY <1>1, <1>3 DEF ActiveOf
  <2>2. QED
    BY <1>5, <2>1 DEF Inv, OnePerUser
<1>7. Holds(r)
  BY <1>2 DEF Holds
<1>8. QED
  BY <1>2, <1>3, <1>4, <1>5, <1>6, <1>7, WriteKeeps

(* Cancellations: the row is destroyed. *)
LEMMA DestroyKeeps ==
    ASSUME Inv, NEW i \in DOMAIN regs, Destroy(i)
    PROVE  /\ regs' \in Seq(Registration) /\ Len(regs') = Len(regs)
           /\ OnePerUser' /\ \A u : ActiveOf(u)' \subseteq ActiveOf(u)
<1>1. regs \in Seq(Registration)
  BY DEF Inv, TypeOK
<1>2. regs[i] \in Registration
  BY <1>1
<1>3. [regs[i] EXCEPT !.status = "deleted"] \in Registration
  BY <1>2 DEF Registration
<1>4. regs' = [regs EXCEPT ![i] = [regs[i] EXCEPT !.status = "deleted"]]
  BY DEF Destroy
<1>5. regs' \in Seq(Registration) /\ Len(regs') = Len(regs)
  BY <1>1, <1>3, <1>4
<1>6. \A j \in DOMAIN regs :
         /\ regs'[j].user = regs[j].user
         /\ regs'[j].status # "deleted" => regs[j].status # "deleted"
  BY <1>1, <1>2, <1>4 DEF Registration
<1>7. QED
  BY <1>5, <1>6, RowsKeep

LEMMA CancelKeeps ==
    ASSUME Inv, NEW r \in Request, CancelRegistered(r) \/ CancelWaitlisted(r) PROVE Inv'
<1>1. arg[r] \in DOMAIN regs /\ Destroy(arg[r])
  BY DEF CancelRegistered, CancelWaitlisted, Inv, ArgInv
<1>2. /\ regs' \in Seq(Registration) /\ Len(regs') = Len(regs)
      /\ OnePerUser' /\ \A u : ActiveOf(u)' \subseteq ActiveOf(u)
  BY <1>1, DestroyKeeps
<1>3. Len(regs) \in Nat /\ Len(regs) <= MaxRegistrations /\ registered_count \in Int
  BY DEF Inv, TypeOK
<1>4. CASE CancelRegistered(r)
  <2>1. /\ EventFree /\ Goto(r, "promote", 0) /\ capacity' = capacity
        /\ registered_count' = registered_count - 1
    BY <1>4 DEF CancelRegistered
  <2>2. QED
    BY <1>2, <1>3, <2>1, WriteKeeps
<1>5. CASE CancelWaitlisted(r)
  <2>1. Goto(r, "idle", 0) /\ capacity' = capacity /\ registered_count' = registered_count
    BY <1>5 DEF CancelWaitlisted, Finish, event
  <2>2. QED
    BY <1>2, <1>3, <2>1, WriteKeeps
<1>6. QED
  BY <1>4, <1>5

LEMMA PromoteCommitKeeps == ASSUME Inv, NEW r \in Request, PromoteCommit(r) PROVE Inv'
<1> DEFINE i == arg[r]
           row == [regs[i] EXCEPT !.status = "registered"]
<1>1. i \in DOMAIN regs /\ regs \in Seq(Registration) /\ regs[i] \in Registration
  BY DEF PromoteCommit, Inv, TypeOK, ArgInv
<1>2. row \in Registration
  BY <1>1 DEF Registration
<1>3. \/ regs' = regs
      \/ regs[i].status # "deleted" /\ regs' = [regs EXCEPT ![i] = row]
  BY DEF PromoteCommit
<1>4. regs' \in Seq(Registration) /\ Len(regs') = Len(regs)
  BY <1>1, <1>2, <1>3
<1>5. \A j \in DOMAIN regs :
         /\ regs'[j].user = regs[j].user
         /\ regs'[j].status # "deleted" => regs[j].status # "deleted"
  BY <1>1, <1>3 DEF Registration
<1>6. /\ Holds(r) /\ Goto(r, "idle", 0) /\ capacity' = capacity
      /\ registered_count' \in Int
  BY DEF PromoteCommit, Finish, Holds, Inv, TypeOK
<1>7. Len(regs) \in Nat /\ Len(regs) <= MaxRegistrations
  BY DEF Inv, TypeOK
<1>8. QED
  BY <1>4, <1>5, <1>6, <1>7, RowsKeep, WriteKeeps

LEMMA CheckInCommitKeeps == ASSUME Inv, NEW r \in Request, CheckInCommit(r) PROVE Inv'
<1> DEFINE i == arg[r]
           row == [regs[i] EXCEPT !.checked_in = TRUE]
<1>1. i \in DOMAIN regs /\ regs \in Seq(Registration) /\ regs[i] \in Registration
  BY DEF CheckInCommit, Inv, TypeOK, ArgInv
<1>2. row \in Registration
  BY <1>1 DEF Registration
<1>3. regs' = regs \/ regs' = [regs EXCEPT ![i] = row]
  BY DEF CheckInCommit
<1>4. regs' \in Seq(Registration) /\ Len(regs') = Len(regs)
  BY <1>1, <1>2, <1>3
<1>5. \A j \in DOMAIN regs :
         /\ regs'[j].user = regs[j].user
         /\ regs'[j].status # "deleted" => regs[j].status # "deleted"
  BY <1>1, <1>3 DEF Registration
<1>6. /\ Goto(r, "idle", 0) /\ capacity' = capacity /\ registered_count' = registered_count
      /\ registered_count \in Int
  BY DEF CheckInCommit, Finish, event, Inv, TypeOK
<1>7. Len(regs) \in Nat /\ Len(regs) <= MaxRegistrations
  BY DEF Inv, TypeOK
<1>8. QED
  BY <1>4, <1>5, <1>6, <1>7, RowsKeep, WriteKeeps

LEMMA CapacityKeeps == ASSUME Inv, NEW c \in NewCapacities, UpdateCapacity(c) PROVE Inv'
<1>1. EventFree /\ capacity' = c /\ UNCHANGED <<regs, registered_count, pc, arg>>
  BY DEF UpdateCapacity
<1>2. TypeOK' /\ LockInv' /\ ArgInv' /\ OnePerUser'
  BY <1>1 DEF Inv, TypeOK, LockInv, ArgInv, OnePerUser, Holds
<1>3. KnowInv'
  BY <1>1 DEF KnowInv, EventFree
<1>4. QED
  BY <1>2, <1>3 DEF Inv

(* The steps that only read. *)
LEMMA RegisterReadKeeps ==
    ASSUME Inv, NEW r \in Request, RegisterCheck(r) \/ \E u \in User : RegisterLock(r, u)
    PROVE  Inv'
<1>1. CASE \E u \in User : RegisterLock(r, u)
  BY <1>1, ReadKeeps DEF RegisterLock, Step
<1>2. CASE RegisterCheck(r)
  <2>1. arg[r] \in User /\ Holds(r) /\ UNCHANGED <<regs, event>>
    BY <1>2 DEF RegisterCheck, Holds, Inv, ArgInv
  <2>2. CASE Goto(r, "idle", 0)
    BY <2>1, <2>2, ReadKeeps DEF Step
  <2>3. CASE /\ ActiveOf(arg[r]) = {} /\ Len(regs) < MaxRegistrations
             /\ Goto(r, IF Full THEN "queue" ELSE "seat", arg[r])
    <3>1. CASE Full
      BY <2>1, <2>3, <3>1, ReadKeeps DEF Step
    <3>2. CASE ~Full
      <4>1. capacity \in Nat /\ registered_count \in Int
        BY EventAssumption DEF Inv, TypeOK
      <4>2. capacity = 0 \/ registered_count < capacity
        BY <3>2, <4>1 DEF Full
      <4>3. QED
        BY <2>1, <2>3, <3>2, <4>2, ReadKeeps DEF Step
    <3>3. QED
      BY <3>1, <3>2
  <2>4. QED
    <3>1. Len(regs) \in Nat /\ MaxRegistrations \in Nat
      BY EventAssumption DEF Inv, TypeOK
    <3>2. QED
      BY <1>2, <2>2, <2>3, <3>1 DEF RegisterCheck, Finish
<1>3. QED
  BY <1>1, <1>2

LEMMA CancelReadKeeps ==
    ASSUME Inv, NEW r \in Request, NEW i \in DOMAIN regs, CancelRead(r, i) \/ CheckInRead(r, i)
    PROVE  Inv'
<1>1. \E step \in {"uncount", "delete", "checkIn"} : Goto(r, step, i)
  BY DEF CancelRead, CheckInRead
<1>2. UNCHANGED <<regs, event>>
  BY DEF CancelRead, CheckInRead
<1>3. QED
  BY <1>1, <1>2, ReadKeeps DEF Step

LEMMA PromoteReadKeeps ==
    ASSUME Inv, NEW r \in Request, PromoteLock(r) \/ PromotePick(r) PROVE Inv'
<1>1. UNCHANGED <<regs, event>>
  BY DEF PromoteLock, PromotePick
<1>2. CASE Goto(r, "idle", 0)
  BY <1>1, <1>2, ReadKeeps DEF Step
<1>3. CASE EventFree /\ capacity # 0 /\ ~Full /\ Goto(r, "pick", 0)
  <2>1. registered_count < capacity
    <3>1. capacity \in Nat /\ registered_count \in Int
      BY EventAssumption DEF Inv, TypeOK
    <3>2. QED
      BY <1>3, <3>1 DEF Full
  <2>2. QED
    BY <1>1, <1>3, <2>1, ReadKeeps DEF Step
<1>4. CASE pc[r] = "pick" /\ \E i \in DOMAIN regs : Goto(r, "promoted", i)
  <2>1. registered_count < capacity /\ Holds(r)
    BY <1>4 DEF Inv, KnowInv, Holds
  <2>2. QED
    BY <1>1, <1>4, <2>1, ReadKeeps DEF Step
<1>5. QED
  BY <1>2, <1>3, <1>4 DEF PromoteLock, PromotePick, Finish, Rows

LEMMA AbortKeeps == ASSUME Inv, NEW r \in Request, Abort(r) PROVE Inv'
BY ReadKeeps DEF Abort, Finish, Step

LEMMA NextInv == Inv /\ [Next]_vars => Inv'
<1> SUFFICES ASSUME Inv, [Next]_vars PROVE Inv'
  OBVIOUS
<1>1. ASSUME NEW r \in Registrant, RegisterStep(r) \/ \E u \in User : RegisterLock(r, u)
      PROVE  Inv'
  BY <1>1, RegisterReadKeeps, RegisterCommitKeeps DEF RegisterStep, Request
<1>2. ASSUME NEW r \in Canceller, CancelStep(r) \/ \E i \in DOMAIN regs : CancelRead(r, i)
      PROVE  Inv'
  BY <1>2, CancelKeeps, PromoteReadKeeps, PromoteCommitKeeps, CancelReadKeeps
     DEF CancelStep, Request
<1>3. ASSUME NEW r \in Scanner, checkIn(r) PROVE Inv'
  BY <1>3, CheckInCommitKeeps, CancelReadKeeps DEF checkIn, Request
<1>4. CASE updateEvent
  BY <1>4, CapacityKeeps DEF updateEvent
<1>5. ASSUME NEW r \in Request, Abort(r) PROVE Inv'
  BY <1>5, AbortKeeps
<1>6. CASE UNCHANGED vars
  BY <1>6 DEF vars, Inv, TypeOK, LockInv, ArgInv, KnowInv, OnePerUser, Holds, ActiveOf
<1>7. QED
  BY <1>1, <1>2, <1>3, <1>4, <1>5, <1>6 DEF Next

LEMMA Always == Spec => []Inv
BY InitInv, NextInv, PTL DEF Spec

-----------------------------------------------------------------------------
(* The rows and the requests are of the kinds the module names, whatever races and fails. *)
THEOREM EventTypeCorrect == Spec => []TypeOK
<1>1. Inv => TypeOK
  BY DEF Inv
<1>2. QED
  BY Always, <1>1, PTL

(* However many registrations, cancellations and promotions race, no user holds two      *)
(* registrations of the event, although the table has no unique index on event and user  *)
(* (eventService.js:127-270).                                                            *)
THEOREM RegistrationsAreUnique == Spec => []OneActivePerUser
<1>1. Inv => OneActivePerUser
  <2> SUFFICES ASSUME Inv, NEW u \in User PROVE Cardinality(ActiveOf(u)) <= 1
    BY DEF OneActivePerUser
  <2>1. CASE ActiveOf(u) = {}
    BY <2>1, FS_EmptySet
  <2>2. CASE ActiveOf(u) # {}
    <3>1. PICK i : i \in ActiveOf(u)
      BY <2>2
    <3>2. ActiveOf(u) = {i}
      BY <3>1 DEF ActiveOf, Inv, OnePerUser
    <3>3. QED
      BY <3>2, FS_Singleton
  <2>3. QED
    BY <2>1, <2>2
<1>2. QED
  BY Always, <1>1, PTL

(* The count only ever grows, by a registration or a promotion, below the capacity that is *)
(* in force, although updateEvent changes the capacity and cancellations the count between *)
(* a request's look at them and its commit (eventService.js:127-270, 469-540).             *)
THEOREM SeatsAreGrantedBelowCapacity == Spec => GrantsBelowCapacity
<1> DEFINE Granted == registered_count' > registered_count =>
                         capacity = 0 \/ registered_count < capacity
<1>1. Inv /\ [Next]_vars => [Granted]_vars
  <2> SUFFICES ASSUME Inv, Next, registered_count' > registered_count
               PROVE  capacity = 0 \/ registered_count < capacity
    OBVIOUS
  <2>1. registered_count \in Int
    BY DEF Inv, TypeOK
  <2>2. ASSUME NEW r \in Registrant, RegisterStep(r) PROVE pc[r] = "seat"
    BY <2>1, <2>2 DEF RegisterStep, RegisterCheck, RegisterCommit, event
  <2>3. ASSUME NEW r \in Canceller, CancelStep(r) PROVE pc[r] = "promoted"
    BY <2>1, <2>3 DEF CancelStep, CancelRegistered, CancelWaitlisted, PromoteLock, PromotePick,
                      PromoteCommit, event
  <2>4. \/ \E r \in Registrant : RegisterStep(r)
        \/ \E r \in Canceller : CancelStep(r)
    <3>1. registered_count' # registered_count
      BY <2>1
    <3>2. \A r, u : ~RegisterLock(r, u) /\ ~CancelRead(r, u) /\ ~CheckInRead(r, u)
      BY <3>1 DEF RegisterLock, CancelRead, CheckInRead, event
    <3>3. \A r : ~checkIn(r) /\ ~Abort(r)
      BY <3>1, <3>2 DEF checkIn, CheckInCommit, Abort, event
    <3>4. ~updateEvent
      BY <3>1 DEF updateEvent, UpdateCapacity
    <3>5. QED
      BY <3>2, <3>3, <3>4 DEF Next
  <2>5. \E r \in Request : pc[r] \in {"seat", "promoted"}
    BY <2>2, <2>3, <2>4 DEF Request
  <2>6. QED
    BY <2>5 DEF Inv, KnowInv
<1>2. QED
  BY Always, <1>1, PTL DEF Spec, GrantsBelowCapacity

-----------------------------------------------------------------------------
(* One cancellation at a time. *)

OneCanceller == \A q, r \in Canceller : q = r

Registered == Rows("registered")

(* Only a cancellation is at the steps of cancelRegistration and its promotion, and *)
(* the row it is about still has the status it read.                                *)
StatusInv ==
    \A r \in Request :
        /\ pc[r] \in {"uncount", "delete", "promote", "pick", "promoted"} => r \in Canceller
        /\ pc[r] = "uncount" => regs[arg[r]].status = "registered"
        /\ pc[r] \in {"delete", "promoted"} => regs[arg[r]].status = "waitlisted"

LEMMA RegisteredFinite ==
    ASSUME Inv
    PROVE  IsFiniteSet(Registered) /\ Cardinality(Registered) \in Nat
<1>1. DOMAIN regs = 1 .. Len(regs) /\ Len(regs) \in Nat
  BY DEF Inv, TypeOK
<1>2. IsFiniteSet(DOMAIN regs)
  BY <1>1, FS_Interval
<1>3. Registered \subseteq DOMAIN regs
  BY DEF Registered, Rows
<1>4. QED
  BY <1>2, <1>3, FS_Subset, FS_CardinalityType

(* A step of one slot leaves the others where they are. *)
LEMMA GotoMoves ==
    ASSUME Inv, NEW r \in Request, NEW step, NEW x, Goto(r, step, x)
    PROVE  /\ pc'[r] = step /\ arg'[r] = x
           /\ \A q \in Request : q # r => pc'[q] = pc[q] /\ arg'[q] = arg[q]
BY DEF Goto, Inv, TypeOK, ArgInv

LEMMA StatusStep ==
    ASSUME OneCanceller, Inv, StatusInv, [Next]_vars PROVE StatusInv'
<1>1. regs \in Seq(Registration) /\ Len(regs) \in Nat
  BY DEF Inv, TypeOK
(* Steps after which the slot is about no row, or about one it has just looked at. *)
<1>2. ASSUME NEW r \in Request, NEW step \in Step, NEW x, Goto(r, step, x),
             step \in {"uncount", "delete", "promote", "pick", "promoted"} => r \in Canceller,
             step = "uncount" => regs'[x].status = "registered",
             step \in {"delete", "promoted"} => regs'[x].status = "waitlisted",
             \/ r \in Canceller
             \/ \A i \in DOMAIN regs : regs'[i].status = regs[i].status
      PROVE  StatusInv'
  <2>1. /\ pc'[r] = step /\ arg'[r] = x
        /\ \A q \in Request : q # r => pc'[q] = pc[q] /\ arg'[q] = arg[q]
    BY <1>2, GotoMoves
  <2>2. ASSUME NEW q \in Request, q # r,
               pc[q] \in {"uncount", "delete", "promote", "pick", "promoted"}
        PROVE  q \in Canceller /\ r \notin Canceller
    BY <2>2 DEF StatusInv, OneCanceller
  <2>3. ASSUME NEW q \in Request, q # r, pc[q] \in {"uncount", "delete", "promoted"}
        PROVE  regs'[arg[q]].status = regs[arg[q]].status
    <3>1. arg[q] \in DOMAIN regs
      BY <2>3 DEF Inv, ArgInv
    <3>2. QED
      BY <1>2, <2>2, <2>3, <3>1
  <2>4. QED
    BY <1>2, <2>1, <2>2, <2>3 DEF StatusInv
<1>3. ASSUME NEW r \in Registrant, RegisterStep(r) \/ \E u \in User : RegisterLock(r, u)
      PROVE  StatusInv'
  <2>1. \A i \in DOMAIN regs : regs'[i].status = regs[i].status
    BY <1>1, <1>3 DEF RegisterStep, RegisterCheck, RegisterCommit, RegisterLock
  <2>2. \E step \in {"idle", "check", "seat", "queue"} : \E x : Goto(r, step, x)
    BY <1>3 DEF RegisterStep, RegisterCheck, RegisterCommit, RegisterLock, Finish
  <2>3. QED
    BY <1>2, <2>1, <2>2 DEF Request, Step
<1>4. ASSUME NEW r \in Canceller, NEW i \in DOMAIN regs, CancelRead(r, i) PROVE StatusInv'
  <2>1. regs[i] \in Registration
    BY <1>1
  <2>2. regs[i].status \in {"registered", "waitlisted"} /\ regs' = regs
    BY <1>4, <2>1 DEF CancelRead, Registration
  <2>3. CASE regs[i].status = "registered"
    BY <1>2, <1>4, <2>2, <2>3 DEF CancelRead, Request, Step
  <2>4. CASE regs[i].status = "waitlisted"
    BY <1>2, <1>4, <2>2, <2>4 DEF CancelRead, Request, Step
  <2>5. QED
    BY <2>2, <2>3, <2>4
<1>5. ASSUME NEW r \in Canceller, CancelStep(r) PROVE StatusInv'
  <2>1. CASE \E step \in {"idle", "promote", "pick"} : Goto(r, step, 0)
    BY <1>2, <2>1 DEF Request, Step
  <2>2. CASE \E i \in Rows("waitlisted") : Goto(r, "promoted", i) /\ regs' = regs
    BY <1>2, <2>2 DEF Request, Step, Rows
  <2>3. QED
    BY <1>5, <2>1, <2>2 DEF CancelStep, CancelRegistered, CancelWaitlisted, PromoteLock,
                            PromotePick, PromoteCommit, Finish
<1>6. ASSUME NEW r \in Scanner, checkIn(r) PROVE StatusInv'
  <2>1. \A i \in DOMAIN regs : regs'[i].status = regs[i].status
    <3>1. CASE CheckInCommit(r)
      <4>1. arg[r] \in DOMAIN regs /\ regs[arg[r]] \in Registration
        BY <1>1, <3>1 DEF CheckInCommit, Inv, ArgInv, Request
      <4>2. QED
        BY <1>1, <3>1, <4>1 DEF CheckInCommit, Registration
    <3>2. CASE regs' = regs
      BY <3>2
    <3>3. QED
      BY <1>6, <3>1, <3>2 DEF checkIn, CheckInRead
  <2>2. \E step \in {"idle", "checkIn"} : \E x : Goto(r, step, x)
    BY <1>6 DEF checkIn, CheckInRead, CheckInCommit, Finish
  <2>3. QED
    BY <1>2, <2>1, <2>2 DEF Request, Step
<1>7. CASE updateEvent \/ UNCHANGED vars
  BY <1>7 DEF updateEvent, UpdateCapacity, vars, StatusInv
<1>8. ASSUME NEW r \in Request, Abort(r) PROVE StatusInv'
  BY <1>2, <1>8 DEF Abort, Finish, Step
<1>9. QED
  BY <1>3, <1>4, <1>5, <1>6, <1>7, <1>8 DEF Next

(* The count and the rows change together. *)
LEMMA CountStep ==
    ASSUME Inv, StatusInv, CountIsRegistered, [Next]_vars PROVE CountIsRegistered'
<1>1. regs \in Seq(Registration) /\ Len(regs) \in Nat /\ registered_count \in Int
  BY DEF Inv, TypeOK
<1>2. registered_count = Cardinality(Registered)
  BY DEF CountIsRegistered, Registered
<1>3. CASE registered_count' = registered_count /\ Registered' = Registered
  BY <1>2, <1>3 DEF CountIsRegistered, Registered
<1>4. CASE /\ registered_count' = registered_count + 1
           /\ \E i : i \notin Registered /\ Registered' = Registered \cup {i}
  BY <1>2, <1>4, RegisteredFinite, FS_AddElement DEF CountIsRegistered, Registered
<1>5. CASE /\ registered_count' = registered_count - 1
           /\ \E i \in Registered : Registered' = Registered \ {i}
  BY <1>2, <1>5, RegisteredFinite, FS_RemoveElement DEF CountIsRegistered, Registered
<1>6. CASE UNCHANGED <<regs, registered_count>>
  BY <1>3, <1>6 DEF Registered, Rows
<1>7. ASSUME NEW r \in Request, RegisterCommit(r) PROVE CountIsRegistered'
  <2>1. CASE pc[r] = "queue"
    <3>1. /\ registered_count' = registered_count
          /\ Registered' = Registered
      BY <1>1, <1>7, <2>1 DEF RegisterCommit, Registered, Rows
    <3>2. QED
      BY <1>3, <3>1
  <2>2. CASE pc[r] = "seat"
    <3>1. /\ registered_count' = registered_count + 1
          /\ Registered' = Registered \cup {Len(regs) + 1}
          /\ Len(regs) + 1 \notin Registered
      BY <1>1, <1>7, <2>2 DEF RegisterCommit, Registered, Rows
    <3>2. QED
      BY <1>4, <3>1
  <2>3. QED
    BY <1>7, <2>1, <2>2 DEF RegisterCommit
<1>8. ASSUME NEW r \in Request, CancelRegistered(r) PROVE CountIsRegistered'
  <2>1. /\ arg[r] \in DOMAIN regs /\ regs[arg[r]].status = "registered"
        /\ regs[arg[r]] \in Registration
    BY <1>1, <1>8 DEF CancelRegistered, StatusInv, Inv, ArgInv
  <2>2. regs' = [regs EXCEPT ![arg[r]] = [regs[arg[r]] EXCEPT !.status = "deleted"]]
    BY <1>8 DEF CancelRegistered, Destroy
  <2>3. arg[r] \in Registered /\ Registered' = Registered \ {arg[r]}
    BY <1>1, <2>1, <2>2 DEF Registered, Rows, Registration
  <2>4. registered_count' = registered_count - 1
    BY <1>8 DEF CancelRegistered
  <2>5. QED
    BY <1>5, <2>3, <2>4
<1>9. ASSUME NEW r \in Request, CancelWaitlisted(r) PROVE CountIsRegistered'
  <2>1. /\ arg[r] \in DOMAIN regs /\ regs[arg[r]].status = "waitlisted"
        /\ regs[arg[r]] \in Registration
    BY <1>1, <1>9 DEF CancelWaitlisted, StatusInv, Inv, ArgInv
  <2>2. regs' = [regs EXCEPT ![arg[r]] = [regs[arg[r]] EXCEPT !.status = "deleted"]]
    BY <1>9 DEF CancelWaitlisted, Destroy
  <2>3. Registered' = Registered
    BY <1>1, <2>1, <2>2 DEF Registered, Rows, Registration
  <2>4. registered_count' = registered_count
    BY <1>9 DEF CancelWaitlisted, event
  <2>5. QED
    BY <1>3, <2>3, <2>4
<1>10. ASSUME NEW r \in Request, PromoteCommit(r) PROVE CountIsRegistered'
  <2>1. /\ arg[r] \in DOMAIN regs /\ regs[arg[r]].status = "waitlisted"
        /\ regs[arg[r]] \in Registration
    BY <1>1, <1>10 DEF PromoteCommit, StatusInv, Inv, ArgInv
  <2>2. regs' = [regs EXCEPT ![arg[r]] = [regs[arg[r]] EXCEPT !.status = "registered"]]
    BY <1>10, <2>1 DEF PromoteCommit
  <2>3. arg[r] \notin Registered /\ Registered' = Registered \cup {arg[r]}
    BY <1>1, <2>1, <2>2 DEF Registered, Rows, Registration
  <2>4. registered_count' = registered_count + 1
    BY <1>10 DEF PromoteCommit
  <2>5. QED
    BY <1>4, <2>3, <2>4
<1>11. ASSUME NEW r \in Request, CheckInCommit(r) PROVE CountIsRegistered'
  <2>1. arg[r] \in DOMAIN regs /\ regs[arg[r]] \in Registration
    BY <1>1, <1>11 DEF CheckInCommit, Inv, ArgInv
  <2>2. \/ regs' = regs
        \/ regs' = [regs EXCEPT ![arg[r]] = [regs[arg[r]] EXCEPT !.checked_in = TRUE]]
    BY <1>11 DEF CheckInCommit
  <2>3. Registered' = Registered
    BY <1>1, <2>1, <2>2 DEF Registered, Rows, Registration
  <2>4. registered_count' = registered_count
    BY <1>11 DEF CheckInCommit, event
  <2>5. QED
    BY <1>3, <2>3, <2>4
<1>12. ASSUME NEW r \in Registrant, RegisterStep(r) \/ \E u \in User : RegisterLock(r, u)
       PROVE  CountIsRegistered'
  BY <1>6, <1>7, <1>12 DEF RegisterStep, RegisterCheck, RegisterLock, event, Request
<1>13. ASSUME NEW r \in Canceller, CancelStep(r) \/ \E i \in DOMAIN regs : CancelRead(r, i)
       PROVE  CountIsRegistered'
  BY <1>6, <1>8, <1>9, <1>10, <1>13
     DEF CancelStep, CancelRead, PromoteLock, PromotePick, event, Request
<1>14. ASSUME NEW r \in Scanner, checkIn(r) PROVE CountIsRegistered'
  BY <1>6, <1>11, <1>14 DEF checkIn, CheckInRead, event, Request
<1>15. CASE updateEvent \/ UNCHANGED vars
  BY <1>6, <1>15 DEF updateEvent, UpdateCapacity, vars
<1>16. ASSUME NEW r \in Request, Abort(r) PROVE CountIsRegistered'
  BY <1>6, <1>16 DEF Abort, event
<1>17. QED
  BY <1>12, <1>13, <1>14, <1>15, <1>16 DEF Next

(* With one cancellation at a time registered_count is the number of registered rows,     *)
(* whatever registrations, check-ins and capacity changes race with it and whatever fails *)
(* (eventService.js:273-360, 469-540).                                                    *)
THEOREM CountIsExact == ASSUME OneCanceller PROVE Spec => []CountIsRegistered
<1>1. Init => StatusInv /\ CountIsRegistered
  <2> SUFFICES ASSUME Init PROVE StatusInv /\ CountIsRegistered
    OBVIOUS
  <2>1. Rows("registered") = {} /\ registered_count = 0
    BY DEF Init, Rows
  <2>2. QED
    BY <2>1, FS_EmptySet DEF Init, StatusInv, CountIsRegistered
<1>2. Inv /\ StatusInv /\ CountIsRegistered /\ [Next]_vars => StatusInv' /\ CountIsRegistered'
  BY OneCanceller, StatusStep, CountStep
<1>3. QED
  BY Always, <1>1, <1>2, PTL DEF Spec

(* The capacity that nobody changes stays what it was, and seats are granted below it only. *)
CapacityInv ==
    InitialCapacity > 0 /\ NewCapacities = {} =>
        capacity = InitialCapacity /\ registered_count <= capacity

LEMMA CapacityStep ==
    ASSUME Inv, CapacityInv, [Next]_vars,
           registered_count' > registered_count => capacity = 0 \/ registered_count < capacity
    PROVE  CapacityInv'
<1>. SUFFICES ASSUME InitialCapacity > 0, NewCapacities = {}
              PROVE  capacity' = InitialCapacity /\ registered_count' <= capacity'
  BY DEF CapacityInv
<1>1. capacity = InitialCapacity /\ registered_count <= capacity
  BY DEF CapacityInv
<1>2. InitialCapacity \in Nat /\ registered_count \in Int
  BY EventAssumption DEF Inv, TypeOK
<1>3. capacity' = capacity
  <2>1. ASSUME NEW r, RegisterStep(r) \/ \E u : RegisterLock(r, u) PROVE capacity' = capacity
    BY <2>1 DEF RegisterStep, RegisterCheck, RegisterCommit, RegisterLock, event
  <2>2. ASSUME NEW r, CancelStep(r) \/ \E i : CancelRead(r, i) PROVE capacity' = capacity
    BY <2>2 DEF CancelStep, CancelRegistered, CancelWaitlisted, PromoteLock, PromotePick,
                PromoteCommit, CancelRead, event
  <2>3. ASSUME NEW r, checkIn(r) \/ Abort(r) PROVE capacity' = capacity
    BY <2>3 DEF checkIn, CheckInRead, CheckInCommit, Abort, event
  <2>4. ~updateEvent
    BY DEF updateEvent
  <2>5. CASE UNCHANGED vars
    BY <2>5 DEF vars
  <2>. QED  BY <2>1, <2>2, <2>3, <2>4, <2>5 DEF Next
<1>4. registered_count' \in {registered_count, registered_count + 1, registered_count - 1}
  <2>1. ASSUME NEW r, RegisterStep(r) \/ \E u : RegisterLock(r, u)
        PROVE  registered_count' \in {registered_count, registered_count + 1}
    BY <2>1 DEF RegisterStep, RegisterCheck, RegisterCommit, RegisterLock, event
  <2>2. ASSUME NEW r, CancelStep(r) \/ \E i : CancelRead(r, i)
        PROVE  registered_count' \in {registered_count, registered_count + 1, registered_count - 1}
    BY <2>2 DEF CancelStep, CancelRegistered, CancelWaitlisted, PromoteLock, PromotePick,
                PromoteCommit, CancelRead, event
  <2>3. ASSUME NEW r, checkIn(r) \/ Abort(r) PROVE registered_count' = registered_count
    BY <2>3 DEF checkIn, CheckInRead, CheckInCommit, Abort, event
  <2>4. ~updateEvent
    BY DEF updateEvent
  <2>5. CASE UNCHANGED vars
    BY <2>5 DEF vars
  <2>. QED  BY <2>1, <2>2, <2>3, <2>4, <2>5 DEF Next
<1>. QED  BY <1>1, <1>2, <1>3, <1>4

(* What the user manual promises holds with one cancellation at a time, if the capacity    *)
(* stays what it is: no more users are registered than that, however many registrations    *)
(* race with it (eventService.js:127-270).  Two cancellations at once break it (run        *)
(* EventOverbooked).                                                                       *)
THEOREM SeatsStayWithinCapacity == ASSUME OneCanceller PROVE Spec => []RegisteredWithinCapacity
<1>1. Init => CapacityInv
  BY EventAssumption DEF Init, CapacityInv
<1>2. CapacityInv /\ CountIsRegistered => RegisteredWithinCapacity
  BY DEF CapacityInv, CountIsRegistered, RegisteredWithinCapacity
<1>3. /\ Inv /\ CapacityInv /\ [Next]_vars
      /\ [registered_count' > registered_count =>
             capacity = 0 \/ registered_count < capacity]_vars
      => CapacityInv'
  <2>1. UNCHANGED vars => registered_count' = registered_count
    BY DEF vars
  <2>2. Inv => registered_count \in Int
    BY DEF Inv, TypeOK
  <2>. QED  BY <2>1, <2>2, CapacityStep
<1>. QED
  BY Always, SeatsAreGrantedBelowCapacity, CountIsExact, OneCanceller, <1>1, <1>2, <1>3, PTL
     DEF Spec, GrantsBelowCapacity

-----------------------------------------------------------------------------
(* One request after the other. *)

(* What the steps of the waitlist know behind the lock: that no seat was free, and that *)
(* nobody has waited longer.                                                             *)
WaitInv ==
    \A r \in Request :
        /\ pc[r] = "queue" => Full
        /\ pc[r] = "promoted" => \A j \in Rows("waitlisted") : arg[r] <= j

LEMMA WaitStep == ASSUME Inv, WaitInv, [Next]_vars PROVE WaitInv'
<1>1. regs \in Seq(Registration) /\ Len(regs) \in Nat
  BY DEF Inv, TypeOK
(* Either nobody else is behind the lock, or nothing changes that somebody there knows. *)
<1>2. ASSUME NEW r \in Request, NEW step, NEW x, Goto(r, step, x),
             step = "queue" => Full',
             step = "promoted" => \A j \in Rows("waitlisted")' : x <= j,
             \/ Holds(r) \/ EventFree
             \/ UNCHANGED event /\ Rows("waitlisted")' \subseteq Rows("waitlisted")
      PROVE  WaitInv'
  <2>1. /\ pc'[r] = step /\ arg'[r] = x
        /\ \A q \in Request : q # r => pc'[q] = pc[q] /\ arg'[q] = arg[q]
    BY <1>2, GotoMoves
  <2>2. ASSUME NEW q \in Request, q # r, pc[q] \in {"queue", "promoted"}
        PROVE  UNCHANGED event /\ Rows("waitlisted")' \subseteq Rows("waitlisted")
    <3>1. Holds(q) /\ ~EventFree /\ ~Holds(r)
      BY <2>2 DEF Holds, EventFree, Inv, LockInv
    <3>2. QED
      BY <1>2, <3>1
  <2>3. ASSUME NEW q \in Request, q # r, pc[q] = "queue" PROVE Full'
    BY <2>2, <2>3 DEF WaitInv, Full, event
  <2>4. ASSUME NEW q \in Request, q # r, pc[q] = "promoted"
        PROVE  \A j \in Rows("waitlisted")' : arg[q] <= j
    BY <2>2, <2>4 DEF WaitInv
  <2>5. ASSUME NEW q \in Request
        PROVE  /\ pc'[q] = "queue" => Full'
               /\ pc'[q] = "promoted" => \A j \in Rows("waitlisted")' : arg'[q] <= j
    BY <1>2, <2>1, <2>3, <2>4
  <2>6. QED
    BY <2>5 DEF WaitInv
<1>3. ASSUME NEW r \in Request, NEW step \in Step \ {"queue", "promoted"}, NEW x,
             Goto(r, step, x), UNCHANGED <<regs, event>>
      PROVE  WaitInv'
  BY <1>2, <1>3 DEF Rows
<1>4. ASSUME NEW r \in Request, RegisterCheck(r) PROVE WaitInv'
  <2>1. CASE Full /\ Goto(r, "queue", arg[r])
    <3>1. Full'
      BY <1>4, <2>1 DEF RegisterCheck, Full, event
    <3>2. QED
      BY <1>2, <1>4, <2>1, <3>1 DEF RegisterCheck, Holds
  <2>2. CASE \E step \in {"idle", "seat"} : \E x : Goto(r, step, x)
    BY <1>3, <1>4, <2>2 DEF RegisterCheck, Step
  <2>3. QED
    BY <1>4, <2>1, <2>2 DEF RegisterCheck, Finish
<1>5. ASSUME NEW r \in Request, RegisterCommit(r) \/ PromoteCommit(r) PROVE WaitInv'
  BY <1>2, <1>5 DEF RegisterCommit, PromoteCommit, Finish, Holds
<1>6. ASSUME NEW r \in Request, CancelRegistered(r) PROVE WaitInv'
  BY <1>2, <1>6 DEF CancelRegistered
<1>7. ASSUME NEW r \in Request, CancelWaitlisted(r) \/ CheckInCommit(r) PROVE WaitInv'
  <2>1. arg[r] \in DOMAIN regs /\ regs[arg[r]] \in Registration
    BY <1>1, <1>7 DEF CancelWaitlisted, CheckInCommit, Inv, ArgInv
  <2>2. \/ regs' = regs
        \/ regs' = [regs EXCEPT ![arg[r]] = [regs[arg[r]] EXCEPT !.checked_in = TRUE]]
        \/ regs' = [regs EXCEPT ![arg[r]] = [regs[arg[r]] EXCEPT !.status = "deleted"]]
    BY <1>7 DEF CancelWaitlisted, CheckInCommit, Destroy
  <2>3. Rows("waitlisted")' \subseteq Rows("waitlisted")
    BY <1>1, <2>1, <2>2 DEF Rows, Registration
  <2>4. UNCHANGED event /\ Goto(r, "idle", 0)
    BY <1>7 DEF CancelWaitlisted, CheckInCommit, Finish
  <2>5. QED
    BY <1>2, <2>3, <2>4
<1>8. ASSUME NEW r \in Request, PromotePick(r) PROVE WaitInv'
  <2>1. CASE Goto(r, "idle", 0)
    BY <1>3, <1>8, <2>1 DEF PromotePick, Step
  <2>2. CASE \E i \in Rows("waitlisted") :
                (\A j \in Rows("waitlisted") : i <= j) /\ Goto(r, "promoted", i)
    <3>1. Rows("waitlisted")' = Rows("waitlisted") /\ Holds(r)
      BY <1>8 DEF PromotePick, Rows, Holds
    <3>2. QED
      BY <1>2, <2>2, <3>1
  <2>3. QED
    BY <1>8, <2>1, <2>2 DEF PromotePick, Finish
<1>9. ASSUME NEW r \in Request, NEW i, \/ RegisterLock(r, i) \/ CancelRead(r, i)
                                       \/ CheckInRead(r, i) \/ PromoteLock(r) \/ Abort(r)
      PROVE  WaitInv'
  <2>1. \E step \in Step \ {"queue", "promoted"} : \E x : Goto(r, step, x)
    BY <1>9 DEF RegisterLock, CancelRead, CheckInRead, PromoteLock, Abort, Finish, Step
  <2>2. UNCHANGED <<regs, event>>
    BY <1>9 DEF RegisterLock, CancelRead, CheckInRead, PromoteLock, Abort
  <2>3. QED
    BY <1>3, <2>1, <2>2
<1>10. ASSUME NEW c \in NewCapacities, UpdateCapacity(c) PROVE WaitInv'
  BY <1>10 DEF UpdateCapacity, EventFree, WaitInv
<1>11. CASE UNCHANGED vars
  BY <1>11 DEF vars, WaitInv, Full, Rows
<1>12. QED
  BY <1>4, <1>5, <1>6, <1>7, <1>8, <1>9, <1>10, <1>11
     DEF Next, RegisterStep, CancelStep, checkIn, updateEvent, Request

(* A commit is one step of the life cycle. *)
LEMMA RegisterImplements ==
    ASSUME Inv, WaitInv, NEW r \in Request, RegisterCommit(r) PROVE Lifecycle!Next
<1> DEFINE u == arg[r]
<1>1. u \in User /\ ActiveOf(u) = {} /\ Len(regs) < MaxRegistrations
  BY DEF RegisterCommit, Inv, ArgInv, KnowInv
<1>2. ~ \E i \in DOMAIN regs : regs[i].user = u /\ Lifecycle!Active(i)
  BY <1>1 DEF ActiveOf, Lifecycle!Active
<1>3. capacity' = capacity /\ registered_count \in Int /\ capacity \in Nat
  BY EventAssumption DEF RegisterCommit, Inv, TypeOK
<1>4. CASE pc[r] = "seat"
  <2>1. Lifecycle!HasSeat
    BY <1>4 DEF Inv, KnowInv, Lifecycle!HasSeat
  <2>2. /\ regs' = Append(regs, [user |-> u, status |-> "registered", checked_in |-> FALSE])
        /\ registered_count' = registered_count + 1
    BY <1>4 DEF RegisterCommit
  <2>3. Lifecycle!Seat(u)
    BY <1>1, <1>2, <1>3, <2>1, <2>2 DEF Lifecycle!Seat, Lifecycle!Join
  <2>4. QED
    BY <1>1, <2>3 DEF Lifecycle!Next
<1>5. CASE pc[r] = "queue"
  <2>1. ~Lifecycle!HasSeat
    BY <1>3, <1>5 DEF WaitInv, Full, Lifecycle!HasSeat
  <2>2. /\ regs' = Append(regs, [user |-> u, status |-> "waitlisted", checked_in |-> FALSE])
        /\ registered_count' = registered_count + 0
    BY <1>3, <1>5 DEF RegisterCommit
  <2>3. Lifecycle!Queue(u)
    BY <1>1, <1>2, <1>3, <2>1, <2>2 DEF Lifecycle!Queue, Lifecycle!Join
  <2>4. QED
    BY <1>1, <2>3 DEF Lifecycle!Next
<1>6. QED
  BY <1>4, <1>5 DEF RegisterCommit

LEMMA CancelImplements ==
    ASSUME Inv, StatusInv, WaitInv, NEW r \in Request,
           CancelRegistered(r) \/ CancelWaitlisted(r) \/ PromoteCommit(r)
    PROVE  Lifecycle!Next
<1> DEFINE i == arg[r]
<1>1. i \in DOMAIN regs /\ capacity' = capacity /\ registered_count \in Int
  BY DEF CancelRegistered, CancelWaitlisted, PromoteCommit, event, Inv, TypeOK, ArgInv
<1>2. CASE CancelRegistered(r)
  <2>1. Lifecycle!Leave(i)
    BY <1>1, <1>2 DEF CancelRegistered, Destroy, StatusInv, Lifecycle!Leave, Lifecycle!Become
  <2>2. QED
    BY <1>1, <2>1 DEF Lifecycle!Next
<1>3. CASE CancelWaitlisted(r)
  <2>1. Lifecycle!LeaveQueue(i)
    BY <1>1, <1>3 DEF CancelWaitlisted, Destroy, event, StatusInv, Lifecycle!LeaveQueue,
                      Lifecycle!Become
  <2>2. QED
    BY <1>1, <2>1 DEF Lifecycle!Next
<1>4. CASE PromoteCommit(r)
  <2>1. pc[r] = "promoted" /\ regs[i].status = "waitlisted" /\ registered_count < capacity
    BY <1>4 DEF PromoteCommit, StatusInv, Inv, KnowInv
  <2>2. \A j \in DOMAIN regs : regs[j].status = "waitlisted" => i <= j
    BY <2>1 DEF WaitInv, Rows
  <2>3. Lifecycle!Promote(i)
    BY <1>1, <1>4, <2>1, <2>2 DEF PromoteCommit, Lifecycle!Promote, Lifecycle!Become
  <2>4. QED
    BY <1>1, <2>3 DEF Lifecycle!Next
<1>5. QED
  BY <1>2, <1>3, <1>4

(* A check-in that comes after the cancellation changes nothing. *)
LEMMA CheckInImplements ==
    ASSUME Inv, NEW r \in Request, CheckInCommit(r)
    PROVE  Lifecycle!Next \/ UNCHANGED Lifecycle!vars
<1> DEFINE i == arg[r]
<1>1. i \in DOMAIN regs /\ UNCHANGED <<registered_count, capacity>>
  BY DEF CheckInCommit, event, Inv, ArgInv
<1>2. CASE regs[i].status = "deleted"
  BY <1>1, <1>2 DEF CheckInCommit, Lifecycle!vars
<1>3. CASE regs[i].status # "deleted"
  <2>1. Lifecycle!CheckIn(i)
    BY <1>1, <1>3 DEF CheckInCommit, Lifecycle!CheckIn, Lifecycle!Active
  <2>2. QED
    BY <1>1, <2>1 DEF Lifecycle!Next
<1>4. QED
  BY <1>2, <1>3

LEMMA LifecycleStep ==
    ASSUME Inv, StatusInv, WaitInv, [Next]_vars PROVE [Lifecycle!Next]_(Lifecycle!vars)
<1>1. CASE UNCHANGED <<regs, event>>
  BY <1>1 DEF event, Lifecycle!vars
<1>2. ASSUME NEW r \in Request, NEW i, \/ RegisterLock(r, i) \/ RegisterCheck(r)
                                       \/ CancelRead(r, i) \/ PromoteLock(r) \/ PromotePick(r)
                                       \/ CheckInRead(r, i) \/ Abort(r)
      PROVE  UNCHANGED <<regs, event>>
  BY <1>2 DEF RegisterLock, RegisterCheck, CancelRead, PromoteLock, PromotePick, CheckInRead,
              Abort
<1>3. CASE UNCHANGED vars
  BY <1>1, <1>3 DEF vars, event
<1>4. ASSUME NEW c \in NewCapacities, UpdateCapacity(c) PROVE Lifecycle!Next
  BY <1>4 DEF UpdateCapacity, Lifecycle!Next, Lifecycle!SetCapacity
<1>5. QED
  BY <1>1, <1>2, <1>3, <1>4, RegisterImplements, CancelImplements, CheckInImplements
     DEF Next, RegisterStep, CancelStep, checkIn, updateEvent, Request

(* With one cancellation at a time the statements of eventService.js implement             *)
(* EventLifecycle: whatever registrations, check-ins and capacity changes race and whatever *)
(* fails, each commit is one step of it, seats go to the waitlist in order, and the steps   *)
(* in between change nothing (eventService.js:127-360, 469-540).                            *)
THEOREM LifecycleIsImplemented == ASSUME OneCanceller PROVE Spec => ImplementsLifecycle
<1>1. Init => StatusInv /\ WaitInv /\ Lifecycle!Init
  BY DEF Init, StatusInv, WaitInv, Lifecycle!Init
<1>2. Inv /\ StatusInv /\ WaitInv /\ [Next]_vars => StatusInv' /\ WaitInv'
  BY OneCanceller, StatusStep, WaitStep
<1>3. Inv /\ StatusInv /\ WaitInv /\ [Next]_vars => [Lifecycle!Next]_(Lifecycle!vars)
  BY LifecycleStep
<1>4. QED
  BY Always, <1>1, <1>2, <1>3, PTL DEF Spec, ImplementsLifecycle, Lifecycle!Spec
=============================================================================
