---------------------------- MODULE SectionAdmin ----------------------------
(***************************************************************************)
(* Course enrolment while an administrator edits sections:                 *)
(* sectionController.updateSection reads the section, refuses a capacity   *)
(* below the enrolled_count it read, and later writes the columns whose    *)
(* requested value differs from the one it read.  Neither statement is in  *)
(* a transaction; the UPDATE waits for the row lock of enrollStudent,      *)
(* while approvals and drops take no lock before they count.               *)
(***************************************************************************)
EXTENDS Enrollment

CONSTANT Admin            \* slots for PUT /sections/:id requests being served at once

ASSUME AdminAssumption == Admin \cap Request = {}

VARIABLE edit             \* [Admin -> Edit \cup {NoEdit}]

adminVars == <<status, enrolled_count, capacity, is_active, pc, row, edit>>

Setting == [capacity : Capacities, is_active : BOOLEAN]

Edit == [section : Section, read : Setting, want : Setting]

NoEdit == [section |-> "none"]

(* The type invariant, of the edits in progress too. *)
AdminTypeOK == TypeOK /\ edit \in [Admin -> Edit \cup {NoEdit}]

(* Mutant: a capacity the request leaves out is taken to be 0. *)
UpdateSectionReadZero(a, s, want) ==
    /\ edit[a] = NoEdit
    /\ want.capacity = capacity[s] \/ want.capacity >= enrolled_count[s]
    /\ edit' = [edit EXCEPT ![a] =
          [section |-> s, want |-> [want EXCEPT !.capacity = IF @ = capacity[s] THEN 0 ELSE @],
           read |-> [capacity |-> capacity[s], is_active |-> is_active[s]]]]
    /\ UNCHANGED vars

(* A field the request leaves out is filled in from what was read; the capacity *)
(* is only checked if it is given.                                              *)
UpdateSectionRead(a, s, want) ==
    /\ edit[a] = NoEdit
    /\ want.capacity = capacity[s] \/ want.capacity >= enrolled_count[s]
    /\ edit' = [edit EXCEPT ![a] =
          [section |-> s, want |-> want,
           read |-> [capacity |-> capacity[s], is_active |-> is_active[s]]]]
    /\ UNCHANGED vars

UpdateSectionWrite(a) ==
    LET s == edit[a].section
        Changed(field) == edit[a].want[field] # edit[a].read[field] IN
    /\ edit[a] # NoEdit
    /\ SectionFree(s)
    /\ capacity' = IF Changed("capacity")
                   THEN [capacity EXCEPT ![s] = edit[a].want.capacity] ELSE capacity
    /\ is_active' = IF Changed("is_active")
                    THEN [is_active EXCEPT ![s] = edit[a].want.is_active] ELSE is_active
    /\ edit' = [edit EXCEPT ![a] = NoEdit]
    /\ UNCHANGED <<status, enrolled_count, pc, row>>

AdminInit == Init /\ edit = [a \in Admin |-> NoEdit]

AdminNext ==
    \/ Next /\ UNCHANGED edit
    \/ \E a \in Admin :
          \/ UpdateSectionWrite(a)
          \/ \E s \in Section, want \in Setting : UpdateSectionRead(a, s, want)

AdminSpec == AdminInit /\ [][AdminNext]_adminVars
=============================================================================
