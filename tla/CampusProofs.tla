---------------------------- MODULE CampusProofs ----------------------------
(***************************************************************************)
(* The services of the campus share no table, so each of them, watched     *)
(* alone while they all stand in one state, does only what its own module  *)
(* allows, and what is proved of the module holds of the whole.  What      *)
(* Accounts, Notifications, Catalogue and MealReservation guarantee, for   *)
(* any number of requests at once, users, rows and seconds, comes first.   *)
(***************************************************************************)
EXTENDS MCCampus, TeachingProofs, TimetableProofs

-----------------------------------------------------------------------------
(* Accounts: registration, log-in and the reset of passwords               *)

LoginStep == {"unlock for right", "unlock for wrong", "right", "wrong"}
LoginRow == [pw : Nat, attempts : Nat, inactive : BOOLEAN]

(* What a request carries from one statement to the next; no password it has seen or *)
(* written is newer than the one stored.                                              *)
Carries(step, row, pw) ==
    /\ step = "register" => row.email \in Email /\ row.number \in Number
    /\ step \in LoginStep => row \in LoginRow /\ row.pw <= pw
    /\ step \in {"mark", "revoke"} => row.pw \in Nat /\ row.pw <= pw

CarryInv ==
    /\ endedFor <= password
    /\ \A v \in Visitor : Carries(acPc[v], acOf[v], password)

AccountTyped == AccountTypeOK /\ CarryInv

LEMMA AccountTypedInit == AccountInit => AccountTyped
<1> SUFFICES ASSUME AccountInit PROVE AccountTyped
  OBVIOUS
<1>1. 1 \in Second /\ 0 \in 0 .. MaxPassword
  BY AccountAssumption DEF Second
<1>2. AccountTypeOK
  BY <1>1 DEF AccountInit, AccountTypeOK, TokenStatus, LinkStatus
<1>3. CarryInv
  BY DEF AccountInit, CarryInv, Carries, LoginStep
<1>4. QED
  BY <1>2, <1>3 DEF AccountTyped

(* A step of one request, which may write a newer password. *)
LEMMA CarryStep ==
    ASSUME AccountTyped, NEW v \in Visitor, NEW step, NEW row, AcGoto(v, step, row),
           password' \in Nat, password <= password', Carries(step, row, password')
    PROVE  /\ DOMAIN acPc' = Visitor /\ DOMAIN acOf' = Visitor
           /\ \A w \in Visitor : Carries(acPc[w], acOf[w], password)'
<1>1. /\ DOMAIN acPc' = Visitor /\ DOMAIN acOf' = Visitor
      /\ acPc'[v] = step /\ acOf'[v] = row
      /\ \A w \in Visitor : w # v => acPc'[w] = acPc[w] /\ acOf'[w] = acOf[w]
  BY DEF AccountTyped, AccountTypeOK, AcGoto
<1>2. password \in Nat
  BY DEF AccountTyped, AccountTypeOK
<1>3. ASSUME NEW w \in Visitor, w # v PROVE Carries(acPc[w], acOf[w], password')
  BY <1>2, <1>3 DEF AccountTyped, CarryInv, Carries, LoginRow
<1>4. QED
  BY <1>1, <1>3

LEMMA AccountTypedStep == AccountTyped /\ [AccountNext]_accountVars => AccountTyped'
<1> SUFFICES ASSUME AccountTyped, [AccountNext]_accountVars PROVE AccountTyped'
  OBVIOUS
<1> USE AccountAssumption
<1>0. AccountTypeOK /\ CarryInv /\ password \in Nat /\ endedFor \in Nat
  BY DEF AccountTyped, AccountTypeOK
<1>1. CASE UNCHANGED accountVars
  BY <1>1 DEF accountVars, sessionVars, registryVars, AccountTyped, AccountTypeOK, CarryInv
<1>2. ASSUME NEW v \in Visitor, RegisterCheck(v) PROVE AccountTyped'
  <2>1. PICK e \in Email, n \in Number : AcGoto(v, "register", [email |-> e, number |-> n])
    BY <1>2 DEF RegisterCheck
  <2>2. Carries("register", [email |-> e, number |-> n], password)
    BY DEF Carries, LoginStep
  <2>3. UNCHANGED <<sessionVars, registryVars>>
    BY <1>2 DEF RegisterCheck
  <2>4. QED
    BY <1>0, <2>1, <2>2, <2>3, CarryStep
       DEF AccountTyped, AccountTypeOK, CarryInv, sessionVars, registryVars
<1>3. ASSUME NEW v \in Visitor, RegisterCommit(v) PROVE AccountTyped'
  <2>1. acOf[v].email \in Email /\ acOf[v].number \in Number
    BY <1>0, <1>3 DEF RegisterCommit, CarryInv, Carries
  <2>2. userRow' \subseteq Email /\ studentRow' \in [Number -> Email \cup {NoOne}]
    BY <1>0, <1>3, <2>1 DEF RegisterCommit, AccountTypeOK, registryVars
  <2>3. UNCHANGED sessionVars /\ AcGoto(v, "idle", Unread)
    BY <1>3 DEF RegisterCommit, AcDone
  <2>4. Carries("idle", Unread, password)
    BY DEF Carries, LoginStep
  <2>5. QED
    BY <1>0, <2>2, <2>3, <2>4, CarryStep
       DEF AccountTyped, AccountTypeOK, CarryInv, sessionVars
<1>4. ASSUME NEW v \in Visitor, LoginRead(v) PROVE AccountTyped'
  <2> DEFINE row == [pw |-> password, attempts |-> attempts, inactive |-> ~active]
  <2>0. PICK right \in BOOLEAN :
           AcGoto(v, CASE lock = "past" /\ right -> "unlock for right"
                       [] lock = "past" /\ ~right -> "unlock for wrong"
                       [] lock = "null" /\ right -> "right"
                       [] OTHER -> "wrong", row)
    BY <1>4, Zenon DEF LoginRead
  <2>1. PICK step \in LoginStep : AcGoto(v, step, row)
    <3>1. CASE lock = "past" /\ right
      BY <2>0, <3>1 DEF LoginStep
    <3>2. CASE lock = "past" /\ ~right
      BY <2>0, <3>2 DEF LoginStep
    <3>3. CASE lock = "null" /\ right
      BY <2>0, <3>3 DEF LoginStep
    <3>4. CASE ~(lock = "past" \/ (lock = "null" /\ right))
      BY <2>0, <3>4 DEF LoginStep
    <3>5. QED
      BY <3>1, <3>2, <3>3, <3>4
  <2>2. Carries(step, row, password)
    <3>1. PICK inactive \in BOOLEAN : inactive = ~active
      OBVIOUS
    <3>2. attempts \in Nat
      BY <1>0 DEF AccountTypeOK
    <3>3. row = [pw |-> password, attempts |-> attempts, inactive |-> inactive]
      BY <3>1
    <3>4. row \in LoginRow /\ row.pw = password
      BY <1>0, <3>2, <3>3 DEF LoginRow
    <3>5. step \notin {"register", "mark", "revoke"}
      BY <2>1 DEF LoginStep
    <3> HIDE DEF row
    <3>6. QED
      BY <1>0, <3>4, <3>5 DEF Carries
  <2>3. UNCHANGED <<sessionVars, registryVars>>
    BY <1>4 DEF LoginRead
  <2>4. QED
    BY <1>0, <2>1, <2>2, <2>3, CarryStep
       DEF AccountTyped, AccountTypeOK, CarryInv, sessionVars, registryVars
<1>5. ASSUME NEW v \in Visitor, LoginUnlock(v) \/ LoginClear(v) \/ LoginActivate(v)
      PROVE  AccountTyped'
  <2>1. acOf[v] \in LoginRow /\ acOf[v].pw <= password
    BY <1>0, <1>5 DEF LoginUnlock, LoginClear, LoginActivate, CarryInv, Carries, LoginStep
  <2>2. PICK step \in LoginStep, row \in LoginRow : AcGoto(v, step, row) /\ row.pw = acOf[v].pw
    <3>1. /\ [acOf[v] EXCEPT !.attempts = 0] \in LoginRow
          /\ [acOf[v] EXCEPT !.attempts = 0].pw = acOf[v].pw
          /\ [acOf[v] EXCEPT !.inactive = FALSE] \in LoginRow
          /\ [acOf[v] EXCEPT !.inactive = FALSE].pw = acOf[v].pw
      BY <2>1 DEF LoginRow
    <3>2. \E step \in LoginStep : \/ AcGoto(v, step, [acOf[v] EXCEPT !.attempts = 0])
                                  \/ AcGoto(v, step, [acOf[v] EXCEPT !.inactive = FALSE])
      BY <1>5 DEF LoginUnlock, LoginClear, LoginActivate, LoginStep
    <3>3. QED
      BY <3>1, <3>2
  <2>3. Carries(step, row, password)
    BY <1>0, <2>1, <2>2 DEF Carries, LoginStep
  <2>4. /\ UNCHANGED <<password, second, refresh, grantedFor, link, endedFor, late, registryVars>>
        /\ attempts' \in Nat /\ lock' \in {"null", "future", "past"} /\ tries' \in Nat
        /\ active' \in BOOLEAN
    <3>0. /\ attempts \in Nat /\ lock \in {"null", "future", "past"} /\ tries \in Nat
          /\ active \in BOOLEAN
      BY <1>0 DEF AccountTypeOK
    <3>1. CASE LoginUnlock(v)
      BY <3>0, <3>1 DEF LoginUnlock
    <3>2. CASE LoginClear(v)
      BY <3>0, <3>2 DEF LoginClear
    <3>3. CASE LoginActivate(v)
      BY <3>0, <3>3 DEF LoginActivate
    <3>4. QED
      BY <1>5, <3>1, <3>2, <3>3
  <2>5. QED
    BY <1>0, <2>2, <2>3, <2>4, CarryStep DEF AccountTyped, AccountTypeOK, CarryInv, registryVars
<1>6. ASSUME NEW v \in Visitor, LoginFail(v) PROVE AccountTyped'
  <2>1. acOf[v] \in LoginRow
    BY <1>0, <1>6 DEF LoginFail, CarryInv, Carries, LoginStep
  <2>2. attempts' \in Nat /\ lock' \in {"null", "future", "past"} /\ tries' \in Nat
    BY <1>0, <1>6, <2>1 DEF LoginFail, LoginRow, AccountTypeOK
  <2>3. Carries("idle", Unread, password)
    BY DEF Carries, LoginStep
  <2>4. AcGoto(v, "idle", Unread) /\ UNCHANGED <<password, active, second, refresh, grantedFor,
                                                 link, endedFor, late, registryVars>>
    BY <1>6 DEF LoginFail, AcDone
  <2>5. QED
    BY <1>0, <2>2, <2>3, <2>4, CarryStep DEF AccountTyped, AccountTypeOK, CarryInv, registryVars
<1>7. ASSUME NEW v \in Visitor, LoginInsert(v) PROVE AccountTyped'
  <2>1. acOf[v] \in LoginRow /\ acOf[v].pw <= password
    BY <1>0, <1>7 DEF LoginInsert, CarryInv, Carries, LoginStep
  <2>2. acOf[v].pw \in 0 .. MaxPassword
    BY <1>0, <2>1 DEF LoginRow, AccountTypeOK
  <2>3. /\ refresh' \in [Second -> TokenStatus] /\ grantedFor' \in [Second -> 0 .. MaxPassword]
        /\ late' \subseteq Second
    BY <1>0, <1>7, <2>2 DEF LoginInsert, AccountTypeOK, TokenStatus
  <2>4. Carries("idle", Unread, password)
    BY DEF Carries, LoginStep
  <2>5. AcGoto(v, "idle", Unread) /\ UNCHANGED <<password, active, attempts, lock, second, link,
                                                 endedFor, tries, registryVars>>
    BY <1>7 DEF LoginInsert, AcDone
  <2>6. QED
    BY <1>0, <2>3, <2>4, <2>5, CarryStep DEF AccountTyped, AccountTypeOK, CarryInv, registryVars
<1>8. ASSUME NEW v \in Visitor, NEW step \in {"forgot", "reset", "change", "activate", "idle"},
             NEW row, AcGoto(v, step, row),
             UNCHANGED <<password, attempts, lock, second, grantedFor, endedFor, late, tries,
                         registryVars>>,
             active' \in BOOLEAN, refresh' \in [Second -> TokenStatus],
             link' \in [Second -> LinkStatus]
      PROVE  AccountTyped'
  <2>1. Carries(step, row, password)
    BY DEF Carries, LoginStep
  <2>2. QED
    BY <1>0, <1>8, <2>1, CarryStep DEF AccountTyped, AccountTypeOK, CarryInv, registryVars
<1>9. ASSUME NEW v \in Visitor,
             \/ ForgotVoid(v) \/ ForgotInsert(v) \/ ResetFind(v) \/ ChangeRead(v)
             \/ ResendRead(v) \/ ResendWrite(v) \/ AccountAbort(v)
      PROVE  AccountTyped'
  <2>1. CASE ForgotVoid(v)
    <3>1. link' \in [Second -> LinkStatus]
      BY <1>0, <2>1 DEF ForgotVoid, AccountTypeOK, LinkStatus
    <3>2. QED
      BY <1>0, <1>8, <2>1, <3>1 DEF ForgotVoid, AccountTypeOK
  <2>2. CASE ForgotInsert(v)
    <3>1. link' \in [Second -> LinkStatus]
      BY <1>0, <2>2 DEF ForgotInsert, AccountTypeOK, LinkStatus
    <3>2. QED
      BY <1>0, <1>8, <2>2, <3>1 DEF ForgotInsert, AcDone, AccountTypeOK
  <2>3. CASE ResetFind(v)
    <3>1. PICK l \in Second : AcGoto(v, "reset", [link |-> l])
      BY <2>3 DEF ResetFind
    <3>2. QED
      BY <1>0, <1>8, <2>3, <3>1 DEF ResetFind, sessionVars, AccountTypeOK
  <2>4. CASE ChangeRead(v)
    BY <1>0, <1>8, <2>4 DEF ChangeRead, sessionVars, AccountTypeOK
  <2>5. CASE ResendRead(v)
    BY <1>0, <1>8, <2>5 DEF ResendRead, sessionVars, AccountTypeOK
  <2>6. CASE ResendWrite(v)
    BY <1>0, <1>8, <2>6 DEF ResendWrite, AcDone, AccountTypeOK
  <2>7. CASE AccountAbort(v)
    BY <1>0, <1>8, <2>7 DEF AccountAbort, AcDone, sessionVars, AccountTypeOK
  <2>8. QED
    BY <1>9, <2>1, <2>2, <2>3, <2>4, <2>5, <2>6, <2>7
<1>10. ASSUME NEW v \in Visitor, ResetWrite(v) \/ ChangeWrite(v) PROVE AccountTyped'
  <2>1. /\ password' = password + 1 /\ password' \in 0 .. MaxPassword
        /\ UNCHANGED <<active, attempts, lock, second, refresh, grantedFor, link, endedFor, late,
                       tries, registryVars>>
    BY <1>0, <1>10 DEF ResetWrite, ChangeWrite, AccountTypeOK
  <2>2. PICK step, row : AcGoto(v, step, row) /\ Carries(step, row, password')
    <3>1. CASE ResetWrite(v)
      <4>1. AcGoto(v, "mark", [link |-> acOf[v].link, pw |-> password + 1])
        BY <3>1 DEF ResetWrite
      <4>2. Carries("mark", [link |-> acOf[v].link, pw |-> password + 1], password')
        BY <1>0, <2>1 DEF Carries, LoginStep
      <4>3. QED
        BY <4>1, <4>2
    <3>2. CASE ChangeWrite(v)
      <4>1. AcGoto(v, "idle", Unread) /\ Carries("idle", Unread, password')
        BY <3>2 DEF ChangeWrite, AcDone, Carries, LoginStep
      <4>2. QED
        BY <4>1
    <3>3. QED
      BY <1>10, <3>1, <3>2
  <2>3. endedFor' <= password'
    BY <1>0, <2>1 DEF CarryInv
  <2>4. QED
    BY <1>0, <2>1, <2>2, <2>3, CarryStep DEF AccountTyped, AccountTypeOK, CarryInv, registryVars
<1>11. ASSUME NEW v \in Visitor, ResetMark(v) PROVE AccountTyped'
  <2>1. Carries("revoke", [pw |-> acOf[v].pw], password)
    BY <1>0, <1>11 DEF ResetMark, CarryInv, Carries, LoginStep
  <2>2. link' \in [Second -> LinkStatus]
    BY <1>0, <1>11 DEF ResetMark, AccountTypeOK, LinkStatus
  <2>3. AcGoto(v, "revoke", [pw |-> acOf[v].pw])
        /\ UNCHANGED <<password, active, attempts, lock, second, refresh, grantedFor, endedFor,
                       late, tries, registryVars>>
    BY <1>11 DEF ResetMark
  <2>4. QED
    BY <1>0, <2>1, <2>2, <2>3, CarryStep DEF AccountTyped, AccountTypeOK, CarryInv, registryVars
<1>12. ASSUME NEW v \in Visitor, ResetRevoke(v) PROVE AccountTyped'
  <2>1. acOf[v].pw \in Nat /\ acOf[v].pw <= password
    BY <1>0, <1>12 DEF ResetRevoke, CarryInv, Carries
  <2>2. endedFor' \in 0 .. MaxPassword /\ endedFor' <= password
    BY <1>0, <1>12, <2>1 DEF ResetRevoke, AccountTypeOK, CarryInv
  <2>3. refresh' \in [Second -> TokenStatus]
    BY <1>12 DEF ResetRevoke, Revoked, TokenStatus
  <2>4. Carries("idle", Unread, password)
    BY DEF Carries, LoginStep
  <2>5. AcGoto(v, "idle", Unread) /\ UNCHANGED <<password, active, attempts, lock, second,
                                                 grantedFor, link, late, tries, registryVars>>
    BY <1>12 DEF ResetRevoke, AcDone
  <2>6. QED
    BY <1>0, <2>2, <2>3, <2>4, <2>5, CarryStep DEF AccountTyped, AccountTypeOK, CarryInv, registryVars
<1>13. ASSUME Logout \/ SetActive \/ NextSecond \/ LockEnds \/ TokenExpires PROVE AccountTyped'
  <2>1. UNCHANGED <<password, attempts, grantedFor, endedFor, late, tries, registryVars, acPc, acOf>>
    BY <1>13 DEF Logout, SetActive, NextSecond, LockEnds, TokenExpires
  <2>2. /\ active' \in BOOLEAN /\ second' \in Second /\ lock' \in {"null", "future", "past"}
        /\ refresh' \in [Second -> TokenStatus] /\ link' \in [Second -> LinkStatus]
    <3>1. CASE Logout \/ SetActive \/ LockEnds
      BY <1>0, <3>1 DEF Logout, SetActive, LockEnds, AccountTypeOK, TokenStatus
    <3>2. CASE NextSecond
      BY <1>0, <3>2 DEF NextSecond, AccountTypeOK, Second
    <3>3. CASE TokenExpires
      BY <1>0, <3>3 DEF TokenExpires, AccountTypeOK, TokenStatus, LinkStatus
    <3>4. QED
      BY <1>13, <3>1, <3>2, <3>3
  <2>3. QED
    BY <1>0, <2>1, <2>2 DEF AccountTyped, AccountTypeOK, CarryInv, Carries, registryVars
<1>14. QED
  BY <1>1, <1>2, <1>3, <1>4, <1>5, <1>6, <1>7, <1>9, <1>10, <1>11, <1>12, <1>13
     DEF AccountNext, Registration, SignIn, Recovery, Activation, AccountFailure

(* The tables and the requests are of the kinds the module names, and no password a *)
(* request carries is newer than the stored one (authService.js:60-549).            *)
THEOREM AccountTypeCorrect == AccountSpec => [](AccountTypeOK /\ CarryInv)
<1>1. AccountTyped => AccountTypeOK /\ CarryInv
  BY DEF AccountTyped
<1>2. QED
  BY AccountTypedInit, AccountTypedStep, <1>1, PTL DEF AccountSpec

LEMMA AccountTypedAlways == AccountSpec => []AccountTyped
BY AccountTypedInit, AccountTypedStep, PTL DEF AccountSpec

-----------------------------------------------------------------------------
(* Only the commit of a registration touches the registry. *)
LEMMA RegistryFrame ==
    ASSUME [AccountNext]_accountVars, \A v \in Visitor : ~RegisterCommit(v)
    PROVE  UNCHANGED registryVars
BY DEF AccountNext, accountVars, Registration, SignIn, Recovery, Activation, AccountFailure,
       RegisterCheck, LoginRead, LoginUnlock, LoginFail, LoginClear, LoginActivate, LoginInsert,
       LockEnds, NextSecond, ForgotVoid, ForgotInsert, ResetFind, ResetWrite, ResetMark,
       ResetRevoke, ChangeRead, ChangeWrite, Logout, TokenExpires, SetActive, ResendRead,
       ResendWrite, AccountAbort

(* The two INSERTs go together: a new address takes a number nobody has. *)
LEMMA WholeStep ==
    AccountTyped /\ WholeRegistrations /\ [AccountNext]_accountVars => WholeRegistrations'
<1> SUFFICES ASSUME AccountTyped, WholeRegistrations, [AccountNext]_accountVars
             PROVE  WholeRegistrations'
  OBVIOUS
<1>1. CASE UNCHANGED registryVars
  BY <1>1 DEF registryVars, WholeRegistrations
<1>2. ASSUME NEW v \in Visitor, RegisterCommit(v), ~UNCHANGED registryVars
      PROVE  WholeRegistrations'
  <2>1. PICK e \in Email, n \in Number :
           /\ e \notin userRow /\ studentRow[n] = NoOne
           /\ userRow' = userRow \cup {e} /\ studentRow' = [studentRow EXCEPT ![n] = e]
    BY <1>2 DEF RegisterCommit, AccountTyped, CarryInv, Carries
  <2>2. /\ studentRow'[n] = e
        /\ \A m \in Number : m # n => studentRow'[m] = studentRow[m]
    BY <2>1 DEF AccountTyped, AccountTypeOK
  <2>3. e # NoOne /\ \A f \in userRow : f # NoOne
    BY AccountAssumption DEF AccountTyped, AccountTypeOK, NoOne
  <2>4. \A m \in Number : studentRow[m] # e
    BY <2>1, <2>3 DEF WholeRegistrations
  <2>5. Cardinality({m \in Number : studentRow'[m] = e}) = 1
    <3>1. {m \in Number : studentRow'[m] = e} = {n}
      BY <2>2, <2>4
    <3>2. QED
      BY <3>1, FS_Singleton
  <2>6. ASSUME NEW f \in userRow PROVE Cardinality({m \in Number : studentRow'[m] = f}) = 1
    <3>1. {m \in Number : studentRow'[m] = f} = {m \in Number : studentRow[m] = f}
      BY <2>1, <2>2, <2>3
    <3>2. QED
      BY <3>1 DEF WholeRegistrations
  <2>7. \A m \in Number : studentRow'[m] # NoOne => studentRow'[m] \in userRow'
    BY <2>1, <2>2 DEF WholeRegistrations
  <2>8. QED
    BY <2>1, <2>5, <2>6, <2>7 DEF WholeRegistrations
<1>3. QED
  BY <1>1, <1>2, RegistryFrame

(* Of the users and their student rows neither is ever left alone, and no address or *)
(* number is taken twice, however registrations race (authService.js:70-112).         *)
THEOREM RegistrationsAreWhole == AccountSpec => []WholeRegistrations
<1>1. AccountInit => WholeRegistrations
  BY DEF AccountInit, WholeRegistrations
<1>2. QED
  BY AccountTypedAlways, WholeStep, <1>1, PTL DEF AccountSpec

-----------------------------------------------------------------------------
LEMMA SessionsStep ==
    AccountTyped /\ SessionsEndWithReset /\ [AccountNext]_accountVars => SessionsEndWithReset'
<1> SUFFICES ASSUME AccountTyped, SessionsEndWithReset, [AccountNext]_accountVars
             PROVE  SessionsEndWithReset'
  OBVIOUS
<1>0. /\ refresh \in [Second -> TokenStatus] /\ grantedFor \in [Second -> 0 .. MaxPassword]
      /\ second \in Second /\ late \subseteq Second
      /\ password \in Nat /\ endedFor \in Nat /\ endedFor <= password
  BY DEF AccountTyped, AccountTypeOK, CarryInv
<1>1. CASE /\ UNCHANGED <<grantedFor, endedFor, late>>
           /\ \A t \in Second : CanRefresh(t)' => CanRefresh(t)
  BY <1>1 DEF SessionsEndWithReset
<1>2. ASSUME NEW v \in Visitor, LoginInsert(v) PROVE SessionsEndWithReset'
  <2>1. acOf[v] \in LoginRow /\ acOf[v].pw <= password
    BY <1>2 DEF LoginInsert, AccountTyped, CarryInv, Carries, LoginStep
  <2>2. CASE refresh[second] # "none"
    BY <1>1, <1>2, <2>2 DEF LoginInsert, CanRefresh
  <2>3. CASE refresh[second] = "none"
    <3>1. /\ refresh' = [refresh EXCEPT ![second] = "valid"]
          /\ grantedFor' = [grantedFor EXCEPT ![second] = acOf[v].pw]
          /\ late' = IF acOf[v].pw < password THEN late \cup {second} ELSE late
          /\ endedFor' = endedFor
      BY <1>2, <2>3 DEF LoginInsert
    <3>2. ASSUME NEW t \in Second, t # second, CanRefresh(t)', grantedFor'[t] < endedFor'
          PROVE  t \in late'
      BY <1>0, <3>1, <3>2 DEF SessionsEndWithReset, CanRefresh
    <3>3. grantedFor'[second] < endedFor' => second \in late'
      BY <1>0, <2>1, <3>1 DEF LoginRow
    <3>4. QED
      BY <3>2, <3>3 DEF SessionsEndWithReset
  <2>4. QED
    BY <2>2, <2>3
<1>3. ASSUME NEW v \in Visitor, ResetRevoke(v) PROVE SessionsEndWithReset'
  BY <1>3 DEF ResetRevoke, Revoked, SessionsEndWithReset, CanRefresh
<1>4. CASE Logout
  BY <1>0, <1>1, <1>4 DEF Logout, CanRefresh
<1>5. CASE TokenExpires
  <2>1. UNCHANGED <<grantedFor, endedFor, late>>
    BY <1>5 DEF TokenExpires
  <2>2. \A t \in Second : CanRefresh(t)' => CanRefresh(t)
    BY <1>0, <1>5 DEF TokenExpires, CanRefresh
  <2>3. QED
    BY <1>1, <2>1, <2>2
<1>6. CASE UNCHANGED <<refresh, grantedFor, endedFor, late>>
  BY <1>1, <1>6 DEF CanRefresh
<1>7. \/ UNCHANGED <<refresh, grantedFor, endedFor, late>> \/ Logout \/ TokenExpires
      \/ \E v \in Visitor : LoginInsert(v) \/ ResetRevoke(v)
  BY DEF AccountNext, accountVars, Registration, SignIn, Recovery, Activation, AccountFailure,
         sessionVars, RegisterCheck, RegisterCommit, LoginRead, LoginUnlock, LoginFail,
         LoginClear, LoginActivate, LockEnds, NextSecond, ForgotVoid, ForgotInsert, ResetFind,
         ResetWrite, ResetMark, ChangeRead, ChangeWrite, SetActive, ResendRead, ResendWrite,
         AccountAbort
<1>8. QED
  BY <1>2, <1>3, <1>4, <1>5, <1>6, <1>7

(* Once a reset has revoked the tokens, an older password has a session only through a *)
(* log-in that overlapped the reset (authService.js:159-319, 499-549).                 *)
THEOREM ResetsEndSessions == AccountSpec => []SessionsEndWithReset
<1>1. AccountInit => SessionsEndWithReset
  BY DEF AccountInit, SessionsEndWithReset, CanRefresh
<1>2. QED
  BY AccountTypedAlways, SessionsStep, <1>1, PTL DEF AccountSpec

-----------------------------------------------------------------------------
(* Two requests at once: how many wrong passwords are judged before the    *)
(* lock.  A log-in writes what it read plus one, so each that is at its    *)
(* last statement may set the counter back to its own reading; but it does *)
(* so once, and reads again what it wrote.                                 *)

TwoAtOnce ==
    /\ \E v, w \in Visitor : v # w /\ Visitor = {v, w}
    /\ 2 * TryBound >= MAX_ATTEMPTS * (MAX_ATTEMPTS + 1) + 2

Twice(n) == n * (n - 1) + 2

(* After t wrong passwords, with two readings x and y of the counter to go *)
(* on from: x counts up to the lock, then y starts again from y + 1.       *)
Fits(t, x, y) == 2 * t + 2 * (MAX_ATTEMPTS - x) + Twice(MAX_ATTEMPTS - y) <= 2 * TryBound

Reading == {n \in Nat : n < MAX_ATTEMPTS}
Wrong(v) == acPc[v] = "wrong"

TriesInv ==
    /\ \A v \in Visitor : Wrong(v) => acOf[v].attempts \in Reading
    /\ lock = "null" =>
          /\ attempts \in Reading /\ Fits(tries, attempts, attempts)
          /\ \A v \in Visitor : Wrong(v) => /\ Fits(tries, attempts, acOf[v].attempts)
                                            /\ Fits(tries, acOf[v].attempts, attempts)
          /\ \A v, w \in Visitor : v # w /\ Wrong(v) /\ Wrong(w) =>
                Fits(tries, acOf[v].attempts, acOf[w].attempts)
    /\ lock # "null" =>
          /\ tries <= TryBound
          /\ \A v \in Visitor : Wrong(v) => tries + 1 <= TryBound
          /\ \A v, w \in Visitor : v # w /\ Wrong(v) /\ Wrong(w) => tries + 2 <= TryBound

(* The numbers n * (n - 1) + 2 grow by 2 * n.                              *)
LEMMA TwiceGrows ==
    /\ \A n \in Nat : Twice(n) \in Int /\ Twice(n) >= 2 /\ Twice(n + 1) = Twice(n) + 2 * n
    /\ \A m, n \in Nat : m <= n => Twice(m) <= Twice(n)
<1>1. ASSUME NEW n \in Nat
      PROVE  Twice(n) \in Int /\ Twice(n) >= 2 /\ Twice(n + 1) = Twice(n) + 2 * n
  <2>1. (n + 1) * n = n * (n - 1) + 2 * n
    OBVIOUS
  <2>2. n * (n - 1) >= 0
    OBVIOUS
  <2>. QED  BY <2>1, <2>2 DEF Twice
<1>2. ASSUME NEW m \in Nat, NEW n \in Nat, m <= n
      PROVE  Twice(m) <= Twice(n)
  <2>1. CASE m = n
    BY <1>1, <2>1
  <2>2. CASE m < n
    <3>1. PICK k \in Nat : n = m + k /\ k >= 1
      BY <1>2, <2>2
    <3>2. n * (n - 1) = m * (m - 1) + 2 * (m * k) + k * (k - 1)
      BY <3>1
    <3>3. m * k \in Nat /\ k * (k - 1) \in Nat
      BY <3>1
    <3>4. m * (m - 1) \in Int
      OBVIOUS
    <3>. QED  BY <3>2, <3>3, <3>4 DEF Twice
  <2>. QED  BY <1>2, <2>1, <2>2
<1>. QED  BY <1>1, <1>2

(* A wrong password uses up one of the two readings: what it sets the      *)
(* counter to fits with the other one, and with itself.                    *)
LEMMA FitsFacts ==
    ASSUME TwoAtOnce, NEW t \in Nat, NEW x \in Reading, NEW y \in Reading
    PROVE  /\ Fits(0, x, y)
           /\ Fits(t, x, y) => t + 2 <= TryBound
           /\ Fits(t, x, y) /\ x + 1 \in Reading => Fits(t + 1, x + 1, y)
           /\ Fits(t, x, y) /\ y + 1 \in Reading => Fits(t + 1, x, y + 1) /\ Fits(t + 1, y + 1, y + 1)
<1>1. MAX_ATTEMPTS \in Nat /\ TryBound \in Nat
  BY AccountAssumption
<1>2. /\ x \in Nat /\ x < MAX_ATTEMPTS /\ y \in Nat /\ y < MAX_ATTEMPTS
      /\ MAX_ATTEMPTS - y \in Nat /\ MAX_ATTEMPTS - y <= MAX_ATTEMPTS
  BY <1>1 DEF Reading
<1>3. PICK m \in Nat : m = MAX_ATTEMPTS - y /\ m >= 1
  BY <1>1, <1>2
<1>4. /\ Twice(m) \in Int /\ Twice(m) >= 2 /\ Twice(m) <= Twice(MAX_ATTEMPTS)
      /\ Twice(MAX_ATTEMPTS) \in Int
  BY <1>1, <1>2, <1>3, TwiceGrows
<1>5. Fits(0, x, y)
  <2>1. MAX_ATTEMPTS * (MAX_ATTEMPTS + 1) + 2 = 2 * MAX_ATTEMPTS + Twice(MAX_ATTEMPTS)
    BY <1>1 DEF Twice
  <2>. QED  BY <1>1, <1>2, <1>3, <1>4, <2>1 DEF TwoAtOnce, Fits
<1>6. Fits(t, x, y) => t + 2 <= TryBound
  BY <1>1, <1>2, <1>3, <1>4 DEF Fits
<1>7. ASSUME Fits(t, x, y), x + 1 \in Reading
      PROVE  Fits(t + 1, x + 1, y)
  BY <1>1, <1>2, <1>3, <1>4, <1>7 DEF Fits
<1>8. ASSUME Fits(t, x, y), y + 1 \in Reading
      PROVE  Fits(t + 1, x, y + 1) /\ Fits(t + 1, y + 1, y + 1)
  <2>1. PICK n \in Nat : m = n + 1 /\ n >= 1 /\ MAX_ATTEMPTS - (y + 1) = n
    BY <1>1, <1>2, <1>3, <1>8 DEF Reading
  <2>2. Twice(m) = Twice(n) + 2 * n /\ Twice(n) \in Int
    BY <2>1, TwiceGrows
  <2>. QED  BY <1>1, <1>2, <1>3, <1>8, <2>1, <2>2 DEF Fits
<1>. QED  BY <1>5, <1>6, <1>7, <1>8

(* Most statements leave the counter alone and give no slot a reading.     *)
LEMMA CounterFrame ==
    ASSUME AccountTyped, [AccountNext]_accountVars, ~LockEnds,
           \A v \in Visitor : ~(LoginRead(v) \/ LoginUnlock(v) \/ LoginFail(v) \/ LoginClear(v))
    PROVE  /\ UNCHANGED <<attempts, lock, tries>>
           /\ \A v \in Visitor : Wrong(v)' => Wrong(v) /\ acOf'[v] = acOf[v]
<1>1. ASSUME NEW v \in Visitor, NEW step, step # "wrong", NEW row, AcGoto(v, step, row)
      PROVE  \A w \in Visitor : Wrong(w)' => Wrong(w) /\ acOf'[w] = acOf[w]
  BY <1>1 DEF AccountTyped, AccountTypeOK, AcGoto, Wrong
<1>2. ASSUME NEW v \in Visitor,
             \/ RegisterCheck(v) \/ RegisterCommit(v) \/ LoginActivate(v) \/ LoginInsert(v)
             \/ ForgotVoid(v) \/ ForgotInsert(v) \/ ResetFind(v) \/ ResetWrite(v) \/ ResetMark(v)
             \/ ResetRevoke(v) \/ ChangeRead(v) \/ ChangeWrite(v) \/ ResendRead(v) \/ ResendWrite(v)
             \/ AccountAbort(v)
      PROVE  /\ UNCHANGED <<attempts, lock, tries>>
             /\ \E step, row : step # "wrong" /\ AcGoto(v, step, row)
  <2>1. UNCHANGED <<attempts, lock, tries>>
    BY <1>2 DEF RegisterCheck, RegisterCommit, LoginActivate, LoginInsert, ForgotVoid, ForgotInsert,
       ResetFind, ResetWrite, ResetMark, ResetRevoke, ChangeRead, ChangeWrite, ResendRead,
       ResendWrite, AccountAbort, sessionVars
  <2>2. \E row : \E step \in {"register", "right", "forgot", "reset", "mark", "revoke", "change",
                              "activate", "idle"} : AcGoto(v, step, row)
    BY <1>2 DEF RegisterCheck, RegisterCommit, LoginActivate, LoginInsert, ForgotVoid, ForgotInsert,
       ResetFind, ResetWrite, ResetMark, ResetRevoke, ChangeRead, ChangeWrite, ResendRead,
       ResendWrite, AccountAbort, AcDone
  <2>. QED  BY <2>1, <2>2
<1>3. ASSUME Logout \/ SetActive \/ NextSecond \/ TokenExpires \/ UNCHANGED accountVars
      PROVE  UNCHANGED <<attempts, lock, tries, acPc, acOf>>
  BY <1>3 DEF Logout, SetActive, NextSecond, TokenExpires, accountVars, sessionVars
<1>. QED
  BY <1>1, <1>2, <1>3
  DEF AccountNext, Registration, SignIn, Recovery, Activation, AccountFailure, Wrong

LEMMA TriesStep ==
    TwoAtOnce /\ AccountTyped /\ TriesInv /\ [AccountNext]_accountVars => TriesInv'
<1>. SUFFICES ASSUME TwoAtOnce, AccountTyped, TriesInv, [AccountNext]_accountVars
              PROVE  TriesInv'
  OBVIOUS
<1>0. /\ tries \in Nat /\ MAX_ATTEMPTS \in Nat \ {0} /\ TryBound \in Nat /\ 0 \in Reading
      /\ DOMAIN acPc = Visitor /\ DOMAIN acOf = Visitor
  BY AccountAssumption DEF AccountTyped, AccountTypeOK, Reading
<1>1. CASE /\ UNCHANGED <<attempts, lock, tries>>
           /\ \A v \in Visitor : Wrong(v)' => Wrong(v) /\ acOf'[v] = acOf[v]
  BY <1>1 DEF TriesInv, Wrong
<1>2. CASE LockEnds
  BY <1>2 DEF LockEnds, TriesInv, Wrong
<1>3. ASSUME NEW v \in Visitor, LoginRead(v)
      PROVE  TriesInv'
  <2>1. UNCHANGED <<attempts, lock, tries>>
    BY <1>3 DEF LoginRead, sessionVars
  <2>2. /\ \A w \in Visitor : w # v => acPc'[w] = acPc[w] /\ acOf'[w] = acOf[w]
        /\ acOf'[v].attempts = attempts
        /\ Wrong(v)' => lock = "null"
    <3>. DEFINE row == [pw |-> password, attempts |-> attempts, inactive |-> ~active]
    <3>0. PICK right \in BOOLEAN :
             AcGoto(v, CASE lock = "past" /\ right -> "unlock for right"
                         [] lock = "past" /\ ~right -> "unlock for wrong"
                         [] lock = "null" /\ right -> "right"
                         [] OTHER -> "wrong", row)
      BY <1>3, Zenon DEF LoginRead
    <3>1. PICK step : /\ AcGoto(v, step, row) /\ (step = "wrong" => lock # "past")
      <4>1. CASE lock = "past" /\ right
        <5>1. AcGoto(v, "unlock for right", row) /\ "unlock for right" # "wrong"
          BY <3>0, <4>1
        <5>. QED  BY <5>1
      <4>2. CASE lock = "past" /\ ~right
        <5>1. AcGoto(v, "unlock for wrong", row) /\ "unlock for wrong" # "wrong"
          BY <3>0, <4>2
        <5>. QED  BY <5>1
      <4>3. CASE lock # "past"
        BY <3>0, <4>3
      <4>. QED  BY <4>1, <4>2, <4>3
    <3>2. lock \in {"null", "past"}
      BY <1>3 DEF LoginRead, AccountTyped, AccountTypeOK
    <3>3. row.attempts = attempts
      OBVIOUS
    <3>. HIDE DEF row
    <3>. QED  BY <1>0, <3>1, <3>2, <3>3 DEF AcGoto, Wrong
  <2>. QED  BY <2>1, <2>2 DEF TriesInv, Wrong
<1>4. ASSUME NEW v \in Visitor, LoginUnlock(v) \/ LoginClear(v)
      PROVE  TriesInv'
  <2>1. attempts' = 0 /\ tries' = 0
    BY <1>4 DEF LoginUnlock, LoginClear
  <2>2. /\ \A w \in Visitor : w # v => acPc'[w] = acPc[w] /\ acOf'[w] = acOf[w]
        /\ acOf'[v].attempts = 0
    <3>1. acOf[v] \in LoginRow
      BY <1>4 DEF LoginUnlock, LoginClear, AccountTyped, CarryInv, Carries, LoginStep
    <3>2. PICK row, step : AcGoto(v, step, row) /\ row = [acOf[v] EXCEPT !.attempts = 0]
      BY <1>4 DEF LoginUnlock, LoginClear
    <3>3. row.attempts = 0
      BY <3>1, <3>2 DEF LoginRow
    <3>. QED  BY <1>0, <3>2, <3>3 DEF AcGoto
  <2>3. \A w \in Visitor : Wrong(w)' => acOf'[w].attempts \in Reading
    BY <1>0, <2>2 DEF TriesInv, Wrong
  <2>4. \A x, y \in Reading : Fits(0, x, y) /\ 2 <= TryBound
    <3>. SUFFICES ASSUME NEW x \in Reading, NEW y \in Reading
                  PROVE  Fits(0, x, y) /\ 2 <= TryBound
      OBVIOUS
    <3>1. 0 \in Nat
      OBVIOUS
    <3>. QED  BY <1>0, <3>1, FitsFacts
  <2>. QED  BY <1>0, <2>1, <2>3, <2>4 DEF TriesInv
<1>5. ASSUME NEW v \in Visitor, LoginFail(v)
      PROVE  TriesInv'
  <2>1. PICK r : r = acOf[v].attempts
    OBVIOUS
  <2>2. Wrong(v) /\ r \in Reading
    BY <1>5, <2>1 DEF LoginFail, TriesInv, Wrong
  <2>3. /\ attempts' = r + 1 /\ (lock' = IF r + 1 >= MAX_ATTEMPTS THEN "future" ELSE lock)
        /\ tries' = IF tries > TryBound THEN tries ELSE tries + 1
        /\ acPc'[v] = "idle" /\ \A w \in Visitor : w # v => acPc'[w] = acPc[w] /\ acOf'[w] = acOf[w]
    BY <1>0, <1>5, <2>1 DEF LoginFail, LocksAt, AcDone, AcGoto
  <2>4. \A x, y \in Visitor : x # v /\ y # v => x = y
    BY DEF TwoAtOnce
  <2>5. \A w \in Visitor : Wrong(w)' => w # v /\ Wrong(w) /\ acOf'[w] = acOf[w]
    BY <2>3 DEF Wrong
  <2>6. tries' = tries + 1
    <3>1. tries <= TryBound
      <4>1. CASE lock = "null"
        BY <1>0, <4>1, FitsFacts DEF TriesInv
      <4>2. CASE lock # "null"
        BY <4>2 DEF TriesInv
      <4>. QED  BY <4>1, <4>2
    <3>. QED  BY <1>0, <2>3, <3>1
  <2>7. CASE lock # "null"
    <3>1. lock' # "null"
      BY <2>3, <2>7
    <3>2. tries + 1 <= TryBound /\ \A w \in Visitor : Wrong(w)' => tries + 2 <= TryBound
      BY <2>2, <2>5, <2>7 DEF TriesInv
    <3>. QED  BY <1>0, <2>4, <2>5, <2>6, <3>1, <3>2 DEF TriesInv
  <2>8. CASE lock = "null" /\ r + 1 >= MAX_ATTEMPTS
    <3>1. tries + 2 <= TryBound
      BY <1>0, <2>1, <2>2, <2>8, FitsFacts DEF TriesInv
    <3>. QED  BY <1>0, <2>3, <2>4, <2>5, <2>6, <2>8, <3>1 DEF TriesInv
  <2>9. CASE lock = "null" /\ ~(r + 1 >= MAX_ATTEMPTS)
    <3>1. r + 1 \in Reading /\ lock' = "null"
      BY <1>0, <2>2, <2>3, <2>9 DEF Reading
    <3>2. attempts \in Reading /\ Fits(tries, attempts, r)
      BY <2>1, <2>2, <2>9 DEF TriesInv
    <3>3. Fits(tries + 1, r + 1, r + 1)
      BY <1>0, <2>2, <3>1, <3>2, FitsFacts
    <3>4. ASSUME NEW w \in Visitor, Wrong(w)'
          PROVE  /\ Fits(tries + 1, r + 1, acOf'[w].attempts)
                 /\ Fits(tries + 1, acOf'[w].attempts, r + 1)
      <4>1. PICK y : y = acOf[w].attempts
        OBVIOUS
      <4>2. w # v /\ Wrong(w) /\ acOf'[w].attempts = y
        BY <2>5, <3>4, <4>1
      <4>3. y \in Reading /\ Fits(tries, r, y) /\ Fits(tries, y, r)
        BY <2>1, <2>2, <2>9, <4>1, <4>2 DEF TriesInv
      <4>4. Fits(tries + 1, r + 1, y)
        BY <1>0, <2>2, <3>1, <4>3, FitsFacts
      <4>5. Fits(tries + 1, y, r + 1)
        BY <1>0, <2>2, <3>1, <4>3, FitsFacts
      <4>. QED  BY <4>2, <4>4, <4>5
    <3>5. \A w \in Visitor : Wrong(w)' => acOf'[w].attempts \in Reading
      BY <2>5 DEF TriesInv
    <3>. QED  BY <2>3, <2>4, <2>5, <2>6, <3>1, <3>3, <3>4, <3>5 DEF TriesInv
  <2>. QED  BY <2>7, <2>8, <2>9
<1>. QED  BY <1>1, <1>2, <1>3, <1>4, <1>5, CounterFrame

(* With two requests served at once at most M * (M + 1) / 2 + 1 wrong      *)
(* passwords are judged before the account locks, for every limit M: 16,   *)
(* not 5, for the code's own MAX_ATTEMPTS (authService.js:203-250).        *)
THEOREM TriesAreBounded == TwoAtOnce => (AccountSpec => []TriesBounded)
<1>. SUFFICES ASSUME TwoAtOnce
              PROVE  AccountSpec => []TriesBounded
  OBVIOUS
<1>1. AccountInit => TriesInv
  <2>. SUFFICES ASSUME AccountInit
                PROVE  TriesInv
    OBVIOUS
  <2>1. 0 \in Reading /\ 0 \in Nat
    BY AccountAssumption DEF Reading
  <2>2. Fits(0, 0, 0)
    BY <2>1, FitsFacts
  <2>. QED  BY <2>1, <2>2 DEF AccountInit, TriesInv, Wrong
<1>2. AccountTyped /\ TriesInv => TriesBounded
  <2>. SUFFICES ASSUME AccountTyped, TriesInv
                PROVE  TriesBounded
    OBVIOUS
  <2>0. tries \in Nat /\ TryBound \in Nat
    BY AccountAssumption DEF AccountTyped, AccountTypeOK
  <2>1. CASE lock = "null"
    BY <2>0, <2>1, FitsFacts DEF TriesInv, TriesBounded
  <2>2. CASE lock # "null"
    BY <2>2 DEF TriesInv, TriesBounded
  <2>. QED  BY <2>1, <2>2
<1>3. TwoAtOnce /\ AccountTyped /\ TriesInv /\ [AccountNext]_accountVars => TriesInv'
  BY TriesStep
<1>. QED  BY <1>1, <1>2, <1>3, AccountTypedAlways, PTL DEF AccountSpec

-----------------------------------------------------------------------------
(* Notifications: a push follows the preferences.  Everything hinges on    *)
(* when a slot read a user's preferences, before or after the user opted   *)
(* out.                                                                    *)

DeskSteps == {"idle", "mark", "delete", "create", "write", "insert", "renew"}
HeraldSteps == {"idle", "prefs", "find", "send", "drop"}
Slots == Desk \cup Herald

(* What a slot holds. *)
Held == [who : Owners, what : Note \cup Endpoint \cup {"none", "show", "on", "off"},
         read : {"none", "on", "off", "in", "out"}, stale : BOOLEAN, devices : SUBSET Endpoint]

NoteTyped ==
    /\ NoteTypeOK
    /\ ntOf \in [Slots -> Held]
    /\ \A d \in Desk : ntPc[d] \in DeskSteps
    /\ \A h \in Herald : ntPc[h] \in HeraldSteps

(* A change of preferences is about a user, whose row has existed since it was found. *)
WritersTyped ==
    \A d \in Desk : ntPc[d] \in {"create", "write"} =>
        /\ ntOf[d].who \in Person
        /\ ntPc[d] = "create" => ntOf[d].what \in {"show", "on", "off"}
        /\ ntPc[d] = "write" => ntOf[d].what \in {"on", "off"} /\ ntOf[d].read \in {"on", "off"}

HeraldsTyped == \A h \in Herald : ntPc[h] # "idle" => ntOf[h].who \in Person

(* One that no other has overtaken writes what it read. *)
ReadIsCurrent ==
    \A d \in Desk : ntPc[d] = "write" /\ ~ntOf[d].stale => ntOf[d].read = prefs[ntOf[d].who]

(* Whoever counts as opted out has a row that says so. *)
OptOutRecorded == \A p \in optedOut : prefs[p] = "off"

(* A notification that began after an opt-out, one that still stands, ... *)
OutStillStands == \A h \in Herald : ntPc[h] = "prefs" => ntOf[h].read = "in" \/ ntOf[h].who \in optedOut

(* ... does not get past the look at the preferences. *)
PushedBegunBefore == \A h \in Herald : ntPc[h] \in {"find", "send"} => ntOf[h].read = "in"

NoteInv ==
    /\ WritersTyped /\ HeraldsTyped /\ ReadIsCurrent
    /\ OptOutRecorded /\ OutStillStands /\ PushedBegunBefore

(* A slot's step leaves the other slots where they are. *)
LEMMA NtMoves ==
  ASSUME NoteTyped, NEW s \in Slots, NEW step, NEW of, NtGoto(s, step, of)
  PROVE  /\ ntPc'[s] = step /\ ntOf'[s] = of
         /\ \A q \in Slots : q # s => ntPc'[q] = ntPc[q] /\ ntOf'[q] = ntOf[q]
         /\ of \in Held => ntOf' \in [Slots -> Held]
         /\ step \in DeskSteps \cup HeraldSteps =>
               ntPc' \in [Slots -> DeskSteps \cup HeraldSteps]
BY DEF NtGoto, NoteTyped, NoteTypeOK, Slots, DeskSteps, HeraldSteps

(* What an idle slot holds is something a slot may hold. *)
LEMMA BlankHeld == Blank \in Held /\ \A p \in Person : p \in Owners
BY DEF Blank, Held, Owners

(* The tables stay as they are and one slot moves: what has to be shown of it. *)
LEMMA NoteMoved ==
  ASSUME NoteTyped, NoteInv, UNCHANGED <<prefs, optedOut>>,
         NEW s \in Slots, NEW step, NEW of \in Held, NtGoto(s, step, of),
         notes' \in InboxRows, subs' \in SubscriptionRows, dead' \subseteq Endpoint,
         s \in Desk =>
            /\ step \in DeskSteps
            /\ step \in {"create", "write"} =>
                  /\ of.who \in Person
                  /\ step = "create" => of.what \in {"show", "on", "off"}
                  /\ step = "write" => /\ of.what \in {"on", "off"} /\ of.read \in {"on", "off"}
                                       /\ of.read = prefs[of.who],
         s \in Herald =>
            /\ step \in HeraldSteps
            /\ step # "idle" => of.who \in Person
            /\ step = "prefs" => of.read = "in" \/ of.who \in optedOut
            /\ step \in {"find", "send"} => of.read = "in"
  PROVE  NoteTyped' /\ NoteInv'
<1>1. /\ ntPc'[s] = step /\ ntOf'[s] = of
      /\ \A q \in Slots : q # s => ntPc'[q] = ntPc[q] /\ ntOf'[q] = ntOf[q]
      /\ ntOf' \in [Slots -> Held]
  BY NtMoves
<1>2. step \in DeskSteps \cup HeraldSteps
  BY DEF Slots
<1>3. ntPc' \in [Slots -> DeskSteps \cup HeraldSteps]
  BY <1>2, NtMoves
<1>4. NoteTyped'
  <2>1. \A q \in Slots : ntOf'[q].devices \subseteq Endpoint
    BY <1>1 DEF Held
  <2>2. NoteTypeOK'
    BY <1>3, <2>1 DEF NoteTyped, NoteTypeOK, Slots, DeskSteps, HeraldSteps
  <2>3. (\A d \in Desk : ntPc'[d] \in DeskSteps) /\ \A h \in Herald : ntPc'[h] \in HeraldSteps
    BY <1>1 DEF NoteTyped, Slots
  <2>4. QED
    BY <1>1, <2>2, <2>3 DEF NoteTyped
<1>5. WritersTyped'
  BY <1>1 DEF NoteInv, WritersTyped, Slots
<1>6. HeraldsTyped'
  BY <1>1 DEF NoteInv, HeraldsTyped, Slots
<1>7. ReadIsCurrent'
  BY <1>1 DEF NoteInv, ReadIsCurrent, Slots
<1>8. OptOutRecorded'
  BY DEF NoteInv, OptOutRecorded
<1>9. OutStillStands'
  BY <1>1 DEF NoteInv, OutStillStands, Slots
<1>10. PushedBegunBefore'
  BY <1>1 DEF NoteInv, PushedBegunBefore, Slots
<1>11. QED
  BY <1>4, <1>5, <1>6, <1>7, <1>8, <1>9, <1>10 DEF NoteInv

(* A slot that returns to idle owes nothing. *)
LEMMA NoteDone ==
  ASSUME NoteTyped, NoteInv, UNCHANGED <<prefs, optedOut>>, NEW s \in Slots, NtDone(s),
         notes' \in InboxRows, subs' \in SubscriptionRows, dead' \subseteq Endpoint
  PROVE  NoteTyped' /\ NoteInv'
<1>1. NtGoto(s, "idle", Blank)
  BY DEF NtDone
<1>2. "idle" \in DeskSteps /\ "idle" \in HeraldSteps
  BY DEF DeskSteps, HeraldSteps
<1>3. QED
  BY <1>1, <1>2, BlankHeld, NoteMoved

(* No slot moves, and neither preferences nor opt-outs change. *)
LEMMA NoteStill ==
  ASSUME NoteTyped, NoteInv, UNCHANGED <<prefs, optedOut, ntPc, ntOf>>,
         notes' \in InboxRows, subs' \in SubscriptionRows, dead' \subseteq Endpoint
  PROVE  NoteTyped' /\ NoteInv'
<1>1. NoteTyped'
  BY DEF NoteTyped, NoteTypeOK
<1>2. NoteInv'
  BY DEF NoteInv, WritersTyped, HeraldsTyped, ReadIsCurrent, OptOutRecorded, OutStillStands,
         PushedBegunBefore
<1>3. QED
  BY <1>1, <1>2

(* Reading, deleting and listing notifications. *)
LEMMA InboxKeeps ==
  ASSUME NoteTyped, NoteInv, NEW d \in Desk,
         markAsRead(d) \/ markAllAsRead(d) \/ deleteNotification(d)
  PROVE  NoteTyped' /\ NoteInv'
<1>0. /\ d \in Slots /\ d \notin Herald
      /\ notes \in InboxRows /\ subs \in SubscriptionRows /\ dead \subseteq Endpoint
  BY NotificationAssumption DEF Slots, NoteTyped, NoteTypeOK
<1>1. ASSUME NEW step \in {"mark", "delete"}, NoteFind(d, step) PROVE NoteTyped' /\ NoteInv'
  <2>1. UNCHANGED <<notes, prefs, subs, dead, optedOut>>
    BY <1>1 DEF NoteFind, ntTables
  <2>2. PICK n \in Note : NtGoto(d, step, [Blank EXCEPT !.who = notes[n].owner, !.what = n])
    BY <1>1 DEF NoteFind
  <2>3. [Blank EXCEPT !.who = notes[n].owner, !.what = n] \in Held
    BY <1>0 DEF Blank, Held, InboxRows
  <2>4. step \in DeskSteps /\ step \notin {"create", "write"}
    BY DEF DeskSteps
  <2> PICK of \in Held : NtGoto(d, step, of)
    BY <2>2, <2>3
  <2>5. QED
    BY <1>0, <2>1, <2>4, NoteMoved
<1>2. ASSUME NEW step, NEW state \in {"read", "gone"}, NoteWrite(d, step, state)
      PROVE  NoteTyped' /\ NoteInv'
  <2>1. notes' \in InboxRows
    BY <1>0, <1>2 DEF NoteWrite, InboxRows
  <2>2. UNCHANGED <<prefs, subs, dead, optedOut>> /\ NtDone(d)
    BY <1>2 DEF NoteWrite
  <2>3. QED
    BY <1>0, <2>1, <2>2, NoteDone
<1>3. CASE markAllAsRead(d)
  <2>1. notes' \in InboxRows
    BY <1>0, <1>3 DEF markAllAsRead, InboxRows
  <2>2. UNCHANGED <<prefs, subs, dead, optedOut, ntPc, ntOf>>
    BY <1>3 DEF markAllAsRead
  <2>3. QED
    BY <1>0, <2>1, <2>2, NoteStill
<1>4. QED
  BY <1>1, <1>2, <1>3 DEF markAsRead, deleteNotification

(* Subscribing and unsubscribing a browser. *)
LEMMA SubscriptionKeeps ==
  ASSUME NoteTyped, NoteInv, NEW d \in Desk,
         subscribeToPush(d) \/ unsubscribeFromPush(d)
  PROVE  NoteTyped' /\ NoteInv'
<1>0. /\ d \in Slots /\ d \notin Herald
      /\ notes \in InboxRows /\ subs \in SubscriptionRows /\ dead \subseteq Endpoint
      /\ ntOf[d] \in Held
  BY NotificationAssumption DEF Slots, NoteTyped, NoteTypeOK
<1>1. CASE SubscribeFind(d)
  <2>1. UNCHANGED <<notes, prefs, subs, dead, optedOut>>
    BY <1>1 DEF SubscribeFind, ntTables
  <2>2. PICK p \in Person, x \in Endpoint :
           LET of == [Blank EXCEPT !.who = p, !.what = x] IN
           IF subs[x].owner = "none" THEN NtGoto(d, "insert", of)
           ELSE NtGoto(d, "renew", [of EXCEPT !.read = IF subs[x].active THEN "on" ELSE "off"])
    BY <1>1 DEF SubscribeFind
  <2>3. PICK step \in {"insert", "renew"}, of \in Held : NtGoto(d, step, of)
    BY <2>2 DEF Blank, Held, Owners
  <2>4. step \in DeskSteps /\ step \notin {"create", "write"}
    BY <2>3 DEF DeskSteps
  <2>5. QED
    BY <1>0, <2>1, <2>3, <2>4, NoteMoved
<1>2. CASE SubscribeInsert(d) \/ SubscribeRenew(d)
  <2>1. subs' \in SubscriptionRows
    <3>1. ntOf[d].who \in Owners
      BY <1>0 DEF Held
    <3>2. CASE SubscribeInsert(d)
      BY <1>0, <3>1, <3>2 DEF SubscribeInsert, SubscriptionRows
    <3>3. CASE SubscribeRenew(d)
      <4>1. CASE ntOf[d].what \notin Endpoint
        BY <1>0, <3>3, <4>1 DEF SubscribeRenew, SubscriptionRows
      <4>2. CASE ntOf[d].what \in Endpoint
        <5>1. subs[ntOf[d].what].active \in BOOLEAN
          BY <1>0, <4>2 DEF SubscriptionRows
        <5>2. PICK b \in BOOLEAN :
                 b = IF ntOf[d].read = "off" THEN TRUE ELSE subs[ntOf[d].what].active
          BY <5>1
        <5>3. subs' = [subs EXCEPT ![ntOf[d].what] = [owner |-> ntOf[d].who, active |-> b]]
          BY <3>3, <5>2 DEF SubscribeRenew
        <5>4. [owner |-> ntOf[d].who, active |-> b] \in [owner : Owners, active : BOOLEAN]
          BY <3>1
        <5>5. QED
          BY <1>0, <5>3, <5>4 DEF SubscriptionRows
      <4>3. QED
        BY <4>1, <4>2
    <3>4. QED
      BY <1>2, <3>2, <3>3
  <2>2. UNCHANGED <<notes, prefs, dead, optedOut>> /\ NtDone(d)
    BY <1>2 DEF SubscribeInsert, SubscribeRenew
  <2>3. QED
    BY <1>0, <2>1, <2>2, NoteDone
<1>3. CASE unsubscribeFromPush(d)
  <2>1. subs' \in SubscriptionRows
    BY <1>0, <1>3 DEF unsubscribeFromPush, SubscriptionRows
  <2>2. UNCHANGED <<notes, prefs, dead, optedOut, ntPc, ntOf>>
    BY <1>3 DEF unsubscribeFromPush
  <2>3. QED
    BY <1>0, <2>1, <2>2, NoteStill
<1>4. QED
  BY <1>1, <1>2, <1>3 DEF subscribeToPush

(* Looking for the preferences of a user, and creating them with the defaults. *)
LEMMA PreferencesFound ==
  ASSUME NoteTyped, NoteInv, NEW d \in Desk, NEW wishes \in SUBSET {"show", "on", "off"},
         PrefFind(d, wishes), "show" \in wishes => wishes = {"show"}
  PROVE  NoteTyped' /\ NoteInv'
<1>0. /\ d \in Slots /\ d \notin Herald
      /\ notes \in InboxRows /\ subs \in SubscriptionRows /\ dead \subseteq Endpoint
      /\ prefs \in PushPreferences
  BY NotificationAssumption DEF Slots, NoteTyped, NoteTypeOK
<1>1. UNCHANGED <<notes, prefs, subs, dead, optedOut>>
  BY DEF PrefFind, ntTables
<1>2. PICK p \in Person, wish \in wishes :
         LET of == [Blank EXCEPT !.who = p, !.what = wish, !.read = prefs[p]] IN
         IF prefs[p] = "none" THEN NtGoto(d, "create", of)
         ELSE IF wish = "show" THEN NtDone(d) ELSE NtGoto(d, "write", of)
  BY DEF PrefFind
<1> PICK of : of = [Blank EXCEPT !.who = p, !.what = wish, !.read = prefs[p]]
  OBVIOUS
<1>3. of \in Held /\ of.who = p /\ of.what = wish /\ of.read = prefs[p]
  BY <1>0 DEF Blank, Held, Owners, PushPreferences
<1>4. "create" \in DeskSteps /\ "write" \in DeskSteps
  BY DEF DeskSteps
<1>5. CASE prefs[p] = "none"
  <2>1. NtGoto(d, "create", of)
    BY <1>2, <1>5
  <2>2. QED
    BY <1>0, <1>1, <1>3, <1>4, <2>1, NoteMoved
<1>6. CASE prefs[p] # "none" /\ wish # "show"
  <2>1. NtGoto(d, "write", of)
    BY <1>2, <1>6
  <2>2. of.read \in {"on", "off"} /\ of.what \in {"on", "off"}
    BY <1>0, <1>3, <1>6 DEF PushPreferences
  <2>3. QED
    BY <1>0, <1>1, <1>3, <1>4, <2>1, <2>2, NoteMoved
<1>7. CASE prefs[p] # "none" /\ wish = "show"
  BY <1>0, <1>1, <1>2, <1>7, NoteDone
<1>8. QED
  BY <1>5, <1>6, <1>7

(* A row created meanwhile is nobody's opt-out, nor what a writer has read. *)
LEMMA PreferencesCreated ==
  ASSUME NoteTyped, NoteInv, NEW d \in Desk, PrefCreate(d)
  PROVE  NoteTyped' /\ NoteInv'
<1> DEFINE p == ntOf[d].who
<1>0. /\ d \in Slots /\ d \notin Herald
      /\ notes \in InboxRows /\ subs \in SubscriptionRows /\ dead \subseteq Endpoint
      /\ prefs \in PushPreferences /\ ntOf[d] \in Held
  BY NotificationAssumption DEF Slots, NoteTyped, NoteTypeOK
<1>1. UNCHANGED <<notes, subs, dead, optedOut>> /\ ntPc[d] = "create"
  BY DEF PrefCreate
<1>2. p \in Person /\ ntOf[d].what \in {"show", "on", "off"}
  BY <1>1 DEF NoteInv, WritersTyped
<1>3. CASE prefs[p] # "none"
  BY <1>0, <1>1, <1>3, NoteDone DEF PrefCreate
<1>4. CASE prefs[p] = "none"
  <2>1. prefs' = [prefs EXCEPT ![p] = "on"]
    BY <1>4 DEF PrefCreate
  <2>2. PICK step, of : /\ NtGoto(d, step, of) /\ of \in Held
                        /\ \/ step = "idle"
                           \/ /\ step = "write" /\ of.who = p /\ of.read = "on"
                              /\ of.what \in {"on", "off"}
    <3>1. CASE ntOf[d].what = "show"
      BY <1>4, <3>1, BlankHeld DEF PrefCreate, NtDone
    <3>2. CASE ntOf[d].what # "show"
      <4> PICK of : of = [ntOf[d] EXCEPT !.read = "on"]
        OBVIOUS
      <4>1. of \in Held /\ of.who = p /\ of.read = "on" /\ of.what \in {"on", "off"}
        BY <1>0, <1>2, <3>2 DEF Held
      <4>2. NtGoto(d, "write", of)
        BY <1>4, <3>2 DEF PrefCreate
      <4>3. QED
        BY <4>1, <4>2
    <3>3. QED
      BY <3>1, <3>2
  <2>3. /\ ntPc'[d] = step /\ ntOf'[d] = of
        /\ \A q \in Slots : q # d => ntPc'[q] = ntPc[q] /\ ntOf'[q] = ntOf[q]
        /\ ntOf' \in [Slots -> Held]
    BY <1>0, <2>2, NtMoves
  <2>4. ntPc' \in [Slots -> DeskSteps \cup HeraldSteps]
    <3>1. step \in DeskSteps \cup HeraldSteps
      BY <2>2 DEF DeskSteps
    <3>2. QED
      BY <1>0, <2>2, <3>1, NtMoves
  <2>5. /\ prefs' \in PushPreferences /\ prefs'[p] = "on"
        /\ \A u \in Person : u # p => prefs'[u] = prefs[u]
    BY <1>0, <1>2, <2>1 DEF PushPreferences
  <2>6. NoteTyped'
    <3>1. \A q \in Slots : ntOf'[q].devices \subseteq Endpoint
      BY <2>3 DEF Held
    <3>2. NoteTypeOK'
      BY <1>1, <2>4, <2>5, <3>1 DEF NoteTyped, NoteTypeOK, Slots, DeskSteps, HeraldSteps
    <3>3. (\A e \in Desk : ntPc'[e] \in DeskSteps) /\ \A h \in Herald : ntPc'[h] \in HeraldSteps
      BY <1>0, <2>2, <2>3 DEF NoteTyped, Slots, DeskSteps
    <3>4. QED
      BY <2>3, <3>2, <3>3 DEF NoteTyped
  <2>7. WritersTyped'
    BY <1>2, <2>2, <2>3 DEF NoteInv, WritersTyped, Slots
  <2>8. HeraldsTyped' /\ OutStillStands' /\ PushedBegunBefore'
    BY <1>0, <1>1, <2>3 DEF NoteInv, HeraldsTyped, OutStillStands, PushedBegunBefore, Slots
  <2>9. ReadIsCurrent'
    <3> SUFFICES ASSUME NEW e \in Desk, ntPc'[e] = "write", ~ntOf'[e].stale
                 PROVE  ntOf'[e].read = prefs'[ntOf'[e].who]
      BY DEF ReadIsCurrent
    <3>1. CASE e = d
      BY <2>2, <2>3, <2>5, <3>1
    <3>2. CASE e # d
      <4>1. /\ ntOf'[e] = ntOf[e] /\ ntOf[e].who \in Person /\ ntOf[e].read \in {"on", "off"}
            /\ ntOf[e].read = prefs[ntOf[e].who]
        BY <2>3, <3>2 DEF NoteInv, WritersTyped, ReadIsCurrent, Slots
      <4>2. ntOf[e].who # p
        BY <1>4, <4>1
      <4>3. QED
        BY <2>5, <4>1, <4>2
    <3>3. QED
      BY <3>1, <3>2
  <2>10. OptOutRecorded'
    BY <1>1, <1>4, <2>5 DEF NoteInv, OptOutRecorded, NoteTyped, NoteTypeOK
  <2>11. QED
    BY <2>6, <2>7, <2>8, <2>9, <2>10 DEF NoteInv
<1>5. QED
  BY <1>3, <1>4

(* The write: another writer of that user is marked as overtaken, and a notification *)
(* about a user who no longer counts as opted out may go on.                         *)
LEMMA PreferencesWritten ==
  ASSUME NoteTyped, NoteInv, NEW d \in Desk, PrefWrite(d)
  PROVE  NoteTyped' /\ NoteInv'
<1> PICK p : p = ntOf[d].who
  OBVIOUS
<1> PICK wish : wish = ntOf[d].what
  OBVIOUS
<1>0. /\ d \in Slots /\ d \notin Herald
      /\ notes \in InboxRows /\ subs \in SubscriptionRows /\ dead \subseteq Endpoint
      /\ prefs \in PushPreferences /\ optedOut \subseteq Person
      /\ ntOf \in [Slots -> Held] /\ ntPc \in [Slots -> DeskSteps \cup HeraldSteps]
  BY NotificationAssumption
     DEF Slots, NoteTyped, NoteTypeOK, DeskSteps, HeraldSteps
<1>1. /\ UNCHANGED <<notes, subs, dead>> /\ ntPc[d] = "write"
      /\ prefs' = IF wish = ntOf[d].read THEN prefs ELSE [prefs EXCEPT ![p] = wish]
      /\ optedOut' = IF wish = "off" /\ ~ntOf[d].stale THEN optedOut \cup {p} ELSE optedOut \ {p}
      /\ ntPc' = [ntPc EXCEPT ![d] = "idle"]
  BY DEF PrefWrite
<1>2. p \in Person /\ wish \in {"on", "off"} /\ ntOf[d].read \in {"on", "off"}
  BY <1>1 DEF NoteInv, WritersTyped
<1>3. \A q \in Slots :
        ntOf'[q] = IF q = d THEN Blank
                   ELSE IF q \in Desk /\ ntPc[q] = "write" /\ ntOf[q].who = p
                        THEN [ntOf[q] EXCEPT !.stale = TRUE]
                   ELSE IF q \in Herald /\ ntOf[q].who = p /\ p \notin optedOut'
                        THEN [ntOf[q] EXCEPT !.read = "in"]
                   ELSE ntOf[q]
  BY DEF PrefWrite, Slots
<1>4. DOMAIN ntOf' = Slots
  BY DEF PrefWrite, Slots
<1>5. \A q \in Desk \ {d} :
        /\ ntPc'[q] = ntPc[q]
        /\ ntOf'[q].who = ntOf[q].who /\ ntOf'[q].what = ntOf[q].what /\ ntOf'[q].read = ntOf[q].read
        /\ ntPc[q] = "write" /\ ntOf[q].who = p => ntOf'[q].stale
        /\ ~(ntPc[q] = "write" /\ ntOf[q].who = p) => ntOf'[q] = ntOf[q]
  <2> SUFFICES ASSUME NEW q \in Desk, q # d
               PROVE  /\ ntPc'[q] = ntPc[q]
                      /\ ntOf'[q].who = ntOf[q].who /\ ntOf'[q].what = ntOf[q].what
                      /\ ntOf'[q].read = ntOf[q].read
                      /\ ntPc[q] = "write" /\ ntOf[q].who = p => ntOf'[q].stale
                      /\ ~(ntPc[q] = "write" /\ ntOf[q].who = p) => ntOf'[q] = ntOf[q]
    OBVIOUS
  <2>1. q \in Slots /\ q \notin Herald /\ ntOf[q] \in Held
    BY <1>0, NotificationAssumption DEF Slots
  <2>2. ntPc'[q] = ntPc[q]
    BY <1>0, <1>1, <2>1
  <2>3. CASE ntPc[q] = "write" /\ ntOf[q].who = p
    <3>1. ntOf'[q] = [ntOf[q] EXCEPT !.stale = TRUE]
      BY <1>3, <2>1, <2>3
    <3>2. QED
      BY <2>1, <2>2, <2>3, <3>1 DEF Held
  <2>4. CASE ~(ntPc[q] = "write" /\ ntOf[q].who = p)
    BY <1>3, <2>1, <2>2, <2>4
  <2>5. QED
    BY <2>3, <2>4
<1>6. \A h \in Herald :
        /\ ntPc'[h] = ntPc[h] /\ ntOf'[h].who = ntOf[h].who
        /\ ntOf'[h].read = "in" \/ ntOf'[h].read = ntOf[h].read
        /\ ntOf[h].who = p /\ p \notin optedOut' => ntOf'[h].read = "in"
  <2> SUFFICES ASSUME NEW h \in Herald
               PROVE  /\ ntPc'[h] = ntPc[h] /\ ntOf'[h].who = ntOf[h].who
                      /\ ntOf'[h].read = "in" \/ ntOf'[h].read = ntOf[h].read
                      /\ ntOf[h].who = p /\ p \notin optedOut' => ntOf'[h].read = "in"
    OBVIOUS
  <2>1. h \in Slots /\ h \notin Desk /\ h # d /\ ntOf[h] \in Held
    BY <1>0, NotificationAssumption DEF Slots
  <2>2. ntPc'[h] = ntPc[h]
    BY <1>0, <1>1, <2>1
  <2>3. CASE ntOf[h].who = p /\ p \notin optedOut'
    <3>1. ntOf'[h] = [ntOf[h] EXCEPT !.read = "in"]
      BY <1>3, <2>1, <2>3
    <3>2. QED
      BY <2>1, <2>2, <3>1 DEF Held
  <2>4. CASE ~(ntOf[h].who = p /\ p \notin optedOut')
    BY <1>3, <2>1, <2>2, <2>4
  <2>5. QED
    BY <2>3, <2>4
<1>7. ntOf' \in [Slots -> Held]
  <2>1. ASSUME NEW q \in Slots PROVE ntOf'[q] \in Held
    <3>1. ntOf[q] \in Held
      BY <1>0
    <3>2. [ntOf[q] EXCEPT !.stale = TRUE] \in Held /\ [ntOf[q] EXCEPT !.read = "in"] \in Held
      BY <3>1 DEF Held
    <3>3. QED
      BY <1>3, <3>1, <3>2, BlankHeld
  <2>2. ntOf' = [q \in Slots |-> ntOf'[q]]
    BY DEF PrefWrite, Slots
  <2>3. QED
    BY <2>1, <2>2
<1>8. /\ prefs' \in PushPreferences
      /\ \A u \in Person : u # p => prefs'[u] = prefs[u]
      /\ wish # ntOf[d].read => prefs'[p] = wish
      /\ wish = ntOf[d].read => prefs' = prefs
  BY <1>0, <1>1, <1>2 DEF PushPreferences
<1>9. NoteTyped'
  <2>1. \A q \in Slots : ntOf'[q].devices \subseteq Endpoint
    BY <1>7 DEF Held
  <2>2. ntPc' \in [Slots -> DeskSteps \cup HeraldSteps] /\ optedOut' \subseteq Person
    BY <1>0, <1>1, <1>2 DEF DeskSteps
  <2>3. NoteTypeOK'
    BY <1>0, <1>1, <1>8, <2>1, <2>2 DEF NoteTypeOK, Slots, DeskSteps, HeraldSteps
  <2>4. (\A e \in Desk : ntPc'[e] \in DeskSteps) /\ \A h \in Herald : ntPc'[h] \in HeraldSteps
    BY <1>0, <1>1 DEF NoteTyped, Slots, DeskSteps
  <2>5. QED
    BY <1>7, <2>3, <2>4 DEF NoteTyped
<1>10. WritersTyped'
  BY <1>0, <1>1, <1>5 DEF NoteInv, WritersTyped, Slots
<1>11. HeraldsTyped' /\ PushedBegunBefore'
  BY <1>6 DEF NoteInv, HeraldsTyped, PushedBegunBefore
<1>12. ReadIsCurrent'
  <2> SUFFICES ASSUME NEW e \in Desk, ntPc'[e] = "write", ~ntOf'[e].stale
               PROVE  ntOf'[e].read = prefs'[ntOf'[e].who]
    BY DEF ReadIsCurrent
  <2>1. e # d
    BY <1>0, <1>1
  <2>2. ntPc[e] = "write" /\ ntOf[e].who # p /\ ntOf'[e] = ntOf[e]
    BY <1>5, <2>1
  <2>3. ntOf[e].who \in Person /\ ntOf[e].read = prefs[ntOf[e].who]
    BY <2>2 DEF NoteInv, WritersTyped, ReadIsCurrent
  <2>4. QED
    BY <1>8, <2>2, <2>3
<1>13. OptOutRecorded'
  <2> SUFFICES ASSUME NEW u \in optedOut' PROVE prefs'[u] = "off"
    BY DEF OptOutRecorded
  <2>1. CASE u # p
    BY <1>0, <1>1, <1>8, <2>1 DEF NoteInv, OptOutRecorded
  <2>2. CASE u = p
    <3>1. wish = "off" /\ ~ntOf[d].stale
      BY <1>1, <2>2
    <3>2. ntOf[d].read = prefs[p]
      BY <1>1, <3>1 DEF NoteInv, ReadIsCurrent
    <3>3. QED
      BY <1>8, <2>2, <3>1, <3>2
  <2>3. QED
    BY <2>1, <2>2
<1>14. OutStillStands'
  BY <1>1, <1>6 DEF NoteInv, OutStillStands
<1>15. QED
  BY <1>9, <1>10, <1>11, <1>12, <1>13, <1>14 DEF NoteInv

(* A notification is begun, and its push goes on. *)
LEMMA PushingKeeps ==
  ASSUME NoteTyped, NoteInv, NEW h \in Herald,
         createNotification(h) \/ sendNotification(h) \/ sendPushNotification(h)
  PROVE  NoteTyped' /\ NoteInv'
<1>0. /\ h \in Slots /\ h \notin Desk
      /\ notes \in InboxRows /\ subs \in SubscriptionRows /\ dead \subseteq Endpoint
      /\ prefs \in PushPreferences /\ ntOf[h] \in Held
  BY NotificationAssumption DEF Slots, NoteTyped, NoteTypeOK
<1>a. \A step \in {"idle", "prefs", "find", "send", "drop"} : step \in HeraldSteps
  BY DEF HeraldSteps
<1>b. ASSUME NEW n \in Note, NEW p \in Person, Notified(n, p)
      PROVE  notes' \in InboxRows /\ UNCHANGED <<prefs, subs, dead, optedOut>>
  BY <1>0, <1>b, BlankHeld DEF Notified, InboxRows
<1>1. CASE createNotification(h)
  <2>1. notes' \in InboxRows /\ UNCHANGED <<prefs, subs, dead, optedOut>>
    BY <1>1, <1>b DEF createNotification
  <2>2. UNCHANGED <<ntPc, ntOf>>
    BY <1>1 DEF createNotification
  <2>3. QED
    BY <1>0, <2>1, <2>2, NoteStill
<1>2. CASE sendNotification(h)
  <2>1. PICK n \in Note, p \in Person :
           /\ Notified(n, p)
           /\ NtGoto(h, "prefs", [Blank EXCEPT !.who = p, !.read = IF p \in optedOut THEN "out" ELSE "in"])
    BY <1>2 DEF sendNotification
  <2>2. notes' \in InboxRows /\ UNCHANGED <<prefs, subs, dead, optedOut>>
    BY <2>1, <1>b
  <2> PICK of : of = [Blank EXCEPT !.who = p, !.read = IF p \in optedOut THEN "out" ELSE "in"]
    OBVIOUS
  <2>3. of \in Held /\ of.who = p /\ (of.read = "in" \/ p \in optedOut)
    BY DEF Blank, Held, Owners
  <2>4. QED
    BY <1>0, <1>a, <2>1, <2>2, <2>3, NoteMoved
<1>3. CASE PushPrefs(h)
  <2>1. UNCHANGED <<notes, prefs, subs, dead, optedOut>> /\ ntPc[h] = "prefs"
    BY <1>3 DEF PushPrefs, ntTables
  <2>2. ntOf[h].who \in Person /\ (ntOf[h].read = "in" \/ ntOf[h].who \in optedOut)
    BY <2>1 DEF NoteInv, HeraldsTyped, OutStillStands
  <2>3. CASE PushEnabled(ntOf[h].who)
    <3>1. NtGoto(h, "find", ntOf[h])
      BY <1>3, <2>3 DEF PushPrefs
    <3>2. ntOf[h].read = "in"
      BY <2>2, <2>3 DEF NoteInv, OptOutRecorded, PushEnabled
    <3>3. QED
      BY <1>0, <1>a, <2>1, <2>2, <3>1, <3>2, NoteMoved
  <2>4. CASE ~PushEnabled(ntOf[h].who)
    BY <1>0, <1>3, <2>1, <2>4, NoteDone DEF PushPrefs
  <2>5. QED
    BY <2>3, <2>4
<1>4. CASE PushFind(h) \/ PushSend(h)
  <2>1. /\ UNCHANGED <<notes, prefs, subs, dead, optedOut>> /\ ntPc[h] \in {"find", "send"}
        /\ ntOf[h].who \in Person /\ ntOf[h].read = "in"
    BY <1>4 DEF PushFind, PushSend, ntTables, NoteInv, HeraldsTyped, PushedBegunBefore
  <2>2. \/ NtDone(h)
        \/ \E step \in {"send", "drop"}, ds \in SUBSET Endpoint :
              NtGoto(h, step, [ntOf[h] EXCEPT !.devices = ds])
    <3>1. CASE PushFind(h)
      BY <3>1 DEF PushFind
    <3>2. CASE PushSend(h)
      BY <1>0, <3>2 DEF PushSend, Held
    <3>3. QED
      BY <1>4, <3>1, <3>2
  <2>3. ASSUME NEW step \in {"send", "drop"}, NEW ds \in SUBSET Endpoint,
               NtGoto(h, step, [ntOf[h] EXCEPT !.devices = ds])
        PROVE  NoteTyped' /\ NoteInv'
    <3> PICK of : of = [ntOf[h] EXCEPT !.devices = ds]
      OBVIOUS
    <3>1. of \in Held /\ of.who = ntOf[h].who /\ of.read = ntOf[h].read
      BY <1>0 DEF Held
    <3>2. QED
      BY <1>0, <1>a, <2>1, <2>3, <3>1, NoteMoved
  <2>4. QED
    BY <1>0, <2>1, <2>2, <2>3, NoteDone
<1>5. CASE PushDrop(h)
  <2>1. /\ UNCHANGED <<notes, prefs, dead, optedOut>> /\ ntPc[h] = "drop"
        /\ ntOf[h].who \in Person
    BY <1>5 DEF PushDrop, NoteInv, HeraldsTyped
  <2>2. PICK x \in ntOf[h].devices :
           /\ subs' = [subs EXCEPT ![x].active = FALSE]
           /\ IF ntOf[h].devices \ {x} = {} THEN NtDone(h)
              ELSE NtGoto(h, "drop", [ntOf[h] EXCEPT !.devices = ntOf[h].devices \ {x}])
    BY <1>5 DEF PushDrop
  <2>3. subs' \in SubscriptionRows
    BY <1>0, <2>2 DEF SubscriptionRows
  <2> PICK of : of = [ntOf[h] EXCEPT !.devices = ntOf[h].devices \ {x}]
    OBVIOUS
  <2>4. of \in Held /\ of.who = ntOf[h].who
    BY <1>0 DEF Held
  <2>5. CASE NtDone(h)
    BY <1>0, <2>1, <2>3, <2>5, NoteDone
  <2>6. CASE NtGoto(h, "drop", of)
    BY <1>0, <1>a, <2>1, <2>3, <2>4, <2>6, NoteMoved
  <2>7. QED
    BY <2>2, <2>5, <2>6
<1>6. QED
  BY <1>1, <1>2, <1>3, <1>4, <1>5 DEF sendPushNotification

(* Every step keeps the invariant of opting out. *)
LEMMA NoteStep ==
  ASSUME NoteTyped, NoteInv, [NoteNext]_noteVars
  PROVE  NoteTyped' /\ NoteInv'
<1>0. /\ notes \in InboxRows /\ subs \in SubscriptionRows /\ dead \subseteq Endpoint
  BY DEF NoteTyped, NoteTypeOK
<1>1. CASE Inbox
  BY <1>1, InboxKeeps DEF Inbox
<1>2. CASE Preferences
  BY <1>2, PreferencesFound, PreferencesCreated, PreferencesWritten
     DEF Preferences, getPreferences, updatePreferences
<1>3. CASE Subscriptions
  <2>1. ASSUME NEW x \in Endpoint, Expires(x) PROVE NoteTyped' /\ NoteInv'
    BY <1>0, <2>1, NoteStill DEF Expires
  <2>2. QED
    BY <1>3, <2>1, SubscriptionKeeps DEF Subscriptions
<1>4. CASE Pushing
  BY <1>4, PushingKeeps DEF Pushing
<1>5. CASE NoteFailure
  BY <1>0, <1>5, NoteDone DEF NoteFailure, NoteAbort, ntTables, Slots
<1>6. CASE UNCHANGED noteVars
  BY <1>0, <1>6, NoteStill DEF noteVars
<1>7. QED
  BY <1>1, <1>2, <1>3, <1>4, <1>5, <1>6 DEF NoteNext

(* Nothing is notified, owed or recorded at the start. *)
LEMMA NoteBegins == NoteInit => NoteTyped /\ NoteInv
<1> SUFFICES ASSUME NoteInit PROVE NoteTyped /\ NoteInv
  OBVIOUS
<1>1. NoteTyped
  <2>1. ntOf \in [Slots -> Held] /\ \A s \in Slots : ntOf[s].devices = {}
    BY BlankHeld DEF NoteInit, Slots, Blank
  <2>2. QED
    BY <2>1 DEF NoteInit, NoteTyped, NoteTypeOK, InboxRows, PushPreferences, SubscriptionRows,
                Owners, Slots, DeskSteps, HeraldSteps
<1>2. NoteInv
  BY DEF NoteInit, NoteInv, WritersTyped, HeraldsTyped, ReadIsCurrent, OptOutRecorded,
         OutStillStands, PushedBegunBefore
<1>3. QED
  BY <1>1, <1>2

(* Notifications, preferences and subscriptions are rows of their tables, and a push is *)
(* only to browsers (notificationController, pushNotificationService).                   *)
THEOREM NoteTypeCorrect == NoteSpec => []NoteTypeOK
<1>1. NoteTyped => NoteTypeOK
  BY DEF NoteTyped
<1>2. QED
  BY <1>1, NoteBegins, NoteStep, PTL DEF NoteSpec

(* A push follows an opt-out only if it was notified before: whoever says no, with  *)
(* no other change of theirs racing with it, is pushed nothing notified from then    *)
(* on until they say yes (updatePreferences, sendPushNotification).                  *)
THEOREM OptOutIsRespected == NoteSpec => []OptOutRespected
<1>1. NoteInv => OptOutRespected
  BY DEF NoteInv, PushedBegunBefore, OptOutRespected
<1>2. QED
  BY <1>1, NoteBegins, NoteStep, PTL DEF NoteSpec

-----------------------------------------------------------------------------
(* Catalogue: a course whose prerequisite list was replaced by one request *)
(* at a time has the list that was asked for, and seedings served at once  *)
(* leave no more copies of a cafeteria than there are seedings.            *)

(* The courses of a list a request carries are stored: courses are deleted *)
(* softly.                                                                 *)
KnownList(list) == catKind = "course" /\ list \subseteq Entry /\ \A p \in list : Stored(p)

AskOK(step, q) ==
    /\ DOMAIN q = {"id", "code", "active", "list", "todo"}
    /\ step \in {"write", "unlink", "link"} => q.id \in Entry /\ entries[q.id].state # "none"
    /\ step \in {"insert", "write"} => q.list = NoList \/ KnownList(q.list)
    /\ step = "unlink" => KnownList(q.list)
    /\ step = "link" => KnownList(q.todo)

CatTyped ==
    /\ catKind \in Kind
    /\ entries = [e \in Entry |-> entries[e]]
    /\ \A e \in Entry : DOMAIN entries[e] = {"state", "code", "active"}
    /\ links = [e \in Entry |-> links[e]]
    /\ promised = [e \in Entry |-> promised[e]]
    /\ catPc = [a \in Admin |-> catPc[a]]
    /\ catAsk = [a \in Admin |-> catAsk[a]]

(* What was promised is linked, about to be, or deleted by now.            *)
Kept(e) ==
    promised[e] # NoList =>
        /\ catKind = "course" /\ promised[e] \subseteq Entry
        /\ links[e] \subseteq promised[e]
        /\ \A a \in Linking(e) : catAsk[a].todo \subseteq promised[e]
        /\ \A p \in promised[e] \ links[e] :
              entries[p].state = "deleted" \/ \E a \in Linking(e) : p \in catAsk[a].todo

PrereqInv ==
    /\ CatTyped
    /\ \A a \in Admin : AskOK(catPc[a], catAsk[a])
    /\ \A e \in Entry : entries[e].state = "none" => links[e] = {}
    /\ \A e \in Entry : Kept(e)

(* A row never goes back to not having existed, a stored course stays so.  *)
StatesMove ==
    /\ catKind' = catKind
    /\ \A x \in Entry :
          /\ entries[x].state # "none" => entries'[x].state # "none"
          /\ catKind = "course" =>
                /\ Stored(x) => Stored(x)'
                /\ entries[x].state = "deleted" => entries'[x].state = "deleted"

LEMMA PrereqInvInit == CatalogueAssumption /\ CatInit => PrereqInv
<1>. SUFFICES ASSUME CatInit
              PROVE  PrereqInv
  OBVIOUS
<1>1. DOMAIN Nothing = {"id", "code", "active", "list", "todo"}
  BY DEF Nothing
<1>2. PICK c \in Code :
          entries = [e \in Entry |-> IF catKind = "profile"
                                     THEN [state |-> "there", code |-> c, active |-> "on"]
                                     ELSE NoRowYet]
  BY DEF CatInit
<1>3. \A e \in Entry : DOMAIN entries[e] = {"state", "code", "active"}
  BY <1>2 DEF NoRowYet
<1>4. CatTyped
  BY <1>2, <1>3 DEF CatTyped, CatInit
<1>. QED  BY <1>1, <1>4 DEF PrereqInv, AskOK, Kept, CatInit

(* What a request carries stays good while the tables move on.             *)
LEMMA AskStays ==
    ASSUME StatesMove, NEW step, NEW q, AskOK(step, q)
    PROVE  AskOK(step, q)'
BY DEF StatesMove, AskOK, KnownList

(* Steps that have nothing to do with the linking of prerequisites.        *)
LEMMA Aside ==
    ASSUME PrereqInv, CatTyped', StatesMove, UNCHANGED <<links, promised>>,
           \A a \in Admin :
              \/ catPc'[a] = catPc[a] /\ catAsk'[a] = catAsk[a]
              \/ catPc[a] # "link" /\ catPc'[a] # "link" /\ AskOK(catPc[a], catAsk[a])'
    PROVE  PrereqInv'
<1>1. \A a \in Admin : AskOK(catPc[a], catAsk[a])'
  <2>. SUFFICES ASSUME NEW a \in Admin
                PROVE  AskOK(catPc[a], catAsk[a])'
    OBVIOUS
  <2>1. AskOK(catPc[a], catAsk[a])
    BY DEF PrereqInv
  <2>2. PICK step, q : step = catPc[a] /\ q = catAsk[a]
    OBVIOUS
  <2>3. AskOK(step, q)'
    BY <2>1, <2>2, AskStays
  <2>4. CASE catPc'[a] = catPc[a] /\ catAsk'[a] = catAsk[a]
    BY <2>2, <2>3, <2>4 DEF AskOK, KnownList, Stored
  <2>5. CASE AskOK(catPc[a], catAsk[a])'
    BY <2>5
  <2>. QED  BY <2>4, <2>5
<1>2. \A e \in Entry : entries'[e].state = "none" => links'[e] = {}
  BY DEF PrereqInv, StatesMove
<1>3. ASSUME NEW e \in Entry
      PROVE  Kept(e)'
  <2>1. Linking(e)' = Linking(e) /\ \A a \in Linking(e) : catAsk'[a] = catAsk[a]
    BY DEF Linking
  <2>2. Kept(e)
    BY DEF PrereqInv
  <2>. QED  BY <2>1, <2>2 DEF Kept, StatesMove
<1>. QED  BY <1>1, <1>2, <1>3 DEF PrereqInv

(* A slot is moved: what happens to the slots.                             *)
LEMMA SlotTyped ==
    ASSUME CatTyped, NEW a \in Admin, NEW step, NEW q, CatGoto(a, step, q)
    PROVE  /\ catPc' = [x \in Admin |-> catPc'[x]] /\ catAsk' = [x \in Admin |-> catAsk'[x]]
           /\ catPc'[a] = step /\ catAsk'[a] = q
           /\ \A x \in Admin : x # a => catPc'[x] = catPc[x] /\ catAsk'[x] = catAsk[x]
BY DEF CatTyped, CatGoto

(* Every slot's request stays good when one slot moves on with a good one. *)
LEMMA AsksHold ==
    ASSUME PrereqInv, StatesMove, NEW a \in Admin, NEW step, NEW q,
           CatGoto(a, step, q), AskOK(step, q)'
    PROVE  \A x \in Admin : AskOK(catPc[x], catAsk[x])'
<1>. SUFFICES ASSUME NEW x \in Admin
              PROVE  AskOK(catPc[x], catAsk[x])'
  OBVIOUS
<1>1. /\ catPc'[a] = step /\ catAsk'[a] = q
      /\ x # a => catPc'[x] = catPc[x] /\ catAsk'[x] = catAsk[x]
  BY SlotTyped DEF PrereqInv
<1>2. PICK oldStep, old : oldStep = catPc[x] /\ old = catAsk[x]
  OBVIOUS
<1>3. AskOK(oldStep, old)'
  BY <1>2, AskStays DEF PrereqInv
<1>4. CASE x = a
  BY <1>1, <1>4 DEF AskOK, KnownList, Stored
<1>5. CASE x # a
  BY <1>1, <1>2, <1>3, <1>5 DEF AskOK, KnownList, Stored
<1>. QED  BY <1>4, <1>5

(* The same when it was not linking and does not begin to.                 *)
LEMMA AsideSlot ==
    ASSUME PrereqInv, NEW a \in Admin, NEW step, NEW q, CatGoto(a, step, q),
           catPc[a] # "link", step # "link", AskOK(step, q)',
           entries' = [e \in Entry |-> entries'[e]],
           \A e \in Entry : DOMAIN entries'[e] = {"state", "code", "active"},
           StatesMove, UNCHANGED <<links, promised>>
    PROVE  PrereqInv'
<1>1. CatTyped
  BY DEF PrereqInv
<1>2. /\ catPc' = [x \in Admin |-> catPc'[x]] /\ catAsk' = [x \in Admin |-> catAsk'[x]]
      /\ catPc'[a] = step /\ catAsk'[a] = q
      /\ \A x \in Admin : x # a => catPc'[x] = catPc[x] /\ catAsk'[x] = catAsk[x]
  BY <1>1, SlotTyped
<1>3. CatTyped'
  BY <1>1, <1>2 DEF CatTyped, StatesMove
<1>4. AskOK(catPc[a], catAsk[a])'
  BY <1>2 DEF AskOK, KnownList, Stored
<1>5. \A x \in Admin :
          \/ catPc'[x] = catPc[x] /\ catAsk'[x] = catAsk[x]
          \/ catPc[x] # "link" /\ catPc'[x] # "link" /\ AskOK(catPc[x], catAsk[x])'
  BY <1>2, <1>4
<1>. QED  BY <1>3, <1>5, Aside

(* Looking changes no table.                                               *)
LEMMA Looking ==
    ASSUME PrereqInv, UNCHANGED CatTables
    PROVE  /\ StatesMove /\ UNCHANGED <<links, promised>>
           /\ entries' = [e \in Entry |-> entries'[e]]
           /\ \A e \in Entry : DOMAIN entries'[e] = {"state", "code", "active"}
BY DEF PrereqInv, CatTyped, StatesMove, CatTables, Stored
-----------------------------------------------------------------------------
(* Creating, editing, deleting and seeding                                 *)

LEMMA CreateCheckStep ==
    ASSUME PrereqInv, NEW a \in Admin, NEW list, list = NoList \/ KnownList(list), CreateCheck(a, list)
    PROVE  PrereqInv'
<1>1. PICK c \in Code : CatGoto(a, "insert", [Nothing EXCEPT !.code = c, !.list = list])
  BY DEF CreateCheck
<1>2. PICK q : q = [Nothing EXCEPT !.code = c, !.list = list]
  OBVIOUS
<1>3. AskOK("insert", q)
  BY <1>2 DEF AskOK, Nothing
<1>4. StatesMove /\ UNCHANGED <<links, promised>> /\ catPc[a] # "link"
  BY Looking DEF CreateCheck
<1>5. AskOK("insert", q)'
  BY <1>3, <1>4, AskStays
<1>6. entries' = [e \in Entry |-> entries'[e]]
      /\ \A e \in Entry : DOMAIN entries'[e] = {"state", "code", "active"}
  BY Looking DEF CreateCheck
<1>. QED  BY <1>1, <1>2, <1>4, <1>5, <1>6, AsideSlot

(* A row comes into being.                                                 *)
LEMMA NewRow ==
    ASSUME PrereqInv, NEW e \in Entry, NEW c, entries[e] = NoRowYet, UNCHANGED catKind,
           entries' = [entries EXCEPT ![e] = [state |-> "there", code |-> c, active |-> "on"]]
    PROVE  /\ StatesMove
           /\ entries' = [x \in Entry |-> entries'[x]]
           /\ \A x \in Entry : DOMAIN entries'[x] = {"state", "code", "active"}
           /\ entries'[e].state = "there" /\ \A x \in Entry : x # e => entries'[x] = entries[x]
<1>1. entries = [x \in Entry |-> entries[x]] /\ \A x \in Entry : DOMAIN entries[x] = {"state", "code", "active"}
  BY DEF PrereqInv, CatTyped
<1>2. PICK row : row = [state |-> "there", code |-> c, active |-> "on"]
  OBVIOUS
<1>3. DOMAIN row = {"state", "code", "active"} /\ row.state = "there"
  BY <1>2
<1>4. entries' = [x \in Entry |-> entries'[x]] /\ entries'[e] = row
      /\ \A x \in Entry : x # e => entries'[x] = entries[x]
  BY <1>1, <1>2
<1>5. entries[e].state = "none"
  BY DEF NoRowYet
<1>. QED  BY <1>1, <1>3, <1>4, <1>5 DEF StatesMove, Stored

LEMMA CreateInsertStep ==
    ASSUME PrereqInv, NEW a \in Admin, CreateInsert(a)
    PROVE  PrereqInv'
<1>1. PICK ask : ask = catAsk[a]
  OBVIOUS
<1>2. PICK list : list = ask.list
  OBVIOUS
<1>3. CatTyped /\ AskOK(catPc[a], catAsk[a])
  BY DEF PrereqInv
<1>4. catPc[a] = "insert" /\ UNCHANGED <<catKind, links>>
  BY DEF CreateInsert
<1>5. (list = NoList \/ KnownList(list)) /\ DOMAIN ask = {"id", "code", "active", "list", "todo"}
  BY <1>1, <1>2, <1>3, <1>4 DEF AskOK
<1>6. AskOK("idle", Nothing)
  BY DEF AskOK, Nothing
<1>7. CASE CatDone(a) /\ UNCHANGED <<entries, promised>>
  <2>1. StatesMove /\ UNCHANGED <<links, promised>>
        /\ entries' = [e \in Entry |-> entries'[e]]
        /\ \A e \in Entry : DOMAIN entries'[e] = {"state", "code", "active"}
    BY <1>4, <1>7, Looking DEF CatTables
  <2>2. CatGoto(a, "idle", Nothing)
    BY <1>7 DEF CatDone
  <2>3. AskOK("idle", Nothing)'
    BY <1>6, <2>1, AskStays
  <2>. QED  BY <1>4, <2>1, <2>2, <2>3, AsideSlot
<1>8. ASSUME NEW e \in Entry, entries[e] = NoRowYet,
             entries' = [entries EXCEPT ![e] = [state |-> "there", code |-> ask.code, active |-> "on"]],
             \/ CatDone(a) /\ UNCHANGED promised
             \/ /\ list \notin {NoList, {}}
                /\ CatGoto(a, "link", [ask EXCEPT !.id = e, !.todo = list])
                /\ promised' = [promised EXCEPT ![e] = list]
      PROVE  PrereqInv'
  <2>1. /\ StatesMove
        /\ entries' = [x \in Entry |-> entries'[x]]
        /\ \A x \in Entry : DOMAIN entries'[x] = {"state", "code", "active"}
        /\ entries'[e].state = "there" /\ \A x \in Entry : x # e => entries'[x] = entries[x]
    BY <1>4, <1>8, NewRow
  <2>2. CASE CatDone(a) /\ UNCHANGED promised
    <3>1. AskOK("idle", Nothing)'
      BY <1>6, <2>1, AskStays
    <3>. QED  BY <1>4, <2>1, <2>2, <3>1, AsideSlot DEF CatDone
  <2>3. CASE /\ list \notin {NoList, {}}
             /\ CatGoto(a, "link", [ask EXCEPT !.id = e, !.todo = list])
             /\ promised' = [promised EXCEPT ![e] = list]
    <3>1. PICK q : q = [ask EXCEPT !.id = e, !.todo = list]
      OBVIOUS
    <3>2. DOMAIN q = {"id", "code", "active", "list", "todo"} /\ q.id = e /\ q.todo = list
      BY <1>5, <3>1
    <3>3. KnownList(list) /\ KnownList(list)'
      BY <1>5, <2>1, <2>3 DEF StatesMove, KnownList
    <3>4. /\ catPc' = [x \in Admin |-> catPc'[x]] /\ catAsk' = [x \in Admin |-> catAsk'[x]]
          /\ catPc'[a] = "link" /\ catAsk'[a] = q
          /\ \A x \in Admin : x # a => catPc'[x] = catPc[x] /\ catAsk'[x] = catAsk[x]
      BY <1>3, <2>3, <3>1, SlotTyped
    <3>5. /\ promised' = [x \in Entry |-> promised'[x]] /\ promised'[e] = list
          /\ \A x \in Entry : x # e => promised'[x] = promised[x]
      BY <1>3, <2>3 DEF CatTyped
    <3>6. CatTyped'
      BY <1>3, <1>4, <2>1, <3>4, <3>5 DEF CatTyped
    <3>7. \A x \in Admin : AskOK(catPc[x], catAsk[x])'
      <4>1. AskOK("link", q)'
        BY <2>1, <3>2, <3>3 DEF AskOK
      <4>. QED  BY <2>1, <2>3, <3>1, <4>1, AsksHold
    <3>8. entries[e].state = "none" /\ links[e] = {}
      BY <1>8 DEF PrereqInv, NoRowYet
    <3>9. Linking(e)' = {a}
      <4>1. Linking(e) = {}
        BY <3>8 DEF Linking, PrereqInv, AskOK
      <4>. QED  BY <3>2, <3>4, <4>1 DEF Linking
    <3>10. \A x \in Entry : x # e => Linking(x)' = Linking(x)
      BY <1>4, <3>2, <3>4 DEF Linking
    <3>11. Kept(e)'
      BY <1>4, <3>2, <3>3, <3>4, <3>5, <3>8, <3>9 DEF Kept, KnownList
    <3>12. ASSUME NEW x \in Entry, x # e
           PROVE  Kept(x)'
      <4>1. Kept(x) /\ Linking(x)' = Linking(x)
        BY <3>10, <3>12 DEF PrereqInv
      <4>2. \A b \in Linking(x) : catAsk'[b] = catAsk[b]
        BY <1>4, <3>4 DEF Linking
      <4>. QED  BY <1>4, <2>1, <3>5, <3>12, <4>1, <4>2 DEF Kept, StatesMove
    <3>. QED  BY <1>4, <2>1, <3>6, <3>7, <3>11, <3>12 DEF PrereqInv
  <2>. QED  BY <1>8, <2>2, <2>3
<1>. QED  BY <1>1, <1>2, <1>7, <1>8 DEF CreateInsert
LEMMA EditReadStep ==
    ASSUME PrereqInv, NEW a \in Admin, NEW codes, NEW flags, NEW lists,
           \A list \in lists : list = NoList \/ KnownList(list),
           EditRead(a, codes, flags, lists)
    PROVE  PrereqInv'
<1>1. PICK e \in Entry, c \in codes, flag \in flags, list \in lists :
          /\ Visible(e)
          /\ CatGoto(a, "write", [id |-> e, code |-> Dirty(c, entries[e].code),
                                  active |-> Dirty(flag, entries[e].active), list |-> list, todo |-> {}])
  BY DEF EditRead
<1>2. PICK q : q = [id |-> e, code |-> Dirty(c, entries[e].code),
                    active |-> Dirty(flag, entries[e].active), list |-> list, todo |-> {}]
  OBVIOUS
<1>3. AskOK("write", q)
  BY <1>1, <1>2 DEF AskOK, Visible
<1>4. /\ catPc[a] # "link" /\ StatesMove /\ UNCHANGED <<links, promised>>
      /\ entries' = [x \in Entry |-> entries'[x]]
      /\ \A x \in Entry : DOMAIN entries'[x] = {"state", "code", "active"}
  BY Looking DEF EditRead
<1>5. AskOK("write", q)'
  BY <1>3, <1>4, AskStays
<1>. QED  BY <1>1, <1>2, <1>4, <1>5, AsideSlot

LEMMA EditWriteStep ==
    ASSUME PrereqInv, NEW a \in Admin, EditWrite(a)
    PROVE  PrereqInv'
<1>1. PICK ask, e : ask = catAsk[a] /\ e = ask.id
  OBVIOUS
<1>2. CatTyped /\ AskOK(catPc[a], catAsk[a])
  BY DEF PrereqInv
<1>3. catPc[a] = "write" /\ UNCHANGED <<catKind, links, promised>>
  BY DEF EditWrite
<1>4. /\ e \in Entry /\ entries[e].state # "none"
      /\ ask.list = NoList \/ KnownList(ask.list)
      /\ DOMAIN ask = {"id", "code", "active", "list", "todo"}
  BY <1>1, <1>2, <1>3 DEF AskOK
<1>5. entries' = entries \/ \E c, f : entries' = [entries EXCEPT ![e].code = c, ![e].active = f]
  <2>1. CASE entries' = [entries EXCEPT ![e].code = Written(ask.code, @),
                                        ![e].active = Written(ask.active, @)]
    BY <2>1
  <2>. QED  BY <1>1, <2>1 DEF EditWrite
<1>6. /\ StatesMove
      /\ entries' = [x \in Entry |-> entries'[x]]
      /\ \A x \in Entry : DOMAIN entries'[x] = {"state", "code", "active"}
  <2>1. CASE entries' = entries
    BY <1>2, <1>3, <2>1 DEF StatesMove, CatTyped, Stored
  <2>2. ASSUME NEW c, NEW f, entries' = [entries EXCEPT ![e].code = c, ![e].active = f]
        PROVE  /\ StatesMove
               /\ entries' = [x \in Entry |-> entries'[x]]
               /\ \A x \in Entry : DOMAIN entries'[x] = {"state", "code", "active"}
    <3>1. PICK mid : mid = [entries EXCEPT ![e].code = c]
      OBVIOUS
    <3>2. entries' = [mid EXCEPT ![e].active = f]
      BY <2>2, <3>1
    <3>3. /\ mid = [x \in Entry |-> mid[x]]
          /\ \A x \in Entry : DOMAIN mid[x] = {"state", "code", "active"} /\ mid[x].state = entries[x].state
      BY <1>2, <3>1 DEF CatTyped
    <3>4. /\ entries' = [x \in Entry |-> entries'[x]]
          /\ \A x \in Entry : DOMAIN entries'[x] = {"state", "code", "active"}
                             /\ entries'[x].state = mid[x].state
      BY <3>2, <3>3
    <3>. QED  BY <1>3, <3>3, <3>4 DEF StatesMove, Stored
  <2>. QED  BY <1>5, <2>1, <2>2
<1>7. CatDone(a) \/ (ask.list # NoList /\ CatGoto(a, "unlink", ask))
  BY <1>1 DEF EditWrite
<1>8. AskOK("idle", Nothing)' /\ (ask.list # NoList => AskOK("unlink", ask)')
  <2>1. AskOK("idle", Nothing) /\ (ask.list # NoList => AskOK("unlink", ask))
    BY <1>1, <1>4 DEF AskOK, Nothing
  <2>. QED  BY <1>6, <2>1, AskStays
<1>9. CASE CatDone(a)
  BY <1>3, <1>6, <1>8, <1>9, AsideSlot DEF CatDone
<1>10. CASE ask.list # NoList /\ CatGoto(a, "unlink", ask)
  BY <1>3, <1>6, <1>8, <1>10, AsideSlot
<1>. QED  BY <1>7, <1>9, <1>10

LEMMA DestroyStep ==
    ASSUME PrereqInv, NEW a \in Admin, Destroy(a)
    PROVE  PrereqInv'
<1>1. PICK e \in Entry :
          /\ Visible(e)
          /\ entries' = [entries EXCEPT ![e].state = IF catKind = "course" THEN "deleted" ELSE "gone"]
  BY DEF Destroy
<1>2. UNCHANGED <<catKind, links, promised, catPc, catAsk>>
  BY DEF Destroy
<1>3. CatTyped
  BY DEF PrereqInv
<1>4. PICK state : state = IF catKind = "course" THEN "deleted" ELSE "gone"
  OBVIOUS
<1>5. /\ entries' = [x \in Entry |-> entries'[x]]
      /\ \A x \in Entry : DOMAIN entries'[x] = {"state", "code", "active"}
      /\ entries'[e].state = state /\ \A x \in Entry : x # e => entries'[x] = entries[x]
  BY <1>1, <1>3, <1>4 DEF CatTyped
<1>6. StatesMove
  BY <1>1, <1>2, <1>4, <1>5 DEF StatesMove, Visible, Stored
<1>7. CatTyped'
  BY <1>2, <1>3, <1>5 DEF CatTyped
<1>. QED  BY <1>2, <1>6, <1>7, Aside

(* The steps of seeding only ever leave a slot to look for, insert or      *)
(* activate a default.                                                     *)
LEMMA SeedNextSlot ==
    ASSUME NEW a \in Admin, NEW c, SeedNext(a, c)
    PROVE  \E step \in {"idle", "seek"} : \E q : CatGoto(a, step, q) /\ AskOK(step, q)
<1>. DEFINE next == [Nothing EXCEPT !.todo = catAsk[a].todo \ {c}]
<1>1. CatGoto(a, "idle", Nothing) \/ CatGoto(a, "seek", next)
  BY DEF SeedNext, CatDone
<1>2. AskOK("idle", Nothing) /\ AskOK("seek", next)
  BY DEF AskOK, Nothing
<1>. HIDE DEF next
<1>. QED  BY <1>1, <1>2

(* Such a slot, and rows that moved on.                                    *)
LEMMA SeedSlot ==
    ASSUME PrereqInv, NEW a \in Admin, NEW step \in {"idle", "seek", "seed", "activate"}, NEW q,
           CatGoto(a, step, q), AskOK(step, q), catPc[a] # "link",
           entries' = [x \in Entry |-> entries'[x]],
           \A x \in Entry : DOMAIN entries'[x] = {"state", "code", "active"},
           StatesMove, UNCHANGED <<links, promised>>
    PROVE  PrereqInv'
<1>1. AskOK(step, q)' /\ step # "link"
  BY AskStays
<1>. QED  BY <1>1, AsideSlot

LEMMA SeedSteps ==
    ASSUME PrereqInv, NEW a \in Admin, Seeds(a) \/ SeedActivate(a)
    PROVE  PrereqInv'
<1>1. CatTyped /\ AskOK(catPc[a], catAsk[a])
  BY DEF PrereqInv
<1>2. DOMAIN catAsk[a] = {"id", "code", "active", "list", "todo"}
  BY <1>1 DEF AskOK
<1>3. CASE SeedStart(a)
  <2>1. PICK q : q = [Nothing EXCEPT !.todo = Code]
    OBVIOUS
  <2>2. AskOK("seek", q)
    BY <2>1 DEF AskOK, Nothing
  <2>3. CatGoto(a, "seek", q) /\ catPc[a] # "link" /\ UNCHANGED CatTables
    BY <1>3, <2>1 DEF SeedStart
  <2>. QED  BY <2>2, <2>3, Looking, SeedSlot
<1>4. CASE SeedFind(a)
  <2>1. catPc[a] # "link" /\ UNCHANGED CatTables
    BY <1>4 DEF SeedFind
  <2>2. \E step \in {"idle", "seek", "seed", "activate"} : \E q : CatGoto(a, step, q) /\ AskOK(step, q)
    <3>1. PICK c \in catAsk[a].todo :
              \/ CatGoto(a, "seed", [catAsk[a] EXCEPT !.code = c])
              \/ SeedNext(a, c)
              \/ \E e \in Entry : CatGoto(a, "activate", [catAsk[a] EXCEPT !.code = c, !.id = e])
      BY <1>4 DEF SeedFind
    <3>2. CASE CatGoto(a, "seed", [catAsk[a] EXCEPT !.code = c])
      <4>1. PICK q : q = [catAsk[a] EXCEPT !.code = c]
        OBVIOUS
      <4>2. AskOK("seed", q)
        BY <1>2, <4>1 DEF AskOK
      <4>. QED  BY <3>2, <4>1, <4>2
    <3>3. CASE SeedNext(a, c)
      BY <3>3, SeedNextSlot
    <3>4. ASSUME NEW e \in Entry, CatGoto(a, "activate", [catAsk[a] EXCEPT !.code = c, !.id = e])
          PROVE  \E step \in {"idle", "seek", "seed", "activate"} : \E q : CatGoto(a, step, q) /\ AskOK(step, q)
      <4>1. PICK q : q = [catAsk[a] EXCEPT !.code = c, !.id = e]
        OBVIOUS
      <4>2. AskOK("activate", q)
        BY <1>2, <4>1 DEF AskOK
      <4>. QED  BY <3>4, <4>1, <4>2
    <3>. QED  BY <3>1, <3>2, <3>3, <3>4
  <2>. QED  BY <2>1, <2>2, Looking, SeedSlot
<1>5. CASE SeedInsert(a)
  <2>1. PICK c : c = catAsk[a].code
    OBVIOUS
  <2>2. catPc[a] # "link" /\ UNCHANGED <<catKind, links, promised>>
    BY <1>5 DEF SeedInsert
  <2>3. CASE CatGoto(a, "seek", [catAsk[a] EXCEPT !.code = "absent"]) /\ UNCHANGED entries
    <3>1. PICK q : q = [catAsk[a] EXCEPT !.code = "absent"]
      OBVIOUS
    <3>2. AskOK("seek", q)
      BY <1>2, <3>1 DEF AskOK
    <3>. QED  BY <2>2, <2>3, <3>1, <3>2, Looking, SeedSlot DEF CatTables
  <2>4. ASSUME NEW e \in Entry, entries[e] = NoRowYet, SeedNext(a, c),
               entries' = [entries EXCEPT ![e] = [state |-> "there", code |-> c, active |-> "on"]]
        PROVE  PrereqInv'
    <3>1. /\ StatesMove
          /\ entries' = [x \in Entry |-> entries'[x]]
          /\ \A x \in Entry : DOMAIN entries'[x] = {"state", "code", "active"}
      BY <2>2, <2>4, NewRow
    <3>2. PICK step \in {"idle", "seek"} : \E q : CatGoto(a, step, q) /\ AskOK(step, q)
      BY <2>4, SeedNextSlot
    <3>3. step \in {"idle", "seek", "seed", "activate"}
      OBVIOUS
    <3>. QED  BY <2>2, <3>1, <3>2, <3>3, SeedSlot
  <2>. QED  BY <1>5, <2>1, <2>3, <2>4 DEF SeedInsert
<1>6. CASE SeedActivate(a)
  <2>1. /\ catPc[a] # "link" /\ UNCHANGED <<catKind, links, promised>> /\ SeedNext(a, catAsk[a].code)
        /\ entries' = [entries EXCEPT ![catAsk[a].id].active = "on"]
    BY <1>6 DEF SeedActivate
  <2>2. /\ entries' = [x \in Entry |-> entries'[x]]
        /\ \A x \in Entry : DOMAIN entries'[x] = {"state", "code", "active"}
                           /\ entries'[x].state = entries[x].state
    BY <1>1, <2>1 DEF CatTyped
  <2>3. StatesMove
    BY <2>1, <2>2 DEF StatesMove, Stored
  <2>4. PICK step \in {"idle", "seek"} : \E q : CatGoto(a, step, q) /\ AskOK(step, q)
    BY <2>1, SeedNextSlot
  <2>5. step \in {"idle", "seek", "seed", "activate"}
    OBVIOUS
  <2>. QED  BY <2>1, <2>2, <2>3, <2>4, <2>5, SeedSlot
<1>. QED  BY <1>3, <1>4, <1>5, <1>6 DEF Seeds
-----------------------------------------------------------------------------
(* Prerequisites                                                           *)

LEMMA UnlinkStep ==
    ASSUME PrereqInv, NEW a \in Admin, Unlink(a)
    PROVE  PrereqInv'
<1>1. PICK ask, e, list : ask = catAsk[a] /\ e = ask.id /\ list = ask.list
  OBVIOUS
<1>2. CatTyped /\ AskOK(catPc[a], catAsk[a])
  BY DEF PrereqInv
<1>3. /\ catPc[a] = "unlink" /\ UNCHANGED <<catKind, entries>>
      /\ links' = [links EXCEPT ![e] = {}]
      /\ promised' = [promised EXCEPT ![e] = IF Linking(e) = {} THEN list ELSE NoList]
      /\ IF list = {} THEN CatDone(a) ELSE CatGoto(a, "link", [ask EXCEPT !.todo = list])
  BY <1>1 DEF Unlink, AfterDestroy
<1>4. /\ e \in Entry /\ entries[e].state # "none" /\ KnownList(list)
      /\ DOMAIN ask = {"id", "code", "active", "list", "todo"}
  BY <1>1, <1>2, <1>3 DEF AskOK
<1>5. StatesMove
  BY <1>3 DEF StatesMove, Stored
<1>6. PICK step, q : /\ CatGoto(a, step, q) /\ AskOK(step, q)
                     /\ step = IF list = {} THEN "idle" ELSE "link"
                     /\ step = "link" => q.id = e /\ q.todo = list
  <2>1. PICK q : q = [ask EXCEPT !.todo = list]
    OBVIOUS
  <2>2. AskOK("idle", Nothing)
    BY DEF AskOK, Nothing
  <2>3. q.id = e /\ q.todo = list /\ AskOK("link", q)
    BY <1>1, <1>4, <2>1 DEF AskOK
  <2>4. CASE list = {}
    <3>1. CatGoto(a, "idle", Nothing)
      BY <1>3, <2>4 DEF CatDone
    <3>. QED  BY <2>2, <2>4, <3>1
  <2>5. CASE list # {}
    <3>1. CatGoto(a, "link", q)
      BY <1>3, <2>1, <2>5
    <3>. QED  BY <2>3, <2>5, <3>1
  <2>. QED  BY <2>4, <2>5
<1>7. /\ catPc' = [x \in Admin |-> catPc'[x]] /\ catAsk' = [x \in Admin |-> catAsk'[x]]
      /\ catPc'[a] = step /\ catAsk'[a] = q
      /\ \A x \in Admin : x # a => catPc'[x] = catPc[x] /\ catAsk'[x] = catAsk[x]
  BY <1>2, <1>6, SlotTyped
<1>8. /\ links' = [x \in Entry |-> links'[x]] /\ links'[e] = {}
      /\ \A x \in Entry : x # e => links'[x] = links[x]
  BY <1>2, <1>3, <1>4 DEF CatTyped
<1>9. /\ promised' = [x \in Entry |-> promised'[x]]
      /\ promised'[e] = IF Linking(e) = {} THEN list ELSE NoList
      /\ \A x \in Entry : x # e => promised'[x] = promised[x]
  BY <1>2, <1>3, <1>4 DEF CatTyped
<1>10. CatTyped'
  BY <1>2, <1>3, <1>7, <1>8, <1>9 DEF CatTyped
<1>11. \A x \in Admin : AskOK(catPc[x], catAsk[x])'
  BY <1>5, <1>6, AskStays, AsksHold
<1>12. Kept(e)'
  <2>1. SUFFICES ASSUME promised'[e] # NoList
                 PROVE  Kept(e)'
    BY DEF Kept
  <2>2. Linking(e) = {} /\ promised'[e] = list
    BY <1>9, <2>1
  <2>3. Linking(e)' = IF list = {} THEN {} ELSE {a}
    BY <1>6, <1>7, <2>2 DEF Linking
  <2>. QED  BY <1>3, <1>4, <1>6, <1>7, <1>8, <2>2, <2>3 DEF Kept, KnownList
<1>13. ASSUME NEW x \in Entry, x # e
       PROVE  Kept(x)'
  <2>1. Linking(x)' = Linking(x) /\ \A b \in Linking(x) : catAsk'[b] = catAsk[b]
    BY <1>3, <1>6, <1>7, <1>13 DEF Linking
  <2>2. Kept(x)
    BY DEF PrereqInv
  <2>. QED  BY <1>3, <1>8, <1>9, <1>13, <2>1, <2>2 DEF Kept
<1>14. \A x \in Entry : entries'[x].state = "none" => links'[x] = {}
  BY <1>3, <1>8 DEF PrereqInv
<1>. QED  BY <1>10, <1>11, <1>12, <1>13, <1>14 DEF PrereqInv

LEMMA LinkStep ==
    ASSUME PrereqInv, NEW a \in Admin, Link(a)
    PROVE  PrereqInv'
<1>1. PICK ask, e : ask = catAsk[a] /\ e = ask.id
  OBVIOUS
<1>2. CatTyped /\ AskOK(catPc[a], catAsk[a])
  BY DEF PrereqInv
<1>3. catPc[a] = "link" /\ UNCHANGED <<catKind, entries>>
  BY DEF Link
<1>4. PICK p \in ask.todo :
        LET rest == ask.todo \ {p}
            refused == Visible(p) /\ p \in links[e]
        IN  /\ links' = [links EXCEPT ![e] = IF Visible(p) THEN @ \cup {p} ELSE @]
            /\ IF refused \/ rest = {} THEN CatDone(a) ELSE CatGoto(a, "link", [ask EXCEPT !.todo = rest])
            /\ promised' = [promised EXCEPT ![e] = IF refused THEN NoList ELSE @]
  BY <1>1 DEF Link
<1>5. PICK rest : rest = ask.todo \ {p}
  OBVIOUS
<1>6. /\ e \in Entry /\ entries[e].state # "none" /\ KnownList(ask.todo)
      /\ DOMAIN ask = {"id", "code", "active", "list", "todo"}
  BY <1>1, <1>2, <1>3 DEF AskOK
<1>7. StatesMove
  BY <1>3 DEF StatesMove, Stored
<1>8. PICK step, q : /\ CatGoto(a, step, q) /\ AskOK(step, q)
                     /\ step = "link" => q.id = e /\ q.todo = rest
                     /\ step \in {"idle", "link"}
                     /\ step = "idle" => rest = {} \/ (Visible(p) /\ p \in links[e])
  <2>1. PICK q : q = [ask EXCEPT !.todo = rest]
    OBVIOUS
  <2>2. AskOK("idle", Nothing)
    BY DEF AskOK, Nothing
  <2>3. q.id = e /\ q.todo = rest /\ AskOK("link", q)
    BY <1>1, <1>5, <1>6, <2>1 DEF AskOK, KnownList
  <2>. QED  BY <1>4, <1>5, <2>1, <2>2, <2>3 DEF CatDone
<1>9. /\ catPc' = [x \in Admin |-> catPc'[x]] /\ catAsk' = [x \in Admin |-> catAsk'[x]]
      /\ catPc'[a] = step /\ catAsk'[a] = q
      /\ \A x \in Admin : x # a => catPc'[x] = catPc[x] /\ catAsk'[x] = catAsk[x]
  BY <1>2, <1>8, SlotTyped
<1>10. /\ links' = [x \in Entry |-> links'[x]]
       /\ links'[e] = IF Visible(p) THEN links[e] \cup {p} ELSE links[e]
       /\ \A x \in Entry : x # e => links'[x] = links[x]
  BY <1>2, <1>4, <1>6 DEF CatTyped
<1>11. /\ promised' = [x \in Entry |-> promised'[x]]
       /\ promised'[e] = IF Visible(p) /\ p \in links[e] THEN NoList ELSE promised[e]
       /\ \A x \in Entry : x # e => promised'[x] = promised[x]
  BY <1>2, <1>4, <1>6 DEF CatTyped
<1>12. CatTyped'
  BY <1>2, <1>3, <1>9, <1>10, <1>11 DEF CatTyped
<1>13. \A x \in Admin : AskOK(catPc[x], catAsk[x])'
  BY <1>7, <1>8, AskStays, AsksHold
<1>14. Kept(e)'
  <2>1. SUFFICES ASSUME promised'[e] # NoList
                 PROVE  Kept(e)'
    BY DEF Kept
  <2>2. promised'[e] = promised[e] /\ ~(Visible(p) /\ p \in links[e])
    BY <1>11, <2>1
  <2>3. Kept(e) /\ a \in Linking(e)
    BY <1>1, <1>3, <1>6 DEF PrereqInv, Linking
  <2>4. ask.todo \subseteq promised[e]
    BY <1>1, <2>1, <2>2, <2>3 DEF Kept
  <2>5. Visible(p) \/ entries[p].state = "deleted"
    BY <1>6 DEF KnownList, Visible, Stored
  <2>6. Linking(e)' = IF step = "link" THEN Linking(e) ELSE Linking(e) \ {a}
    BY <1>3, <1>8, <1>9, <2>3 DEF Linking
  <2>7. \A b \in Linking(e)' : catAsk'[b].todo = IF b = a THEN rest ELSE catAsk[b].todo
    BY <1>8, <1>9, <2>6 DEF Linking
  <2>8. step = "idle" => rest = {}
    BY <1>8, <2>2
  <2>9. \A b \in Linking(e)' : catAsk'[b].todo \subseteq promised[e]
    BY <1>5, <2>1, <2>2, <2>3, <2>4, <2>6, <2>7 DEF Kept
  <2>10. links'[e] \subseteq promised[e]
    BY <1>10, <2>1, <2>2, <2>3, <2>4 DEF Kept
  <2>11. ASSUME NEW x \in promised[e] \ links'[e]
         PROVE  entries'[x].state = "deleted" \/ \E b \in Linking(e)' : x \in catAsk'[b].todo
    <3>1. x \notin links[e]
      BY <1>10, <2>11
    <3>2. entries[x].state = "deleted" \/ \E b \in Linking(e) : x \in catAsk[b].todo
      BY <2>1, <2>2, <2>3, <2>11, <3>1 DEF Kept
    <3>3. CASE entries[x].state = "deleted"
      BY <1>3, <3>3
    <3>4. ASSUME NEW b \in Linking(e), b # a, x \in catAsk[b].todo
          PROVE  \E o \in Linking(e)' : x \in catAsk'[o].todo
      BY <2>6, <2>7, <3>4
    <3>5. CASE x \in ask.todo /\ x # p
      <4>1. x \in rest /\ step = "link"
        BY <1>5, <1>8, <2>8, <3>5
      <4>. QED  BY <2>3, <2>6, <2>7, <4>1
    <3>6. CASE x = p
      BY <1>3, <1>10, <2>5, <2>11, <3>6
    <3>. QED  BY <1>1, <3>2, <3>3, <3>4, <3>5, <3>6
  <2>. QED  BY <1>3, <2>1, <2>2, <2>3, <2>9, <2>10, <2>11 DEF Kept
<1>15. ASSUME NEW x \in Entry, x # e
       PROVE  Kept(x)'
  <2>1. Linking(x)' = Linking(x) /\ \A b \in Linking(x) : catAsk'[b] = catAsk[b]
    BY <1>1, <1>3, <1>8, <1>9, <1>15 DEF Linking
  <2>2. Kept(x)
    BY DEF PrereqInv
  <2>. QED  BY <1>3, <1>10, <1>11, <1>15, <2>1, <2>2 DEF Kept
<1>16. \A x \in Entry : entries'[x].state = "none" => links'[x] = {}
  BY <1>3, <1>6, <1>10 DEF PrereqInv
<1>. QED  BY <1>12, <1>13, <1>14, <1>15, <1>16 DEF PrereqInv

LEMMA CatFailStep ==
    ASSUME PrereqInv, NEW a \in Admin, CatFail(a)
    PROVE  PrereqInv'
<1>1. /\ CatGoto(a, "idle", Nothing) /\ UNCHANGED <<catKind, entries, links>>
      /\ promised' = [e \in Entry |-> IF catPc[a] = "link" /\ catAsk[a].id = e THEN NoList ELSE promised[e]]
  BY DEF CatFail, CatDone
<1>2. CatTyped
  BY DEF PrereqInv
<1>3. /\ catPc' = [x \in Admin |-> catPc'[x]] /\ catAsk' = [x \in Admin |-> catAsk'[x]]
      /\ catPc'[a] = "idle" /\ catAsk'[a] = Nothing
      /\ \A x \in Admin : x # a => catPc'[x] = catPc[x] /\ catAsk'[x] = catAsk[x]
  BY <1>1, <1>2, SlotTyped
<1>4. CatTyped'
  BY <1>1, <1>2, <1>3 DEF CatTyped
<1>5. StatesMove
  BY <1>1 DEF StatesMove, Stored
<1>6. \A x \in Admin : AskOK(catPc[x], catAsk[x])'
  <2>1. AskOK("idle", Nothing)
    BY DEF AskOK, Nothing
  <2>. QED  BY <1>1, <1>5, <2>1, AskStays, AsksHold
<1>7. ASSUME NEW e \in Entry
      PROVE  Kept(e)'
  <2>1. SUFFICES ASSUME promised'[e] # NoList
                 PROVE  Kept(e)'
    BY DEF Kept
  <2>2. promised'[e] = promised[e] /\ a \notin Linking(e)
    BY <1>1, <2>1 DEF Linking
  <2>3. Linking(e)' = Linking(e) /\ \A b \in Linking(e) : catAsk'[b] = catAsk[b]
    BY <1>3, <2>2 DEF Linking
  <2>4. Kept(e)
    BY DEF PrereqInv
  <2>. QED  BY <1>1, <2>2, <2>3, <2>4 DEF Kept
<1>8. \A e \in Entry : entries'[e].state = "none" => links'[e] = {}
  BY <1>1 DEF PrereqInv
<1>. QED  BY <1>4, <1>6, <1>7, <1>8 DEF PrereqInv
LEMMA PrereqInvStep == PrereqInv /\ [CatNext]_catVars => PrereqInv'
<1>. SUFFICES ASSUME PrereqInv, [CatNext]_catVars
              PROVE  PrereqInv'
  OBVIOUS
<1>1. \A list \in {NoList} : list = NoList \/ KnownList(list)
  OBVIOUS
<1>2. ASSUME NEW a \in Admin, Creates(a) \/ Edits(a) \/ Deactivates(a) \/ Destroy(a) \/ ProfileEdit(a)
      PROVE  PrereqInv'
  BY <1>1, <1>2, CreateCheckStep, CreateInsertStep, EditReadStep, EditWriteStep, DestroyStep
  DEF Creates, Edits, Deactivates, ProfileEdit
<1>3. ASSUME NEW a \in Admin, createCourse(a) \/ updateCourse(a)
      PROVE  PrereqInv'
  <2>1. catKind = "course"
    BY <1>3 DEF createCourse, updateCourse
  <2>2. \A list \in Known \cup {NoList} : list = NoList \/ KnownList(list)
    BY <2>1 DEF Known, KnownList
  <2>3. CASE \E list \in Known \cup {NoList} : CreateCheck(a, list)
    BY <2>2, <2>3, CreateCheckStep
  <2>4. CASE EditRead(a, Codes, Flags, Known \cup {NoList})
    BY <2>2, <2>4, EditReadStep
  <2>5. CASE CreateInsert(a) \/ EditWrite(a) \/ Unlink(a) \/ Link(a)
    BY <2>5, CreateInsertStep, EditWriteStep, UnlinkStep, LinkStep
  <2>. QED  BY <1>3, <2>3, <2>4, <2>5 DEF createCourse, updateCourse
<1>4. ASSUME NEW a \in Admin, seedDepartments(a) \/ seedCafeterias(a)
      PROVE  PrereqInv'
  BY <1>4, SeedSteps DEF seedDepartments, seedCafeterias
<1>5. ASSUME NEW a \in Admin, CatFail(a)
      PROVE  PrereqInv'
  BY <1>5, CatFailStep
<1>6. CASE UNCHANGED catVars
  <2>1. StatesMove /\ UNCHANGED <<links, promised, catPc, catAsk>>
    BY <1>6 DEF catVars, StatesMove, Stored
  <2>2. CatTyped'
    BY <1>6 DEF catVars, CatTyped, PrereqInv
  <2>. QED  BY <2>1, <2>2, Aside
<1>7. ASSUME NEW a \in Admin,
             \/ deleteCourse(a)
             \/ createDepartment(a) \/ updateDepartment(a) \/ deleteDepartment(a)
             \/ createClassroom(a) \/ updateClassroom(a) \/ deleteClassroom(a)
             \/ createSection(a)
             \/ createMenu(a) \/ updateMenu(a) \/ deleteMenu(a)
             \/ createAnnouncement(a) \/ updateAnnouncement(a) \/ deleteAnnouncement(a)
             \/ createCalendarEvent(a) \/ updateCalendarEvent(a) \/ deleteCalendarEvent(a)
             \/ updateProfile(a) \/ uploadProfilePicture(a)
             \/ updateStudentDepartment(a) \/ updateFacultyDepartment(a)
      PROVE  PrereqInv'
  <2>1. Creates(a) \/ Edits(a) \/ Deactivates(a) \/ Destroy(a) \/ ProfileEdit(a)
    BY <1>7 DEF deleteCourse, createDepartment, updateDepartment, deleteDepartment,
       createClassroom, updateClassroom, deleteClassroom, createSection,
       createMenu, updateMenu, deleteMenu, createAnnouncement, updateAnnouncement,
       deleteAnnouncement, createCalendarEvent, updateCalendarEvent, deleteCalendarEvent,
       updateProfile, uploadProfilePicture, updateStudentDepartment, updateFacultyDepartment
  <2>. QED  BY <1>2, <2>1
<1>. QED  BY <1>3, <1>4, <1>5, <1>6, <1>7 DEF CatNext

(* Whatever the courses and the administrators' requests: a course's list  *)
(* is the one it was last given by a request that neither failed nor       *)
(* overlapped with another replacing (createCourse, updateCourse).         *)
THEOREM PrerequisitesAreExact == CatSpec => []PrerequisitesExact
<1>1. PrereqInv => PrerequisitesExact
  BY DEF PrereqInv, Kept, PrerequisitesExact
<1>. QED  BY <1>1, CatalogueAssumption, PrereqInvInit, PrereqInvStep, PTL DEF CatSpec

-----------------------------------------------------------------------------
(* Cafeterias                                                              *)

Copies(c) == {e \in Entry : Stored(e) /\ entries[e].code = c}
Seeding(c) == {a \in Admin : catPc[a] = "seed" /\ catAsk[a].code = c}

(* Who is about to insert a name found no copy of it.                      *)
CafeteriaInv ==
    catKind = "cafeteria" =>
        /\ \A e \in Entry : entries[e].state \in {"none", "there"}
        /\ \A a \in Admin : catPc[a] \in {"idle", "seek", "seed"}
        /\ \A c \in Code : Cardinality(Copies(c)) + Cardinality(Seeding(c)) <= Cardinality(Admin)

LEMMA CountsAreNat ==
    ASSUME CatalogueAssumption, NEW c
    PROVE  /\ IsFiniteSet(Copies(c)) /\ Cardinality(Copies(c)) \in Nat
           /\ IsFiniteSet(Seeding(c)) /\ Cardinality(Seeding(c)) \in Nat
           /\ Cardinality(Seeding(c)) <= Cardinality(Admin) /\ Cardinality(Admin) \in Nat
<1>1. Copies(c) \subseteq Entry /\ Seeding(c) \subseteq Admin
  BY DEF Copies, Seeding
<1>2. IsFiniteSet(Entry) /\ IsFiniteSet(Admin)
  BY DEF CatalogueAssumption
<1>3. IsFiniteSet(Copies(c)) /\ IsFiniteSet(Seeding(c)) /\ Cardinality(Seeding(c)) <= Cardinality(Admin)
  BY <1>1, <1>2, FS_Subset
<1>. QED  BY <1>2, <1>3, FS_CardinalityType

LEMMA CafeteriaInvInit == CatalogueAssumption /\ CatInit => CafeteriaInv
<1>. SUFFICES ASSUME CatalogueAssumption, CatInit, catKind = "cafeteria"
              PROVE  CafeteriaInv
  BY DEF CafeteriaInv
<1>1. \A e \in Entry : entries[e].state = "none"
  BY DEF CatInit, NoRowYet
<1>2. \A c : Copies(c) = {}
  BY <1>1 DEF Copies, Stored
<1>3. \A c : Cardinality(Seeding(c)) <= Cardinality(Admin)
             /\ Cardinality(Seeding(c)) \in Nat /\ Cardinality(Admin) \in Nat
  BY CountsAreNat
<1>4. Cardinality({}) = 0
  BY FS_EmptySet
<1>. QED  BY <1>1, <1>2, <1>3, <1>4 DEF CafeteriaInv, CatInit
(* A slot that was not about to insert looks on, or is about to insert a   *)
(* name of which it found no copy.                                         *)
LEMMA SeekingCounts ==
    ASSUME CatalogueAssumption, PrereqInv, CafeteriaInv, catKind = "cafeteria", NEW a \in Admin,
           NEW step \in {"idle", "seek", "seed"}, NEW q, CatGoto(a, step, q), UNCHANGED CatTables,
           step = "seed" => Copies(q.code) = {}
    PROVE  CafeteriaInv'
<1>1. /\ catPc'[a] = step /\ catAsk'[a] = q
      /\ \A x \in Admin : x # a => catPc'[x] = catPc[x] /\ catAsk'[x] = catAsk[x]
  BY SlotTyped DEF PrereqInv
<1>2. UNCHANGED <<catKind, entries>>
  BY DEF CatTables
<1>3. \A x \in Admin : catPc'[x] \in {"idle", "seek", "seed"}
  BY <1>1 DEF CafeteriaInv
<1>4. ASSUME NEW c \in Code
      PROVE  Cardinality(Copies(c)') + Cardinality(Seeding(c)') <= Cardinality(Admin)
  <2>1. Copies(c)' = Copies(c)
    BY <1>2 DEF Copies, Stored
  <2>2. CASE step = "seed" /\ q.code = c
    <3>1. Copies(c)' = {}
      BY <2>1, <2>2
    <3>2. Seeding(c)' \subseteq Admin
      BY DEF Seeding
    <3>3. Cardinality(Seeding(c)') <= Cardinality(Admin)
      BY <3>2, FS_Subset DEF CatalogueAssumption
    <3>4. IsFiniteSet(Seeding(c)')
      BY <3>2, FS_Subset DEF CatalogueAssumption
    <3>5. Cardinality(Seeding(c)') \in Nat /\ Cardinality(Admin) \in Nat
      BY <3>4, FS_CardinalityType DEF CatalogueAssumption
    <3>6. Cardinality({}) = 0
      BY FS_EmptySet
    <3>. QED  BY <3>1, <3>3, <3>5, <3>6
  <2>3. CASE ~(step = "seed" /\ q.code = c)
    <3>1. Seeding(c)' \subseteq Seeding(c)
      BY <1>1, <2>3 DEF Seeding
    <3>2. IsFiniteSet(Seeding(c))
      BY CountsAreNat
    <3>3. Cardinality(Seeding(c)') <= Cardinality(Seeding(c)) /\ IsFiniteSet(Seeding(c)')
      BY <3>1, <3>2, FS_Subset
    <3>4. Cardinality(Seeding(c)') \in Nat
      BY <3>3, FS_CardinalityType
    <3>5. Cardinality(Copies(c)) + Cardinality(Seeding(c)) <= Cardinality(Admin)
      BY DEF CafeteriaInv
    <3>6. Cardinality(Copies(c)) \in Nat /\ Cardinality(Seeding(c)) \in Nat /\ Cardinality(Admin) \in Nat
      BY CountsAreNat
    <3>. QED  BY <2>1, <3>3, <3>4, <3>5, <3>6
  <2>. QED  BY <2>2, <2>3
<1>. QED  BY <1>2, <1>3, <1>4 DEF CafeteriaInv

(* An insertion turns one that is about to insert into one more copy.      *)
LEMMA SeedInsertCounts ==
    ASSUME CatalogueAssumption, PrereqInv, CafeteriaInv, catKind = "cafeteria", NEW a \in Admin,
           SeedInsert(a)
    PROVE  CafeteriaInv'
<1>1. PICK k : k = catAsk[a].code
  OBVIOUS
<1>2. PICK e \in Entry :
          /\ entries[e] = NoRowYet
          /\ entries' = [entries EXCEPT ![e] = [state |-> "there", code |-> k, active |-> "on"]]
  <2>1. ~Taken(k, "absent")
    BY DEF Taken, Keyed
  <2>. QED  BY <1>1, <2>1 DEF SeedInsert
<1>3. catPc[a] = "seed" /\ UNCHANGED <<catKind, links, promised>> /\ SeedNext(a, k)
  <2>1. ~Taken(k, "absent")
    BY DEF Taken, Keyed
  <2>. QED  BY <1>1, <2>1 DEF SeedInsert
<1>4. PICK step \in {"idle", "seek"} : \E q : CatGoto(a, step, q)
  BY <1>3, SeedNextSlot
<1>5. PICK q : CatGoto(a, step, q)
  BY <1>4
<1>6. /\ catPc'[a] = step /\ catAsk'[a] = q
      /\ \A x \in Admin : x # a => catPc'[x] = catPc[x] /\ catAsk'[x] = catAsk[x]
  BY <1>5, SlotTyped DEF PrereqInv
<1>7. PICK row : row = [state |-> "there", code |-> k, active |-> "on"]
  OBVIOUS
<1>8. /\ row.state = "there" /\ row.code = k /\ entries'[e] = row /\ entries[e].state = "none"
      /\ \A x \in Entry : x # e => entries'[x] = entries[x]
  BY <1>2, <1>7 DEF PrereqInv, CatTyped, NoRowYet
<1>9. \A x \in Entry : entries'[x].state \in {"none", "there"}
  BY <1>8 DEF CafeteriaInv
<1>10. \A x \in Admin : catPc'[x] \in {"idle", "seek", "seed"}
  BY <1>6 DEF CafeteriaInv
<1>11. ASSUME NEW c \in Code
       PROVE  Cardinality(Copies(c)') + Cardinality(Seeding(c)') <= Cardinality(Admin)
  <2>1. Cardinality(Copies(c)) + Cardinality(Seeding(c)) <= Cardinality(Admin)
    BY DEF CafeteriaInv
  <2>2. /\ IsFiniteSet(Copies(c)) /\ Cardinality(Copies(c)) \in Nat
        /\ IsFiniteSet(Seeding(c)) /\ Cardinality(Seeding(c)) \in Nat /\ Cardinality(Admin) \in Nat
    BY CountsAreNat
  <2>3. CASE c = k
    <3>1. Copies(c)' = Copies(c) \cup {e} /\ e \notin Copies(c)
      BY <1>8, <2>3 DEF Copies, Stored
    <3>2. Seeding(c)' = Seeding(c) \ {a} /\ a \in Seeding(c)
      BY <1>1, <1>3, <1>6, <2>3 DEF Seeding
    <3>3. Cardinality(Copies(c)') = Cardinality(Copies(c)) + 1
      BY <2>2, <3>1, FS_AddElement
    <3>4. Cardinality(Seeding(c)') = Cardinality(Seeding(c)) - 1
      BY <2>2, <3>2, FS_RemoveElement
    <3>. QED  BY <2>1, <2>2, <3>3, <3>4
  <2>4. CASE c # k
    <3>1. Copies(c)' = Copies(c)
      BY <1>8, <2>4 DEF Copies, Stored
    <3>2. Seeding(c)' = Seeding(c)
      BY <1>1, <1>3, <1>6, <2>4 DEF Seeding
    <3>. QED  BY <2>1, <3>1, <3>2
  <2>. QED  BY <2>3, <2>4
<1>. QED  BY <1>3, <1>9, <1>10, <1>11 DEF CafeteriaInv

LEMMA CafeteriaInvStep ==
    CatalogueAssumption /\ PrereqInv /\ CafeteriaInv /\ [CatNext]_catVars => CafeteriaInv'
<1>. SUFFICES ASSUME CatalogueAssumption, PrereqInv, CafeteriaInv, [CatNext]_catVars,
                     catKind' = "cafeteria"
              PROVE  CafeteriaInv'
  BY DEF CafeteriaInv
<1>1. catKind = "cafeteria"
  <2>1. ASSUME NEW a \in Admin
        PROVE  /\ CreateInsert(a) \/ EditWrite(a) \/ Destroy(a) \/ Unlink(a) \/ Link(a)
                     => UNCHANGED catKind
               /\ \A list : CreateCheck(a, list) => UNCHANGED catKind
               /\ \A codes, flags, lists : EditRead(a, codes, flags, lists) => UNCHANGED catKind
               /\ SeedStart(a) \/ SeedFind(a) \/ SeedInsert(a) \/ SeedActivate(a) \/ CatFail(a)
                     => UNCHANGED catKind
    BY DEF CatTables, CreateCheck, CreateInsert, EditRead, EditWrite, Destroy, Unlink, Link,
       SeedStart, SeedFind, SeedInsert, SeedActivate, CatFail
  <2>2. ASSUME NEW a \in Admin
        PROVE  Creates(a) \/ Edits(a) \/ Deactivates(a) \/ ProfileEdit(a) \/ Seeds(a)
                 \/ createCourse(a) \/ updateCourse(a) => UNCHANGED catKind
    BY <2>1 DEF Creates, Edits, Deactivates, ProfileEdit, Seeds, createCourse, updateCourse
  <2>3. UNCHANGED catKind
    BY <2>1, <2>2 DEF CatNext, catVars, deleteCourse,
       createDepartment, updateDepartment, deleteDepartment, seedDepartments,
       createClassroom, updateClassroom, deleteClassroom, createSection,
       createMenu, updateMenu, deleteMenu, seedCafeterias, createAnnouncement, updateAnnouncement,
       deleteAnnouncement, createCalendarEvent, updateCalendarEvent, deleteCalendarEvent,
       updateProfile, uploadProfilePicture, updateStudentDepartment, updateFacultyDepartment
  <2>. QED  BY <2>3
<1>2. CASE UNCHANGED catVars
  <2>1. \A c : Copies(c)' = Copies(c) /\ Seeding(c)' = Seeding(c)
    BY <1>2 DEF catVars, Copies, Seeding, Stored
  <2>. QED  BY <1>2, <2>1 DEF catVars, CafeteriaInv
<1>3. ASSUME NEW a \in Admin, CatFail(a)
      PROVE  CafeteriaInv'
  <2>1. UNCHANGED <<catKind, entries>> /\ CatGoto(a, "idle", Nothing)
    BY <1>3 DEF CatFail, CatDone
  <2>2. /\ catPc'[a] = "idle"
        /\ \A x \in Admin : x # a => catPc'[x] = catPc[x] /\ catAsk'[x] = catAsk[x]
    BY <2>1, SlotTyped DEF PrereqInv
  <2>3. ASSUME NEW c \in Code
        PROVE  Cardinality(Copies(c)') + Cardinality(Seeding(c)') <= Cardinality(Admin)
    <3>1. Copies(c)' = Copies(c)
      BY <2>1 DEF Copies, Stored
    <3>2. Seeding(c)' \subseteq Seeding(c)
      BY <2>2 DEF Seeding
    <3>3. IsFiniteSet(Seeding(c))
      BY CountsAreNat
    <3>4. Cardinality(Seeding(c)') <= Cardinality(Seeding(c)) /\ IsFiniteSet(Seeding(c)')
      BY <3>2, <3>3, FS_Subset
    <3>5. Cardinality(Seeding(c)') \in Nat
      BY <3>4, FS_CardinalityType
    <3>6. Cardinality(Copies(c)) + Cardinality(Seeding(c)) <= Cardinality(Admin)
      BY <1>1 DEF CafeteriaInv
    <3>7. Cardinality(Copies(c)) \in Nat /\ Cardinality(Seeding(c)) \in Nat /\ Cardinality(Admin) \in Nat
      BY CountsAreNat
    <3>. QED  BY <3>1, <3>4, <3>5, <3>6, <3>7
  <2>. QED  BY <1>1, <2>1, <2>2, <2>3 DEF CafeteriaInv
<1>4. ASSUME NEW a \in Admin, seedCafeterias(a)
      PROVE  CafeteriaInv'
  <2>1. CASE SeedStart(a)
    <3>1. PICK q : q = [Nothing EXCEPT !.todo = Code]
      OBVIOUS
    <3>2. CatGoto(a, "seek", q) /\ UNCHANGED CatTables
      BY <2>1, <3>1 DEF SeedStart
    <3>3. "seek" \in {"idle", "seek", "seed"} /\ "seek" # "seed"
      OBVIOUS
    <3>. QED  BY <1>1, <3>2, <3>3, SeekingCounts
  <2>2. CASE SeedFind(a)
    <3>1. PICK c \in catAsk[a].todo :
              \/ ~FoundByCode(c) /\ CatGoto(a, "seed", [catAsk[a] EXCEPT !.code = c])
              \/ SeedNext(a, c)
      BY <1>1, <2>2 DEF SeedFind, SeedMissing
    <3>2. UNCHANGED CatTables
      BY <2>2 DEF SeedFind
    <3>3. CASE ~FoundByCode(c) /\ CatGoto(a, "seed", [catAsk[a] EXCEPT !.code = c])
      <4>1. PICK q : q = [catAsk[a] EXCEPT !.code = c]
        OBVIOUS
      <4>2. q.code = c
        BY <4>1 DEF PrereqInv, AskOK
      <4>3. Copies(c) = {}
        BY <1>1, <3>3 DEF FoundByCode, Visible, Copies, Stored, CafeteriaInv
      <4>4. "seed" \in {"idle", "seek", "seed"}
        OBVIOUS
      <4>. QED  BY <1>1, <3>2, <3>3, <4>1, <4>2, <4>3, <4>4, SeekingCounts
    <3>4. CASE SeedNext(a, c)
      <4>1. PICK step \in {"idle", "seek"} : \E q : CatGoto(a, step, q)
        BY <3>4, SeedNextSlot
      <4>2. step \in {"idle", "seek", "seed"} /\ step # "seed"
        OBVIOUS
      <4>. QED  BY <1>1, <3>2, <4>1, <4>2, SeekingCounts
    <3>. QED  BY <3>1, <3>3, <3>4
  <2>3. CASE SeedInsert(a)
    BY <1>1, <2>3, SeedInsertCounts
  <2>. QED  BY <1>4, <2>1, <2>2, <2>3 DEF seedCafeterias, Seeds
<1>. QED
  BY <1>1, <1>2, <1>3, <1>4
  DEF CatNext, createCourse, updateCourse, deleteCourse,
     createDepartment, updateDepartment, deleteDepartment, seedDepartments,
     createClassroom, updateClassroom, deleteClassroom, createSection,
     createMenu, updateMenu, deleteMenu, createAnnouncement, updateAnnouncement,
     deleteAnnouncement, createCalendarEvent, updateCalendarEvent, deleteCalendarEvent,
     updateProfile, uploadProfilePicture, updateStudentDepartment, updateFacultyDepartment

(* Whatever the number of seedings served at once: no cafeteria has more   *)
(* rows than there are of them, although no unique index forbids it        *)
(* (seedCafeterias).                                                       *)
THEOREM CafeteriaCopiesAreBounded == CatSpec => []CopiesBounded
<1>1. ASSUME CatalogueAssumption, CafeteriaInv
      PROVE  CopiesBounded
  <2>1. \A c : /\ Cardinality(Copies(c)) \in Nat /\ Cardinality(Seeding(c)) \in Nat
               /\ Cardinality(Admin) \in Nat
    BY <1>1, CountsAreNat
  <2>. QED  BY <1>1, <2>1 DEF CafeteriaInv, CopiesBounded, Copies
<1>2. CatalogueAssumption /\ CatInit => PrereqInv /\ CafeteriaInv
  BY PrereqInvInit, CafeteriaInvInit
<1>3. CatalogueAssumption /\ PrereqInv /\ CafeteriaInv /\ [CatNext]_catVars => PrereqInv' /\ CafeteriaInv'
  BY PrereqInvStep, CafeteriaInvStep
<1>. QED  BY <1>1, <1>2, <1>3, CatalogueAssumption, PTL DEF CatSpec

-----------------------------------------------------------------------------
(* Catalogue: what the rows and the requests look like                     *)

CatSteps == {"idle", "insert", "write", "unlink", "link", "seek", "seed", "activate"}
Asked == [id : Entry \cup {"absent"}, code : Codes, active : Flags, list : Lists,
          todo : SUBSET (Entry \cup Code)]

(* What a request carries when it is at a statement. *)
Fit(step, q) ==
    /\ step \in CatSteps /\ q \in Asked
    /\ step \in {"write", "unlink", "link", "activate"} => q.id \in Entry
    /\ step = "unlink" => q.list \subseteq Entry
    /\ step = "link" => q.todo \subseteq Entry
    /\ step \in {"seek", "seed", "activate"} => q.todo \subseteq Code

TablesTyped ==
    /\ catKind \in Kind
    /\ entries \in [Entry -> Rows]
    /\ links \in [Entry -> SUBSET Entry]
    /\ promised \in [Entry -> Lists]

AsksTyped ==
    /\ catPc \in [Admin -> CatSteps] /\ catAsk \in [Admin -> Asked]
    /\ \A a \in Admin : Fit(catPc[a], catAsk[a])

(* A request or a row with one column changed is one. *)
LEMMA AskColumns ==
  ASSUME NEW q \in Asked
  PROVE  /\ \A x \in Entry \cup {"absent"} : [q EXCEPT !.id = x] \in Asked
         /\ \A x \in Codes : [q EXCEPT !.code = x] \in Asked
         /\ \A x \in Lists : [q EXCEPT !.list = x] \in Asked
         /\ \A x \in SUBSET (Entry \cup Code) : [q EXCEPT !.todo = x] \in Asked
BY DEF Asked

LEMMA NothingAsked == Nothing \in Asked /\ Fit("idle", Nothing)
<1>1. Nothing \in Asked
  BY DEF Nothing, Asked, Codes, Flags, Lists
<1>2. QED
  BY <1>1 DEF Fit, CatSteps

LEMMA RowChanges ==
  ASSUME NEW r \in Rows
  PROVE  /\ \A x \in {"none", "there", "deleted", "gone"} : [r EXCEPT !.state = x] \in Rows
         /\ \A x \in Codes : [r EXCEPT !.code = x] \in Rows
         /\ \A x \in Flag : [r EXCEPT !.active = x] \in Rows
BY DEF Rows

(* One slot goes on with a request that fits. *)
LEMMA SlotGoesOn ==
  ASSUME AsksTyped, NEW a \in Admin, NEW step, NEW q, Fit(step, q), CatGoto(a, step, q)
  PROVE  AsksTyped'
<1>1. step \in CatSteps /\ q \in Asked
  BY DEF Fit
<1>2. catPc' \in [Admin -> CatSteps] /\ catAsk' \in [Admin -> Asked]
  BY <1>1 DEF AsksTyped, CatGoto
<1>3. ASSUME NEW x \in Admin
      PROVE  Fit(catPc'[x], catAsk'[x])
  <2>1. CASE x = a
    <3>1. catPc'[x] = step /\ catAsk'[x] = q
      BY <2>1 DEF AsksTyped, CatGoto
    <3>2. QED
      BY <3>1
  <2>2. CASE x # a
    <3>1. catPc'[x] = catPc[x] /\ catAsk'[x] = catAsk[x]
      BY <2>2 DEF AsksTyped, CatGoto
    <3>2. QED
      BY <3>1 DEF AsksTyped
  <2>3. QED
    BY <2>1, <2>2
<1>4. QED
  BY <1>2, <1>3 DEF AsksTyped

LEMMA SlotEnds ==
  ASSUME AsksTyped, NEW a \in Admin, CatDone(a)
  PROVE  AsksTyped'
BY SlotGoesOn, NothingAsked DEF CatDone

(* A new row is a row. *)
LEMMA RowInserted ==
  ASSUME TablesTyped, NEW e \in Entry, NEW c \in Codes,
         entries' = [entries EXCEPT ![e] = [state |-> "there", code |-> c, active |-> "on"]]
  PROVE  entries' \in [Entry -> Rows]
<1>1. [state |-> "there", code |-> c, active |-> "on"] \in Rows
  BY DEF Rows, Flag
<1>2. QED
  BY <1>1 DEF TablesTyped

LEMMA CreateTyped ==
  ASSUME TablesTyped, AsksTyped, NEW a \in Admin,
         (\E list \in Lists : CreateCheck(a, list)) \/ CreateInsert(a)
  PROVE  TablesTyped' /\ AsksTyped'
<1>1. CASE \E list \in Lists : CreateCheck(a, list)
  <2>1. PICK list \in Lists : CreateCheck(a, list)
    BY <1>1
  <2>2. PICK c \in Code : CatGoto(a, "insert", [Nothing EXCEPT !.code = c, !.list = list])
    BY <2>1 DEF CreateCheck
  <2>3. PICK p : p = [Nothing EXCEPT !.code = c]
    OBVIOUS
  <2>4. PICK q : q = [p EXCEPT !.list = list]
    OBVIOUS
  <2>5. CatGoto(a, "insert", q)
    BY <2>2, <2>3, <2>4
  <2>6. q \in Asked
    BY <2>3, <2>4, NothingAsked, AskColumns DEF Codes
  <2>7. Fit("insert", q)
    BY <2>6 DEF Fit, CatSteps
  <2>8. UNCHANGED CatTables
    BY <2>1 DEF CreateCheck
  <2>9. QED
    BY <2>5, <2>7, <2>8, SlotGoesOn DEF CatTables, TablesTyped
<1>2. CASE CreateInsert(a)
  <2>1. PICK ask \in Asked : ask = catAsk[a]
    BY DEF AsksTyped
  <2>2. ask.code \in Codes /\ ask.list \in Lists /\ UNCHANGED <<catKind, links>>
    BY <1>2, <2>1 DEF Asked, CreateInsert
  <2>3. CASE CatDone(a) /\ UNCHANGED <<entries, promised>>
    BY <2>2, <2>3, SlotEnds DEF TablesTyped
  <2>4. ASSUME NEW e \in Entry,
               entries' = [entries EXCEPT ![e] = [state |-> "there", code |-> ask.code, active |-> "on"]],
               CatDone(a), UNCHANGED promised
        PROVE  TablesTyped' /\ AsksTyped'
    BY <2>2, <2>4, RowInserted, SlotEnds DEF TablesTyped
  <2>5. ASSUME NEW e \in Entry,
               entries' = [entries EXCEPT ![e] = [state |-> "there", code |-> ask.code, active |-> "on"]],
               ask.list \notin {NoList, {}},
               CatGoto(a, "link", [ask EXCEPT !.id = e, !.todo = ask.list]),
               promised' = [promised EXCEPT ![e] = ask.list]
        PROVE  TablesTyped' /\ AsksTyped'
    <3>1. PICK list \in SUBSET Entry : list = ask.list
      BY <2>2, <2>5 DEF Lists
    <3>2. PICK p : p = [ask EXCEPT !.id = e]
      OBVIOUS
    <3>3. PICK q : q = [p EXCEPT !.todo = list]
      OBVIOUS
    <3>4. p \in Asked /\ p.id = e
      BY <3>2, AskColumns DEF Asked
    <3>5. q \in Asked /\ q.id = e /\ q.todo = list
      BY <3>3, <3>4, AskColumns DEF Asked
    <3>6. Fit("link", q)
      BY <3>5 DEF Fit, CatSteps
    <3>7. CatGoto(a, "link", q)
      BY <2>5, <3>1, <3>2, <3>3
    <3>8. promised' \in [Entry -> Lists]
      BY <2>2, <2>5 DEF TablesTyped
    <3>9. QED
      BY <2>2, <2>5, <3>6, <3>7, <3>8, RowInserted, SlotGoesOn DEF TablesTyped
  <2>6. QED
    BY <1>2, <2>1, <2>3, <2>4, <2>5 DEF CreateInsert
<1>3. QED
  BY <1>1, <1>2

LEMMA EditTyped ==
  ASSUME TablesTyped, AsksTyped, NEW a \in Admin,
         NEW codes \in SUBSET Codes, NEW flags \in SUBSET Flags, NEW lists \in SUBSET Lists,
         EditRead(a, codes, flags, lists) \/ EditWrite(a)
  PROVE  TablesTyped' /\ AsksTyped'
<1>1. CASE EditRead(a, codes, flags, lists)
  <2>1. PICK e \in Entry, c \in codes, flag \in flags, list \in lists :
            CatGoto(a, "write", [id |-> e, code |-> Dirty(c, entries[e].code),
                                 active |-> Dirty(flag, entries[e].active),
                                 list |-> list, todo |-> {}])
    BY <1>1 DEF EditRead
  <2>2. PICK q : q = [id |-> e, code |-> Dirty(c, entries[e].code),
                      active |-> Dirty(flag, entries[e].active), list |-> list, todo |-> {}]
    OBVIOUS
  <2>3. Dirty(c, entries[e].code) \in Codes /\ Dirty(flag, entries[e].active) \in Flags
    BY DEF Dirty, Codes, Flags
  <2>4. q \in Asked /\ q.id = e
    BY <2>2, <2>3 DEF Asked
  <2>5. Fit("write", q)
    BY <2>4 DEF Fit, CatSteps
  <2>6. UNCHANGED CatTables
    BY <1>1 DEF EditRead
  <2>7. QED
    BY <2>1, <2>2, <2>5, <2>6, SlotGoesOn DEF CatTables, TablesTyped
<1>2. CASE EditWrite(a)
  <2>1. PICK ask \in Asked : ask = catAsk[a]
    BY DEF AsksTyped
  <2>2. /\ ask.code \in Codes /\ ask.active \in Flags /\ ask.list \in Lists
        /\ UNCHANGED <<catKind, links, promised>> /\ ask.id \in Entry
    BY <1>2, <2>1 DEF Asked, EditWrite, AsksTyped, Fit
  <2>3. CatDone(a) \/ (ask.list # NoList /\ CatGoto(a, "unlink", ask))
    BY <1>2, <2>1 DEF EditWrite
  <2>4. Fit("unlink", ask) \/ ask.list = NoList
    BY <2>2 DEF Fit, CatSteps, Lists
  <2>5. AsksTyped'
    BY <2>3, <2>4, SlotEnds, SlotGoesOn
  <2>6. PICK e \in Entry : e = ask.id
    BY <2>2
  <2>7. PICK r \in Rows : r = entries[e]
    BY DEF TablesTyped
  <2>8. Written(ask.code, r.code) \in Codes /\ Written(ask.active, r.active) \in Flag
    BY <2>2, <2>7 DEF Written, Rows, Flags
  <2>9. PICK mid : mid = [r EXCEPT !.code = Written(ask.code, r.code)]
    OBVIOUS
  <2>10. PICK new : new = [mid EXCEPT !.active = Written(ask.active, r.active)]
    OBVIOUS
  <2>11. new \in Rows
    BY <2>8, <2>9, <2>10, RowChanges
  <2>12. entries' = entries \/ entries' = [entries EXCEPT ![e] = new]
    <3>1. CASE entries' = [entries EXCEPT ![e].code = Written(ask.code, @),
                                          ![e].active = Written(ask.active, @)]
      <4>1. PICK f : f = [entries EXCEPT ![e] = mid]
        OBVIOUS
      <4>2. f = [entries EXCEPT ![e].code = Written(ask.code, @)]
        BY <2>7, <2>9, <4>1 DEF TablesTyped
      <4>3. f[e].active = r.active /\ f[e] = mid
        BY <2>7, <2>9, <4>1 DEF TablesTyped, Rows
      <4>4. entries' = [f EXCEPT ![e].active = Written(ask.active, @)]
        BY <3>1, <4>2
      <4>5. entries' = [f EXCEPT ![e] = new]
        BY <2>10, <4>3, <4>4
      <4>6. QED
        BY <4>1, <4>5 DEF TablesTyped
    <3>2. QED
      BY <1>2, <2>1, <2>6, <3>1 DEF EditWrite
  <2>13. QED
    BY <2>2, <2>5, <2>11, <2>12 DEF TablesTyped
<1>3. QED
  BY <1>1, <1>2

LEMMA DestroyTyped ==
  ASSUME TablesTyped, AsksTyped, NEW a \in Admin, Destroy(a)
  PROVE  TablesTyped' /\ AsksTyped'
<1>1. PICK e \in Entry, x \in {"deleted", "gone"} : entries' = [entries EXCEPT ![e].state = x]
  BY DEF Destroy
<1>2. PICK r \in Rows : r = [entries[e] EXCEPT !.state = x]
  BY RowChanges DEF TablesTyped
<1>3. entries' = [entries EXCEPT ![e] = r]
  BY <1>1, <1>2
<1>4. QED
  BY <1>2, <1>3 DEF Destroy, TablesTyped, AsksTyped

LEMMA LinkTyped ==
  ASSUME TablesTyped, AsksTyped, NEW a \in Admin, Unlink(a) \/ Link(a)
  PROVE  TablesTyped' /\ AsksTyped'
<1>1. PICK ask \in Asked : ask = catAsk[a]
  BY DEF AsksTyped
<1>2. Fit(catPc[a], ask)
  BY <1>1 DEF AsksTyped
<1>3. CASE Unlink(a)
  <2>1. ask.id \in Entry /\ ask.list \in SUBSET Entry
    BY <1>2, <1>3 DEF Fit, Unlink
  <2>2. PICK q : q = [ask EXCEPT !.todo = ask.list]
    OBVIOUS
  <2>3. q \in Asked /\ q.id = ask.id /\ q.todo = ask.list
    BY <2>1, <2>2, AskColumns DEF Asked
  <2>4. Fit("link", q)
    BY <2>1, <2>3 DEF Fit, CatSteps
  <2>5. CatDone(a) \/ CatGoto(a, "link", q)
    BY <1>1, <1>3, <2>2 DEF Unlink
  <2>6. links' = [links EXCEPT ![ask.id] = {}] /\ UNCHANGED <<catKind, entries>>
    BY <1>1, <1>3 DEF Unlink, AfterDestroy
  <2>7. PICK list \in Lists : promised' = [promised EXCEPT ![ask.id] = list]
    BY <1>1, <1>3, <2>1 DEF Unlink, Lists
  <2>8. TablesTyped'
    BY <2>1, <2>6, <2>7 DEF TablesTyped
  <2>9. QED
    BY <2>4, <2>5, <2>8, SlotEnds, SlotGoesOn
<1>4. CASE Link(a)
  <2>1. ask.id \in Entry /\ ask.todo \subseteq Entry
    BY <1>2, <1>4 DEF Fit, Link
  <2>2. PICK p \in ask.todo :
            /\ links' = [links EXCEPT ![ask.id] = IF Visible(p) THEN @ \cup {p} ELSE @]
            /\ CatDone(a) \/ CatGoto(a, "link", [ask EXCEPT !.todo = ask.todo \ {p}])
            /\ \/ promised' = [promised EXCEPT ![ask.id] = NoList]
               \/ promised' = [promised EXCEPT ![ask.id] = @]
    BY <1>1, <1>4 DEF Link
  <2>3. PICK q : q = [ask EXCEPT !.todo = ask.todo \ {p}]
    OBVIOUS
  <2>4. ask.todo \ {p} \in SUBSET (Entry \cup Code)
    BY <2>1
  <2>5. q \in Asked /\ q.id = ask.id /\ q.todo = ask.todo \ {p}
    BY <2>3, <2>4, AskColumns DEF Asked
  <2>6. Fit("link", q)
    BY <2>1, <2>5 DEF Fit, CatSteps
  <2>7. AsksTyped'
    BY <2>2, <2>3, <2>6, SlotEnds, SlotGoesOn
  <2>8. links' \in [Entry -> SUBSET Entry]
    BY <2>1, <2>2 DEF TablesTyped
  <2>9. promised' \in [Entry -> Lists]
    BY <2>2 DEF TablesTyped, Lists
  <2>10. QED
    BY <1>4, <2>7, <2>8, <2>9 DEF Link, TablesTyped
<1>5. QED
  BY <1>3, <1>4

(* After a default the slot is free or looks for the next one. *)
LEMMA SeedGoesOn ==
  ASSUME AsksTyped, NEW a \in Admin, NEW c, catAsk[a].todo \subseteq Code, SeedNext(a, c)
  PROVE  AsksTyped'
<1>1. PICK rest : rest = catAsk[a].todo \ {c}
  OBVIOUS
<1>2. PICK q : q = [Nothing EXCEPT !.todo = rest]
  OBVIOUS
<1>3. rest \in SUBSET Code /\ rest \in SUBSET (Entry \cup Code)
  BY <1>1
<1>4. q \in Asked
  BY <1>2, <1>3, NothingAsked, AskColumns
<1>5. q.todo = rest
  BY <1>2 DEF Nothing
<1>6. Fit("seek", q)
  BY <1>3, <1>4, <1>5 DEF Fit, CatSteps
<1>7. CatDone(a) \/ CatGoto(a, "seek", q)
  BY <1>1, <1>2 DEF SeedNext
<1>8. QED
  BY <1>6, <1>7, SlotEnds, SlotGoesOn

LEMMA SeedTyped ==
  ASSUME TablesTyped, AsksTyped, NEW a \in Admin, Seeds(a) \/ SeedActivate(a)
  PROVE  TablesTyped' /\ AsksTyped'
<1>1. PICK ask \in Asked : ask = catAsk[a]
  BY DEF AsksTyped
<1>2. Fit(catPc[a], ask)
  BY <1>1 DEF AsksTyped
<1>3. CASE SeedStart(a)
  <2>1. PICK q : q = [Nothing EXCEPT !.todo = Code]
    OBVIOUS
  <2>2. Code \in SUBSET (Entry \cup Code)
    OBVIOUS
  <2>3. q \in Asked
    BY <2>1, <2>2, NothingAsked, AskColumns
  <2>4. q.todo = Code
    BY <2>1 DEF Nothing
  <2>5. Fit("seek", q)
    BY <2>3, <2>4 DEF Fit, CatSteps
  <2>6. QED
    BY <1>3, <2>1, <2>5, SlotGoesOn DEF SeedStart, CatTables, TablesTyped
<1>4. CASE SeedFind(a)
  <2>1. ask.todo \subseteq Code /\ UNCHANGED CatTables
    BY <1>2, <1>4 DEF Fit, SeedFind
  <2>2. PICK c \in ask.todo :
            \/ CatGoto(a, "seed", [ask EXCEPT !.code = c])
            \/ SeedNext(a, c)
            \/ \E e \in Entry : CatGoto(a, "activate", [ask EXCEPT !.code = c, !.id = e])
    BY <1>1, <1>4 DEF SeedFind
  <2>3. PICK q : q = [ask EXCEPT !.code = c]
    OBVIOUS
  <2>4. c \in Codes
    BY <2>1 DEF Codes
  <2>5. q \in Asked /\ q.todo = ask.todo
    BY <2>3, <2>4, AskColumns DEF Asked
  <2>6. ASSUME NEW e \in Entry
        PROVE  Fit("activate", [ask EXCEPT !.code = c, !.id = e])
    <3>1. PICK r : r = [q EXCEPT !.id = e]
      OBVIOUS
    <3>2. r \in Asked /\ r.id = e /\ r.todo = ask.todo
      BY <2>5, <3>1, AskColumns DEF Asked
    <3>3. Fit("activate", r)
      BY <2>1, <3>2 DEF Fit, CatSteps
    <3>4. r = [ask EXCEPT !.code = c, !.id = e]
      BY <2>3, <3>1
    <3>5. QED
      BY <3>3, <3>4
  <2>7. Fit("seed", q)
    BY <2>1, <2>5 DEF Fit, CatSteps
  <2>8. AsksTyped'
    BY <1>1, <2>1, <2>2, <2>3, <2>6, <2>7, SlotGoesOn, SeedGoesOn
  <2>9. QED
    BY <2>1, <2>8 DEF CatTables, TablesTyped
<1>5. CASE SeedInsert(a)
  <2>1. ask.todo \subseteq Code /\ ask.code \in Codes /\ UNCHANGED <<catKind, links, promised>>
    BY <1>2, <1>5 DEF Fit, SeedInsert, Asked
  <2>2. CASE CatGoto(a, "seek", [ask EXCEPT !.code = "absent"]) /\ UNCHANGED entries
    <3>1. PICK q : q = [ask EXCEPT !.code = "absent"]
      OBVIOUS
    <3>2. q \in Asked /\ q.todo = ask.todo
      BY <3>1, AskColumns DEF Asked, Codes
    <3>3. Fit("seek", q)
      BY <2>1, <3>2 DEF Fit, CatSteps
    <3>4. QED
      BY <2>1, <2>2, <3>1, <3>3, SlotGoesOn DEF TablesTyped
  <2>3. ASSUME NEW e \in Entry, SeedNext(a, ask.code),
               entries' = [entries EXCEPT ![e] = [state |-> "there", code |-> ask.code, active |-> "on"]]
        PROVE  TablesTyped' /\ AsksTyped'
    BY <1>1, <2>1, <2>3, RowInserted, SeedGoesOn DEF TablesTyped
  <2>4. QED
    BY <1>1, <1>5, <2>2, <2>3 DEF SeedInsert
<1>6. CASE SeedActivate(a)
  <2>1. ask.todo \subseteq Code /\ ask.id \in Entry /\ UNCHANGED <<catKind, links, promised>>
    BY <1>2, <1>6 DEF Fit, SeedActivate
  <2>2. PICK r \in Rows : r = [entries[ask.id] EXCEPT !.active = "on"]
    BY <2>1, RowChanges DEF TablesTyped, Flag
  <2>3. entries' = [entries EXCEPT ![ask.id] = r] /\ SeedNext(a, ask.code)
    BY <1>1, <1>6, <2>2 DEF SeedActivate
  <2>4. QED
    BY <1>1, <2>1, <2>2, <2>3, SeedGoesOn DEF TablesTyped
<1>7. QED
  BY <1>3, <1>4, <1>5, <1>6 DEF Seeds

LEMMA CatTypedStep ==
  ASSUME TablesTyped, AsksTyped, [CatNext]_catVars
  PROVE  TablesTyped' /\ AsksTyped'
<1>1. NoList \in Lists /\ Known \cup {NoList} \subseteq Lists
  BY DEF Lists, Known
<1>2. Codes \subseteq Codes /\ Flags \subseteq Flags /\ {NoList} \subseteq Lists
  BY <1>1
<1>3. Code \subseteq Codes /\ {"absent"} \subseteq Codes /\ {"off"} \subseteq Flags /\ {"absent"} \subseteq Flags
  BY DEF Codes, Flags, Flag
<1>4. ASSUME NEW a \in Admin, Creates(a) \/ Edits(a) \/ Deactivates(a) \/ Destroy(a) \/ ProfileEdit(a)
      PROVE  TablesTyped' /\ AsksTyped'
  BY <1>1, <1>2, <1>3, <1>4, CreateTyped, EditTyped, DestroyTyped
  DEF Creates, Edits, Deactivates, ProfileEdit
<1>5. ASSUME NEW a \in Admin, createCourse(a) \/ updateCourse(a)
      PROVE  TablesTyped' /\ AsksTyped'
  BY <1>1, <1>2, <1>5, CreateTyped, EditTyped, LinkTyped DEF createCourse, updateCourse
<1>6. ASSUME NEW a \in Admin, seedDepartments(a) \/ seedCafeterias(a)
      PROVE  TablesTyped' /\ AsksTyped'
  BY <1>6, SeedTyped DEF seedDepartments, seedCafeterias
<1>7. ASSUME NEW a \in Admin, CatFail(a)
      PROVE  TablesTyped' /\ AsksTyped'
  <2>1. promised' \in [Entry -> Lists]
    BY <1>7 DEF CatFail, TablesTyped, Lists
  <2>2. QED
    BY <1>7, <2>1, SlotEnds DEF CatFail, TablesTyped
<1>8. CASE UNCHANGED catVars
  BY <1>8 DEF catVars, TablesTyped, AsksTyped
<1>9. ASSUME NEW a \in Admin,
             \/ deleteCourse(a)
             \/ createDepartment(a) \/ updateDepartment(a) \/ deleteDepartment(a)
             \/ createClassroom(a) \/ updateClassroom(a) \/ deleteClassroom(a)
             \/ createSection(a)
             \/ createMenu(a) \/ updateMenu(a) \/ deleteMenu(a)
             \/ createAnnouncement(a) \/ updateAnnouncement(a) \/ deleteAnnouncement(a)
             \/ createCalendarEvent(a) \/ updateCalendarEvent(a) \/ deleteCalendarEvent(a)
             \/ updateProfile(a) \/ uploadProfilePicture(a)
             \/ updateStudentDepartment(a) \/ updateFacultyDepartment(a)
      PROVE  Creates(a) \/ Edits(a) \/ Deactivates(a) \/ Destroy(a) \/ ProfileEdit(a)
  BY <1>9 DEF deleteCourse, createDepartment, updateDepartment, deleteDepartment,
       createClassroom, updateClassroom, deleteClassroom, createSection,
       createMenu, updateMenu, deleteMenu, createAnnouncement, updateAnnouncement,
       deleteAnnouncement, createCalendarEvent, updateCalendarEvent, deleteCalendarEvent,
       updateProfile, uploadProfilePicture, updateStudentDepartment, updateFacultyDepartment
<1>10. QED
  BY <1>4, <1>5, <1>6, <1>7, <1>8, <1>9 DEF CatNext

(* Rows are of their table's columns, prerequisites are courses, and a request carries *)
(* what its next statement needs (courseController, sectionController, and the others). *)
THEOREM CatalogueTypeCorrect == CatSpec => []CatTypeOK
<1>1. CatInit => TablesTyped /\ AsksTyped
  <2> SUFFICES ASSUME CatInit PROVE TablesTyped /\ AsksTyped
    OBVIOUS
  <2>1. PICK c \in Code :
            entries = [e \in Entry |-> IF catKind = "profile"
                                       THEN [state |-> "there", code |-> c, active |-> "on"]
                                       ELSE NoRowYet]
    BY DEF CatInit
  <2>2. TablesTyped
    BY <2>1 DEF CatInit, TablesTyped, Rows, NoRowYet, Codes, Flag, Lists
  <2>3. QED
    BY <2>2, NothingAsked DEF CatInit, AsksTyped, CatSteps
<1>2. TablesTyped /\ AsksTyped => CatTypeOK
  BY DEF TablesTyped, AsksTyped, CatTypeOK, CatSteps, Asked
<1>3. QED
  BY <1>1, <1>2, CatTypedStep, PTL DEF CatSpec

-----------------------------------------------------------------------------
(* Meals: reservations, the scans of the clerks and transfers, although no UPDATE repeats *)
(* what was checked.                                                                      *)

(* A request between its SELECT and its UPDATE is about a row that exists, and is of the *)
(* kind of its slot.                                                                     *)
AskInv ==
    /\ \A s \in MealSlot : mealPc[s] # "idle" =>
          mealOf[s] \in Ask /\ ticket[mealOf[s].ticket] \in Row
    /\ \A s \in MealSlot : mealPc[s] \in {"offer", "accept"} => mealOf[s].user \in Diner
    /\ \A c \in Clerk : mealPc[c] \in {"idle", "use"}
    /\ \A g \in Guest : mealPc[g] # "use"

MealTyped == MealTypeOK /\ AskInv

LEMMA MealTypedInit == MealInit => MealTyped
<1> SUFFICES ASSUME MealInit PROVE MealTyped
  OBVIOUS
<1>1. ticket \in [Ticket -> Row \cup {Unmade}] /\ scans \in [Ticket -> 0 .. MaxScans]
  BY MealAssumption DEF MealInit
<1>2. invited \in [Ticket -> SUBSET Diner] /\ madeBy \in [Ticket -> Diner \cup {NoDiner}]
  BY DEF MealInit
<1>3. /\ mealPc \in [MealSlot -> {"idle", "cancel", "use", "offer", "accept"}]
      /\ mealOf \in [MealSlot -> Ask \cup {NoAsk}]
  BY DEF MealInit
<1>4. AskInv
  BY DEF MealInit, AskInv, MealSlot
<1>5. QED
  BY <1>1, <1>2, <1>3, <1>4 DEF MealTyped, MealTypeOK

(* A reserved row is a row. *)
LEMMA ReservedIsRow ==
    ASSUME MealTypeOK, NEW t \in Ticket, ticket[t].status = "reserved" PROVE ticket[t] \in Row
BY DEF MealTypeOK, Unmade

(* What the SELECT of each handler leaves behind. *)
LEMMA FoundTyped ==
    ASSUME MealTyped, NEW s \in MealSlot, NEW step \in {"cancel", "use", "offer", "accept"},
           NEW t \in Ticket, NEW u \in Diner \cup {NoDiner}, Found(s, step, t, u),
           step \in {"offer", "accept"} => u \in Diner,
           IF s \in Clerk THEN step = "use" ELSE step # "use"
    PROVE  MealTyped'
<1>1. ticket[t] \in Row
  BY ReservedIsRow DEF MealTyped, Found
<1>2. /\ UNCHANGED <<ticket, scans, invited, madeBy>>
      /\ mealPc' \in [MealSlot -> {"idle", "cancel", "use", "offer", "accept"}]
      /\ mealOf' \in [MealSlot -> Ask \cup {NoAsk}]
      /\ mealPc'[s] = step
      /\ mealOf'[s] \in Ask /\ mealOf'[s].ticket = t /\ mealOf'[s].user = u
      /\ \A q \in MealSlot : q # s => mealPc'[q] = mealPc[q] /\ mealOf'[q] = mealOf[q]
  BY DEF Found, MealTyped, MealTypeOK, Ask
<1>3. MealTypeOK'
  BY <1>2 DEF MealTyped, MealTypeOK
<1>4. \A q \in MealSlot : mealPc'[q] # "idle" =>
          mealOf'[q] \in Ask /\ ticket'[mealOf'[q].ticket] \in Row
  BY <1>1, <1>2 DEF MealTyped, AskInv
<1>5. \A q \in MealSlot : mealPc'[q] \in {"offer", "accept"} => mealOf'[q].user \in Diner
  BY <1>2 DEF MealTyped, AskInv
<1>6. \A c \in Clerk : mealPc'[c] \in {"idle", "use"}
  BY <1>2 DEF MealTyped, AskInv, MealSlot
<1>7. \A g \in Guest : mealPc'[g] # "use"
  BY <1>2, MealAssumption DEF MealTyped, AskInv, MealSlot
<1>8. QED
  BY <1>3, <1>4, <1>5, <1>6, <1>7 DEF MealTyped, AskInv

(* A request that ends, with or without its UPDATE. *)
LEMMA EndTyped ==
    ASSUME MealTyped, NEW s \in MealSlot, MealTypeOK',
           mealPc' = [mealPc EXCEPT ![s] = "idle"],
           mealOf' = [mealOf EXCEPT ![s] = NoAsk],
           \A t \in Ticket : ticket[t] \in Row => ticket'[t] \in Row
    PROVE  MealTyped'
<1>1. /\ mealPc'[s] = "idle"
      /\ \A q \in MealSlot : q # s => mealPc'[q] = mealPc[q] /\ mealOf'[q] = mealOf[q]
  BY DEF MealTyped, MealTypeOK
<1>2. \A q \in MealSlot : mealPc'[q] # "idle" => mealOf[q].ticket \in Ticket
  BY <1>1 DEF MealTyped, AskInv, Ask
<1>3. \A q \in MealSlot : mealPc'[q] # "idle" =>
          mealOf'[q] \in Ask /\ ticket'[mealOf'[q].ticket] \in Row
  BY <1>1, <1>2 DEF MealTyped, AskInv
<1>4. \A q \in MealSlot : mealPc'[q] \in {"offer", "accept"} => mealOf'[q].user \in Diner
  BY <1>1 DEF MealTyped, AskInv
<1>5. (\A c \in Clerk : mealPc'[c] \in {"idle", "use"}) /\ \A g \in Guest : mealPc'[g] # "use"
  BY <1>1 DEF MealTyped, AskInv, MealSlot
<1>6. QED
  BY <1>3, <1>4, <1>5 DEF MealTyped, AskInv

(* The UPDATE of a request, and the row it leaves. *)
LEMMA SaveTyped ==
    ASSUME MealTyped, NEW s \in MealSlot, mealPc[s] # "idle", NEW row \in Row, Save(s, row),
           scans' \in [Ticket -> 0 .. MaxScans], invited' \in [Ticket -> SUBSET Diner],
           madeBy' = madeBy
    PROVE  MealTyped'
<1>1. mealOf[s].ticket \in Ticket
  BY DEF MealTyped, AskInv, Ask
<1>2. ticket' \in [Ticket -> Row \cup {Unmade}] /\ \A t \in Ticket : ticket[t] \in Row => ticket'[t] \in Row
  BY <1>1 DEF Save, MealTyped, MealTypeOK
<1>3. /\ mealPc' = [mealPc EXCEPT ![s] = "idle"] /\ mealOf' = [mealOf EXCEPT ![s] = NoAsk]
  BY DEF Save
<1>4. MealTypeOK'
  BY <1>2, <1>3 DEF MealTyped, MealTypeOK
<1>5. QED
  BY <1>2, <1>3, <1>4, EndTyped

(* The rows that the UPDATEs write. *)
LEMMA RowsWritten ==
    ASSUME MealTyped, NEW s \in MealSlot, mealPc[s] # "idle"
    PROVE  /\ mealOf[s].ticket \in Ticket
           /\ Current(s) = ticket[mealOf[s].ticket] /\ Current(s) \in Row
           /\ [Current(s) EXCEPT !.status = "cancelled"] \in Row
           /\ [Current(s) EXCEPT !.status = "used"] \in Row
           /\ mealPc[s] \in {"offer", "accept"} =>
                 \A said \in {"none", "pending", "accepted"} :
                    /\ [Current(s) EXCEPT !.to = mealOf[s].user, !.transfer = said] \in Row
                    /\ [Current(s) EXCEPT !.user = mealOf[s].user, !.transfer = said] \in Row
<1>1. mealOf[s].ticket \in Ticket
  BY DEF MealTyped, AskInv, Ask
<1>2. Current(s) = ticket[mealOf[s].ticket] /\ Current(s) \in Row
  BY DEF MealTyped, AskInv, Current
<1>3. mealPc[s] \in {"offer", "accept"} => mealOf[s].user \in Diner
  BY DEF MealTyped, AskInv
<1>4. QED
  BY <1>1, <1>2, <1>3 DEF Row

LEMMA MealTypedStep == MealTyped /\ [MealNext]_mealVars => MealTyped'
<1> SUFFICES ASSUME MealTyped, [MealNext]_mealVars PROVE MealTyped'
  OBVIOUS
<1>0. /\ ticket \in [Ticket -> Row \cup {Unmade}]
      /\ scans \in [Ticket -> 0 .. MaxScans] /\ invited \in [Ticket -> SUBSET Diner]
      /\ madeBy \in [Ticket -> Diner \cup {NoDiner}]
  BY DEF MealTyped, MealTypeOK
<1>1. CASE UNCHANGED mealVars
  BY <1>1 DEF mealVars, MealTyped, MealTypeOK, AskInv
<1>2. ASSUME NEW u \in Diner, NEW t \in Ticket, CreateReservation(u, t) PROVE MealTyped'
  <2>1. /\ ticket'[t] \in Row /\ DOMAIN ticket' = Ticket
        /\ \A x \in Ticket : x # t => ticket'[x] = ticket[x]
    BY <1>0, <1>2 DEF CreateReservation, Row
  <2>2. ticket' \in [Ticket -> Row \cup {Unmade}]
    BY <1>0, <1>2, <2>1 DEF CreateReservation
  <2>3. /\ invited' \in [Ticket -> SUBSET Diner] /\ UNCHANGED <<scans, mealPc, mealOf>>
        /\ madeBy' \in [Ticket -> Diner \cup {NoDiner}]
    BY <1>0, <1>2 DEF CreateReservation
  <2>4. MealTypeOK'
    BY <2>2, <2>3 DEF MealTyped, MealTypeOK
  <2>5. \A s \in MealSlot : mealPc[s] # "idle" => mealOf[s].ticket \in Ticket
    BY DEF MealTyped, AskInv, Ask
  <2>6. AskInv'
    BY <2>1, <2>3, <2>5 DEF MealTyped, AskInv
  <2>7. QED
    BY <2>4, <2>6 DEF MealTyped
<1>3. ASSUME NEW g \in Guest, NEW u \in Diner, NEW v \in Diner, NEW t \in Ticket,
             CancelFind(g, u, t) \/ TransferFind(g, u, t, v) \/ AcceptFind(g, u, t)
      PROVE  MealTyped'
  <2>1. g \in MealSlot /\ g \notin Clerk
    BY MealAssumption DEF MealSlot
  <2>2. Found(g, "cancel", t, NoDiner) \/ Found(g, "offer", t, v) \/ Found(g, "accept", t, u)
    BY <1>3 DEF CancelFind, TransferFind, AcceptFind
  <2>3. QED
    BY <2>1, <2>2, FoundTyped
<1>4. ASSUME NEW c \in Clerk, NEW t \in Ticket, UseFind(c, t) PROVE MealTyped'
  <2>1. c \in MealSlot /\ Found(c, "use", t, NoDiner)
    BY <1>4 DEF MealSlot, UseFind
  <2>2. QED
    BY <2>1, FoundTyped
<1>5. ASSUME NEW g \in Guest, CancelSave(g) PROVE MealTyped'
  <2>1. g \in MealSlot /\ mealPc[g] # "idle" /\ UNCHANGED <<scans, invited, madeBy>>
    BY <1>5 DEF CancelSave, MealSlot
  <2>2. QED
    BY <1>0, <1>5, <2>1, RowsWritten, SaveTyped DEF CancelSave
<1>6. ASSUME NEW c \in Clerk, UseSave(c) PROVE MealTyped'
  <2>1. c \in MealSlot /\ mealPc[c] # "idle" /\ UNCHANGED <<invited, madeBy>>
    BY <1>6 DEF UseSave, MealSlot
  <2>2. mealOf[c].ticket \in Ticket /\ [Current(c) EXCEPT !.status = "used"] \in Row
    BY <2>1, RowsWritten
  <2>3. scans' \in [Ticket -> 0 .. MaxScans]
    BY <1>0, <1>6, <2>2, MealAssumption DEF UseSave
  <2>4. QED
    BY <1>0, <1>6, <2>1, <2>2, <2>3, SaveTyped DEF UseSave
<1>7. ASSUME NEW g \in Guest, TransferSave(g) PROVE MealTyped'
  <2>1. g \in MealSlot /\ mealPc[g] = "offer" /\ UNCHANGED <<scans, madeBy>>
    BY <1>7 DEF TransferSave, MealSlot
  <2>2. /\ mealOf[g].ticket \in Ticket /\ mealOf[g].user \in Diner
        /\ Current(g).transfer \in {"none", "pending", "accepted"}
    BY <2>1, RowsWritten DEF MealTyped, AskInv, Row
  <2>3. invited' \in [Ticket -> SUBSET Diner]
    BY <1>0, <1>7, <2>2 DEF TransferSave
  <2>4. PICK said \in {"none", "pending", "accepted"} :
           Save(g, [Current(g) EXCEPT !.to = mealOf[g].user, !.transfer = said])
    BY <1>7, <2>2 DEF TransferSave
  <2>5. QED
    BY <1>0, <2>1, <2>3, <2>4, RowsWritten, SaveTyped
<1>8. ASSUME NEW g \in Guest, AcceptSave(g) PROVE MealTyped'
  <2>1. g \in MealSlot /\ mealPc[g] = "accept" /\ UNCHANGED <<scans, invited, madeBy>>
    BY <1>8 DEF AcceptSave, MealSlot
  <2>2. Save(g, [Current(g) EXCEPT !.user = mealOf[g].user, !.transfer = "accepted"])
    BY <1>8 DEF AcceptSave
  <2>3. QED
    BY <1>0, <2>1, <2>2, RowsWritten, SaveTyped
<1>9. ASSUME NEW s \in MealSlot, MealAbort(s) PROVE MealTyped'
  <2>1. MealTypeOK'
    BY <1>9 DEF MealAbort, MealTyped, MealTypeOK
  <2>2. QED
    BY <1>9, <2>1, EndTyped DEF MealAbort
<1>10. QED
  BY <1>1, <1>2, <1>3, <1>4, <1>5, <1>6, <1>7, <1>8, <1>9
     DEF MealNext, cancelReservation, transferReservation, acceptTransfer, useReservation

(* The rows and requests are of the kinds the module names, and no request is about a *)
(* row that does not exist (mealService.js:440-860).                                   *)
THEOREM MealTypeCorrect == MealSpec => [](MealTypeOK /\ AskInv)
<1>1. MealTyped => MealTypeOK /\ AskInv
  BY DEF MealTyped
<1>2. QED
  BY MealTypedInit, MealTypedStep, <1>1, PTL DEF MealSpec

LEMMA MealTypedAlways == MealSpec => []MealTyped
BY MealTypedInit, MealTypedStep, PTL DEF MealSpec

-----------------------------------------------------------------------------
(* The scans that found the reservation reserved and have not written yet. *)
Serving(t) == {c \in Clerk : mealPc[c] = "use" /\ mealOf[c].ticket = t}

(* A meal that was handed out is never reserved again, so only the scans already on *)
(* their way can hand it out once more: they count with those that did.             *)
ServeInv ==
    \A t \in Ticket : scans[t] > 0 =>
        /\ ticket[t] \in Row /\ ticket[t].status # "reserved"
        /\ scans[t] + Cardinality(Serving(t)) <= Cardinality(Clerk)

LEMMA FiniteServing ==
    ASSUME NEW t
    PROVE  /\ IsFiniteSet(Serving(t)) /\ Cardinality(Serving(t)) \in Nat
           /\ Cardinality(Serving(t)) <= Cardinality(Clerk) /\ Cardinality(Clerk) \in Nat
<1>1. Serving(t) \subseteq Clerk
  BY DEF Serving
<1>2. QED
  BY <1>1, MealAssumption, FS_Subset, FS_CardinalityType

(* No new scan of a meal that was handed out gets past its SELECT. *)
LEMMA ServeFrame ==
    ASSUME MealTyped, ServeInv, scans' = scans,
           \A t \in Ticket : scans[t] > 0 =>
               /\ ticket'[t] \in Row /\ ticket'[t].status # "reserved"
               /\ Serving(t)' \subseteq Serving(t)
    PROVE  ServeInv'
<1> SUFFICES ASSUME NEW t \in Ticket, scans[t] > 0
             PROVE  /\ ticket'[t] \in Row /\ ticket'[t].status # "reserved"
                    /\ scans[t] + Cardinality(Serving(t)') <= Cardinality(Clerk)
  BY DEF ServeInv
<1>1. scans[t] \in Nat
  BY DEF MealTyped, MealTypeOK
<1>2. /\ Cardinality(Serving(t)') <= Cardinality(Serving(t))
      /\ Cardinality(Serving(t)') \in Nat
  BY FiniteServing, FS_Subset, FS_CardinalityType
<1>3. scans[t] + Cardinality(Serving(t)) <= Cardinality(Clerk)
  BY DEF ServeInv
<1>4. QED
  BY <1>1, <1>2, <1>3, FiniteServing

(* A slot that is not about to hand out a meal adds no scan on its way. *)
LEMMA NotServing ==
    ASSUME MealTyped, NEW s \in MealSlot, mealPc'[s] # "use",
           \A q \in MealSlot : q # s => mealPc'[q] = mealPc[q] /\ mealOf'[q] = mealOf[q]
    PROVE  \A t \in Ticket : Serving(t)' \subseteq Serving(t)
BY DEF Serving, MealSlot

LEMMA ServeStep == MealTyped /\ ServeInv /\ [MealNext]_mealVars => ServeInv'
<1> SUFFICES ASSUME MealTyped, ServeInv, [MealNext]_mealVars PROVE ServeInv'
  OBVIOUS
<1>0. /\ ticket \in [Ticket -> Row \cup {Unmade}] /\ scans \in [Ticket -> 0 .. MaxScans]
      /\ mealPc \in [MealSlot -> {"idle", "cancel", "use", "offer", "accept"}]
      /\ mealOf \in [MealSlot -> Ask \cup {NoAsk}]
  BY DEF MealTyped, MealTypeOK
<1>1. CASE UNCHANGED mealVars
  BY <1>1, ServeFrame DEF mealVars, Serving, ServeInv
<1>2. ASSUME NEW u \in Diner, NEW t \in Ticket, CreateReservation(u, t) PROVE ServeInv'
  <2>1. scans' = scans /\ UNCHANGED <<mealPc, mealOf>> /\ ticket[t] = Unmade
        /\ \A x \in Ticket : x # t => ticket'[x] = ticket[x]
    BY <1>0, <1>2 DEF CreateReservation
  <2>2. ~(scans[t] > 0)
    BY <2>1 DEF ServeInv, Unmade, Row
  <2>3. QED
    BY <2>1, <2>2, ServeFrame DEF ServeInv, Serving
<1>3. ASSUME NEW s \in MealSlot, NEW step \in {"cancel", "use", "offer", "accept"},
             NEW t \in Ticket, NEW u, Found(s, step, t, u)
      PROVE  ServeInv'
  <2>1. /\ UNCHANGED <<ticket, scans>> /\ ticket[t].status = "reserved"
        /\ mealPc[s] = "idle" /\ mealOf'[s].ticket = t
        /\ \A q \in MealSlot : q # s => mealPc'[q] = mealPc[q] /\ mealOf'[q] = mealOf[q]
    BY <1>0, <1>3 DEF Found, MealIdle
  <2>2. ASSUME NEW x \in Ticket, scans[x] > 0 PROVE Serving(x)' \subseteq Serving(x)
    <3>1. x # t
      BY <2>1, <2>2 DEF ServeInv
    <3>2. QED
      BY <2>1, <3>1 DEF Serving, MealSlot
  <2>3. QED
    BY <2>1, <2>2, ServeFrame DEF ServeInv
<1>4. ASSUME NEW s \in MealSlot, mealPc[s] # "idle", NEW row \in Row, Save(s, row),
             scans' = scans, row.status = "reserved" => Current(s).status = "reserved"
      PROVE  ServeInv'
  <2>1. /\ mealPc'[s] = "idle"
        /\ \A q \in MealSlot : q # s => mealPc'[q] = mealPc[q] /\ mealOf'[q] = mealOf[q]
    BY <1>0, <1>4 DEF Save
  <2>2. mealOf[s].ticket \in Ticket /\ Current(s) = ticket[mealOf[s].ticket]
    BY <1>4, RowsWritten
  <2>3. \A t \in Ticket : scans[t] > 0 => ticket'[t] \in Row /\ ticket'[t].status # "reserved"
    BY <1>0, <1>4, <2>2 DEF Save, ServeInv
  <2>4. QED
    BY <1>4, <2>1, <2>3, NotServing, ServeFrame
<1>5. ASSUME NEW c \in Clerk, UseSave(c) PROVE ServeInv'
  <2>1. c \in MealSlot /\ mealPc[c] = "use"
    BY <1>5 DEF UseSave, MealSlot
  <2>0. PICK t \in Ticket : t = mealOf[c].ticket
    BY <2>1, RowsWritten
  <2>2. Current(c) = ticket[t] /\ [Current(c) EXCEPT !.status = "used"] \in Row
    BY <2>0, <2>1, RowsWritten
  <2>3. /\ mealPc'[c] = "idle"
        /\ \A q \in MealSlot : q # c => mealPc'[q] = mealPc[q] /\ mealOf'[q] = mealOf[q]
    BY <1>0, <1>5, <2>1 DEF UseSave, Save
  <2>4. /\ scans'[t] = scans[t] + 1 /\ scans[t] \in Nat
        /\ \A x \in Ticket : x # t => scans'[x] = scans[x] /\ ticket'[x] = ticket[x]
        /\ ticket'[t] \in Row /\ ticket'[t].status = "used"
    BY <1>0, <1>5, <2>0, <2>2 DEF UseSave, Save, Row
  <2>5. ASSUME NEW x \in Ticket, x # t, scans'[x] > 0
        PROVE  /\ ticket'[x] \in Row /\ ticket'[x].status # "reserved"
               /\ scans'[x] + Cardinality(Serving(x)') <= Cardinality(Clerk)
    <3>1. Serving(x)' = Serving(x)
      BY <2>0, <2>1, <2>3, <2>5 DEF Serving, MealSlot
    <3>2. QED
      BY <2>4, <2>5, <3>1 DEF ServeInv
  <2>6. scans'[t] + Cardinality(Serving(t)') <= Cardinality(Clerk)
    <3>1. c \in Serving(t) /\ Serving(t)' = Serving(t) \ {c}
      BY <2>0, <2>1, <2>3 DEF Serving, MealSlot
    <3>2. Cardinality(Serving(t)') = Cardinality(Serving(t)) - 1
      BY <3>1, FiniteServing, FS_RemoveElement
    <3>3. scans[t] = 0 \/ scans[t] + Cardinality(Serving(t)) <= Cardinality(Clerk)
      BY <2>4 DEF ServeInv
    <3>4. QED
      BY <2>4, <3>2, <3>3, FiniteServing
  <2>7. QED
    BY <2>4, <2>5, <2>6 DEF ServeInv
<1>6. ASSUME NEW g \in Guest, CancelSave(g) \/ TransferSave(g) \/ AcceptSave(g) PROVE ServeInv'
  <2>1. g \in MealSlot /\ mealPc[g] # "idle" /\ scans' = scans
    BY <1>6 DEF CancelSave, TransferSave, AcceptSave, MealSlot
  <2>2. Current(g) \in Row
    BY <2>1, RowsWritten
  <2>3. CASE CancelSave(g)
    <3>1. [Current(g) EXCEPT !.status = "cancelled"].status = "cancelled"
      BY <2>2 DEF Row
    <3>2. QED
      BY <1>4, <2>1, <2>3, <3>1, RowsWritten DEF CancelSave
  <2>4. CASE TransferSave(g)
    <3>1. PICK said \in {"none", "pending", "accepted"} :
             Save(g, [Current(g) EXCEPT !.to = mealOf[g].user, !.transfer = said])
      BY <2>2, <2>4 DEF TransferSave, Row
    <3>2. [Current(g) EXCEPT !.to = mealOf[g].user, !.transfer = said].status = Current(g).status
      BY <2>2 DEF Row
    <3>3. QED
      BY <1>4, <2>1, <2>4, <3>1, <3>2, RowsWritten DEF TransferSave
  <2>5. CASE AcceptSave(g)
    <3>1. [Current(g) EXCEPT !.user = mealOf[g].user, !.transfer = "accepted"].status
              = Current(g).status
      BY <2>2 DEF Row
    <3>2. QED
      BY <1>4, <2>1, <2>5, <3>1, RowsWritten DEF AcceptSave
  <2>6. QED
    BY <1>6, <2>3, <2>4, <2>5
<1>7. ASSUME NEW s \in MealSlot, MealAbort(s) PROVE ServeInv'
  <2>1. /\ UNCHANGED <<ticket, scans>> /\ mealPc'[s] = "idle"
        /\ \A q \in MealSlot : q # s => mealPc'[q] = mealPc[q] /\ mealOf'[q] = mealOf[q]
    BY <1>0, <1>7 DEF MealAbort
  <2>2. QED
    BY <2>1, NotServing, ServeFrame DEF ServeInv
<1>8. ASSUME NEW g \in Guest, NEW u \in Diner, NEW v \in Diner, NEW t \in Ticket,
             CancelFind(g, u, t) \/ TransferFind(g, u, t, v) \/ AcceptFind(g, u, t)
      PROVE  ServeInv'
  <2>1. Found(g, "cancel", t, NoDiner) \/ Found(g, "offer", t, v) \/ Found(g, "accept", t, u)
    BY <1>8 DEF CancelFind, TransferFind, AcceptFind
  <2>2. QED
    BY <1>3, <2>1 DEF MealSlot
<1>9. ASSUME NEW c \in Clerk, NEW t \in Ticket, UseFind(c, t) PROVE ServeInv'
  BY <1>3, <1>9 DEF UseFind, MealSlot
<1>10. QED
  BY <1>1, <1>2, <1>5, <1>6, <1>7, <1>8, <1>9
     DEF MealNext, cancelReservation, transferReservation, acceptTransfer, useReservation

(* A reservation is handed out at most as many times as scans are served at once,     *)
(* although the status is read in one statement and written in another                *)
(* (useReservation, mealService.js:544-607).                                          *)
THEOREM MealsServedAreBounded == MealSpec => []ServedBounded
<1>1. MealInit => ServeInv
  <2> SUFFICES ASSUME MealInit, NEW t \in Ticket PROVE ~(scans[t] > 0)
    BY DEF ServeInv
  <2>1. QED
    BY DEF MealInit
<1>2. MealTyped /\ ServeInv => ServedBounded
  <2> SUFFICES ASSUME MealTyped, ServeInv, NEW t \in Ticket
               PROVE  scans[t] <= Cardinality(Clerk)
    BY DEF ServedBounded
  <2>1. scans[t] \in Nat
    BY DEF MealTyped, MealTypeOK
  <2>2. QED
    BY <2>1, FiniteServing DEF ServeInv
<1>3. QED
  BY MealTypedAlways, ServeStep, <1>1, <1>2, PTL DEF MealSpec

-----------------------------------------------------------------------------
(* Whoever a transfer names, or is about to make the owner, was offered the reservation. *)
OfferInv ==
    /\ \A t \in Ticket : ticket[t] # Unmade =>
          /\ ticket[t].user \in invited[t]
          /\ ticket[t].to # NoDiner => ticket[t].to \in invited[t]
    /\ \A g \in Guest : mealPc[g] = "accept" => mealOf[g].user \in invited[mealOf[g].ticket]

LEMMA OwnerStep ==
    MealTyped /\ OfferInv /\ [MealNext]_mealVars => OfferInv'
<1> SUFFICES ASSUME MealTyped, OfferInv, [MealNext]_mealVars PROVE OfferInv'
  OBVIOUS
<1>0. /\ ticket \in [Ticket -> Row \cup {Unmade}] /\ invited \in [Ticket -> SUBSET Diner]
      /\ mealPc \in [MealSlot -> {"idle", "cancel", "use", "offer", "accept"}]
      /\ mealOf \in [MealSlot -> Ask \cup {NoAsk}]
      /\ Unmade \notin Row
  BY DEF MealTyped, MealTypeOK, Unmade, Row
<1>1. CASE UNCHANGED mealVars
  BY <1>1 DEF mealVars, OfferInv
<1>2. ASSUME NEW u \in Diner, NEW t \in Ticket, CreateReservation(u, t)
      PROVE  OfferInv'
  <2>1. /\ UNCHANGED <<mealPc, mealOf>> /\ ticket[t] = Unmade
        /\ ticket'[t] = [status |-> "reserved", user |-> u, to |-> NoDiner, transfer |-> "none"]
        /\ invited'[t] = {u}
        /\ \A x \in Ticket : x # t => ticket'[x] = ticket[x] /\ invited'[x] = invited[x]
    BY <1>0, <1>2 DEF CreateReservation
  <2>2. \A g \in Guest : mealPc[g] = "accept" => mealOf[g].ticket \in Ticket /\ mealOf[g].ticket # t
    BY <1>0, <2>1 DEF MealTyped, AskInv, MealSlot, Ask
  <2>3. OfferInv'
    BY <2>1, <2>2 DEF OfferInv
  <2>4. QED
    BY <2>3
<1>3. ASSUME NEW s \in MealSlot, NEW step \in {"cancel", "use", "offer", "accept"},
             NEW t \in Ticket, NEW u, Found(s, step, t, u),
             step = "accept" => u \in invited[t]
      PROVE  OfferInv'
  <2>1. /\ UNCHANGED <<ticket, invited>>
        /\ mealPc'[s] = step /\ mealOf'[s].ticket = t /\ mealOf'[s].user = u
        /\ \A q \in MealSlot : q # s => mealPc'[q] = mealPc[q] /\ mealOf'[q] = mealOf[q]
    BY <1>0, <1>3 DEF Found
  <2>2. QED
    BY <1>3, <2>1 DEF OfferInv, MealSlot
<1>4. ASSUME NEW s \in MealSlot, mealPc[s] # "idle", NEW row \in Row, Save(s, row),
             \A x \in Ticket : invited[x] \subseteq invited'[x],
             row.user \in invited'[mealOf[s].ticket],
             row.to # NoDiner => row.to \in invited'[mealOf[s].ticket]
      PROVE  OfferInv'
  <2>1. mealOf[s].ticket \in Ticket
    BY <1>4, RowsWritten
  <2>2. /\ ticket'[mealOf[s].ticket] = row
        /\ \A x \in Ticket : x # mealOf[s].ticket => ticket'[x] = ticket[x]
        /\ mealPc'[s] = "idle"
        /\ \A q \in MealSlot : q # s => mealPc'[q] = mealPc[q] /\ mealOf'[q] = mealOf[q]
    BY <1>0, <1>4, <2>1 DEF Save
  <2>3. \A g \in Guest : mealPc'[g] = "accept" =>
            /\ mealPc[g] = "accept" /\ mealOf'[g] = mealOf[g] /\ mealOf[g].ticket \in Ticket
    BY <2>2 DEF MealTyped, AskInv, MealSlot, Ask
  <2>4. OfferInv'
    BY <1>4, <2>1, <2>2, <2>3 DEF OfferInv
  <2>5. QED
    BY <2>4
<1>5. ASSUME NEW s \in MealSlot, mealPc[s] # "idle"
      PROVE  LET row == Current(s) IN
             /\ row \in Row /\ mealOf[s].ticket \in Ticket
             /\ row.user \in invited[mealOf[s].ticket]
             /\ row.to # NoDiner => row.to \in invited[mealOf[s].ticket]
  BY <1>0, <1>5, RowsWritten DEF OfferInv
<1>6. ASSUME NEW s \in MealSlot, mealPc[s] # "idle", UNCHANGED invited,
             NEW status \in {"cancelled", "used"}, Save(s, [Current(s) EXCEPT !.status = status])
      PROVE  OfferInv'
  <2> DEFINE row == [Current(s) EXCEPT !.status = status]
  <2>1. /\ row \in Row /\ row.user = Current(s).user /\ row.to = Current(s).to
        /\ row.transfer = Current(s).transfer
    BY <1>5, <1>6 DEF Row
  <2> HIDE DEF row
  <2>2. Save(s, row)
    BY <1>6 DEF row
  <2>3. QED
    BY <1>4, <1>5, <1>6, <2>1, <2>2
<1>7. ASSUME NEW g \in Guest, TransferSave(g) PROVE OfferInv'
  <2>1. g \in MealSlot /\ mealPc[g] = "offer"
    BY <1>7 DEF TransferSave, MealSlot
  <2>2. PICK said \in {Current(g).transfer, "pending"} :
           Save(g, [Current(g) EXCEPT !.to = mealOf[g].user, !.transfer = said])
    BY <1>5, <1>7, <2>1 DEF TransferSave, Row
  <2> DEFINE row == [Current(g) EXCEPT !.to = mealOf[g].user, !.transfer = said]
  <2>3. /\ row \in Row /\ row.user = Current(g).user /\ row.to = mealOf[g].user
        /\ row.transfer = said
    BY <1>5, <2>1 DEF Row, MealTyped, AskInv
  <2>4. /\ mealOf[g].ticket \in Ticket
        /\ mealOf[g].user \in invited'[mealOf[g].ticket]
        /\ \A x \in Ticket : invited[x] \subseteq invited'[x]
    BY <1>0, <1>5, <1>7, <2>1 DEF TransferSave
  <2> HIDE DEF row
  <2>5. Save(g, row)
    BY <2>2 DEF row
  <2>6. QED
    BY <1>4, <1>5, <2>1, <2>3, <2>4, <2>5
<1>8. ASSUME NEW g \in Guest, AcceptSave(g) PROVE OfferInv'
  <2> DEFINE row == [Current(g) EXCEPT !.user = mealOf[g].user, !.transfer = "accepted"]
  <2>1. g \in MealSlot /\ mealPc[g] = "accept" /\ UNCHANGED invited /\ Save(g, row)
    BY <1>8 DEF AcceptSave, MealSlot
  <2>2. /\ row \in Row /\ row.user = mealOf[g].user /\ row.to = Current(g).to
    BY <1>5, <2>1 DEF Row, MealTyped, AskInv
  <2>3. mealOf[g].user \in invited[mealOf[g].ticket]
    BY <2>1 DEF OfferInv
  <2> HIDE DEF row
  <2>4. QED
    BY <1>4, <1>5, <2>1, <2>2, <2>3
<1>9. ASSUME NEW s \in MealSlot, MealAbort(s) PROVE OfferInv'
  <2>1. /\ UNCHANGED <<ticket, invited>> /\ mealPc'[s] = "idle"
        /\ \A q \in MealSlot : q # s => mealPc'[q] = mealPc[q] /\ mealOf'[q] = mealOf[q]
    BY <1>0, <1>9 DEF MealAbort
  <2>2. QED
    BY <2>1 DEF OfferInv, MealSlot
<1>10. ASSUME NEW g \in Guest, CancelSave(g) PROVE OfferInv'
  BY <1>6, <1>10 DEF CancelSave, MealSlot
<1>11. ASSUME NEW c \in Clerk, UseSave(c) PROVE OfferInv'
  BY <1>6, <1>11 DEF UseSave, MealSlot
<1>12. ASSUME NEW g \in Guest, NEW u \in Diner, NEW v \in Diner, NEW t \in Ticket,
              CancelFind(g, u, t) \/ TransferFind(g, u, t, v) \/ AcceptFind(g, u, t)
       PROVE  OfferInv'
  <2>1. CASE CancelFind(g, u, t) \/ TransferFind(g, u, t, v)
    BY <1>3, <2>1 DEF CancelFind, TransferFind, MealSlot
  <2>2. CASE AcceptFind(g, u, t)
    <3>1. u \in invited[t]
      BY <2>2, MealAssumption DEF AcceptFind, OfferInv
    <3>2. QED
      BY <1>3, <2>2, <3>1 DEF AcceptFind, MealSlot
  <2>3. QED
    BY <1>12, <2>1, <2>2
<1>13. ASSUME NEW c \in Clerk, NEW t \in Ticket, UseFind(c, t) PROVE OfferInv'
  BY <1>3, <1>13 DEF UseFind, MealSlot
<1>14. QED
  BY <1>1, <1>2, <1>7, <1>8, <1>9, <1>10, <1>11, <1>12, <1>13
     DEF MealNext, cancelReservation, transferReservation, acceptTransfer, useReservation

LEMMA OwnerAlways == MealSpec => []OfferInv
<1>1. MealInit => OfferInv
  BY DEF MealInit, OfferInv, MealSlot
<1>2. QED
  BY MealTypedAlways, OwnerStep, <1>1, PTL DEF MealSpec

(* A reservation belongs to its maker or to a diner an owner offered it to, even when an *)
(* acceptance lands after the offer was redirected (mealService.js:616-809).              *)
THEOREM OwnersWereInvited == MealSpec => []OwnedByInvitation
<1>1. OfferInv => OwnedByInvitation
  BY DEF OfferInv, OwnedByInvitation
<1>2. QED
  BY OwnerAlways, <1>1, PTL

-----------------------------------------------------------------------------
(* The reservations of others that u holds, or is about to become the owner of. *)
Promised(u) ==
    {t \in Ticket :
        \/ t \in Gifts(u)
        \/ \E g \in Guest : mealPc[g] = "accept" /\ mealOf[g].user = u /\ mealOf[g].ticket = t}

(* Each of them goes with a slot: those an acceptance finds when it looks are none but  *)
(* its own, and from then on the set only grows by the next acceptance that looks.      *)
GiftInv ==
    \A u \in Diner : \E f : /\ f = [g \in Guest |-> f[g]]
                            /\ Promised(u) \subseteq {f[g] : g \in Guest}

LEMMA GiftFrame ==
    ASSUME GiftInv, \A u \in Diner : Promised(u)' \subseteq Promised(u) PROVE GiftInv'
<1> SUFFICES ASSUME NEW u \in Diner
             PROVE  \E f : f = [g \in Guest |-> f[g]] /\ Promised(u)' \subseteq {f[g] : g \in Guest}
  BY DEF GiftInv
<1>1. PICK f : f = [g \in Guest |-> f[g]] /\ Promised(u) \subseteq {f[g] : g \in Guest}
  BY DEF GiftInv
<1>2. Promised(u)' \subseteq {f[g] : g \in Guest}
  BY <1>1
<1>3. QED
  BY <1>1, <1>2

LEMMA GiftStep == MealTyped /\ GiftInv /\ [MealNext]_mealVars => GiftInv'
<1> SUFFICES ASSUME MealTyped, GiftInv, [MealNext]_mealVars PROVE GiftInv'
  OBVIOUS
<1>0. /\ ticket \in [Ticket -> Row \cup {Unmade}] /\ madeBy \in [Ticket -> Diner \cup {NoDiner}]
      /\ mealPc \in [MealSlot -> {"idle", "cancel", "use", "offer", "accept"}]
      /\ mealOf \in [MealSlot -> Ask \cup {NoAsk}]
  BY DEF MealTyped, MealTypeOK
<1>1. CASE UNCHANGED mealVars
  <2>1. \A u : Promised(u)' = Promised(u)
    BY <1>1 DEF mealVars, Promised, Gifts
  <2>2. QED
    BY <2>1, GiftFrame
<1>2. ASSUME NEW u \in Diner, NEW t \in Ticket, CreateReservation(u, t) PROVE GiftInv'
  <2>1. /\ UNCHANGED <<mealPc, mealOf>> /\ ticket'[t].user = u /\ madeBy'[t] = u
        /\ \A x \in Ticket : x # t => ticket'[x] = ticket[x] /\ madeBy'[x] = madeBy[x]
    BY <1>0, <1>2 DEF CreateReservation
  <2>2. \A v \in Diner : Promised(v)' \subseteq Promised(v)
    BY <2>1 DEF Promised, Gifts
  <2>3. QED
    BY <2>2, GiftFrame
<1>3. ASSUME NEW s \in MealSlot, NEW step, NEW t \in Ticket, NEW u,
             Found(s, step, t, u), step # "accept"
      PROVE  GiftInv'
  <2>1. /\ UNCHANGED <<ticket, madeBy>> /\ mealPc'[s] = step
        /\ \A q \in MealSlot : q # s => mealPc'[q] = mealPc[q] /\ mealOf'[q] = mealOf[q]
    BY <1>0, <1>3 DEF Found
  <2>2. \A v \in Diner : Promised(v)' \subseteq Promised(v)
    BY <1>3, <2>1 DEF Promised, Gifts, MealSlot
  <2>3. QED
    BY <2>2, GiftFrame
<1>4. ASSUME NEW s \in MealSlot, mealPc[s] # "idle", NEW row \in Row, Save(s, row), madeBy' = madeBy,
             row.status = "reserved" => Current(s).status = "reserved",
             \/ row.user = Current(s).user
             \/ s \in Guest /\ mealPc[s] = "accept" /\ row.user = mealOf[s].user
      PROVE  GiftInv'
  <2>1. mealOf[s].ticket \in Ticket /\ Current(s) = ticket[mealOf[s].ticket]
    BY <1>4, RowsWritten
  <2>2. /\ ticket'[mealOf[s].ticket] = row
        /\ \A x \in Ticket : x # mealOf[s].ticket => ticket'[x] = ticket[x]
        /\ mealPc'[s] = "idle"
        /\ \A q \in MealSlot : q # s => mealPc'[q] = mealPc[q] /\ mealOf'[q] = mealOf[q]
    BY <1>0, <1>4, <2>1 DEF Save
  <2>3. ASSUME NEW v \in Diner, NEW x \in Promised(v)'
        PROVE  x \in Promised(v)
    <3>1. CASE \E g \in Guest : mealPc'[g] = "accept" /\ mealOf'[g].user = v /\ mealOf'[g].ticket = x
      BY <2>2, <2>3, <3>1 DEF Promised, MealSlot
    <3>2. CASE x \in Gifts(v)' /\ x # mealOf[s].ticket
      BY <1>4, <2>2, <3>2 DEF Promised, Gifts
    <3>3. CASE x \in Gifts(v)' /\ x = mealOf[s].ticket
      <4>1. row.status = "reserved" /\ row.user = v /\ madeBy[x] # v
        BY <1>4, <2>2, <3>3 DEF Gifts
      <4>2. CASE row.user = Current(s).user
        BY <1>4, <2>1, <3>3, <4>1, <4>2 DEF Promised, Gifts
      <4>3. CASE s \in Guest /\ mealPc[s] = "accept" /\ row.user = mealOf[s].user
        BY <2>1, <3>3, <4>1, <4>3 DEF Promised
      <4>4. QED
        BY <1>4, <4>2, <4>3
    <3>4. QED
      BY <2>3, <3>1, <3>2, <3>3 DEF Promised
  <2>4. QED
    BY <2>3, GiftFrame
<1>5. ASSUME NEW g \in Guest, NEW u \in Diner, NEW t \in Ticket, AcceptFind(g, u, t) PROVE GiftInv'
  <2>1. /\ UNCHANGED <<ticket, madeBy>> /\ g \in MealSlot
        /\ mealPc'[g] = "accept" /\ mealOf'[g].ticket = t /\ mealOf'[g].user = u
        /\ \A q \in MealSlot : q # g => mealPc'[q] = mealPc[q] /\ mealOf'[q] = mealOf[q]
    BY <1>0, <1>5 DEF AcceptFind, Found, MealSlot
  <2>2. Gifts(u)' \subseteq {t}
    BY <1>5, <2>1 DEF AcceptFind, HasMeal, Gifts
  <2>3. PICK f : f = [x \in Guest |-> mealOf'[x].ticket]
    OBVIOUS
  <2>4. f = [x \in Guest |-> f[x]]
    BY <2>3
  <2>5. Promised(u)' \subseteq {f[x] : x \in Guest}
    BY <2>1, <2>2, <2>3 DEF Promised
  <2>6. \A v \in Diner : v # u => Promised(v)' \subseteq Promised(v)
    BY <2>1 DEF Promised, Gifts, MealSlot
  <2>7. ASSUME NEW v \in Diner
        PROVE  \E h : h = [x \in Guest |-> h[x]] /\ Promised(v)' \subseteq {h[x] : x \in Guest}
    <3>1. CASE v = u
      BY <2>4, <2>5, <3>1
    <3>2. CASE v # u
      <4>1. PICK h : h = [x \in Guest |-> h[x]] /\ Promised(v) \subseteq {h[x] : x \in Guest}
        BY DEF GiftInv
      <4>2. Promised(v)' \subseteq {h[x] : x \in Guest}
        BY <2>6, <3>2, <4>1
      <4>3. QED
        BY <4>1, <4>2
    <3>3. QED
      BY <3>1, <3>2
  <2>8. QED
    BY <2>7 DEF GiftInv
<1>6. ASSUME NEW s \in MealSlot, MealAbort(s) PROVE GiftInv'
  <2>1. /\ UNCHANGED <<ticket, madeBy>> /\ mealPc'[s] = "idle"
        /\ \A q \in MealSlot : q # s => mealPc'[q] = mealPc[q] /\ mealOf'[q] = mealOf[q]
    BY <1>0, <1>6 DEF MealAbort
  <2>2. \A v \in Diner : Promised(v)' \subseteq Promised(v)
    BY <2>1 DEF Promised, Gifts, MealSlot
  <2>3. QED
    BY <2>2, GiftFrame
<1>7. ASSUME NEW s \in MealSlot, mealPc[s] # "idle", madeBy' = madeBy,
             NEW status \in {"cancelled", "used"}, Save(s, [Current(s) EXCEPT !.status = status])
      PROVE  GiftInv'
  <2>1. PICK row : row = [Current(s) EXCEPT !.status = status]
    OBVIOUS
  <2>2. row \in Row /\ row.status # "reserved" /\ row.user = Current(s).user
    BY <1>7, <2>1, RowsWritten DEF Row
  <2>3. Save(s, row)
    BY <1>7, <2>1
  <2>4. QED
    BY <1>4, <1>7, <2>2, <2>3
<1>8. ASSUME NEW g \in Guest, TransferSave(g) PROVE GiftInv'
  <2>1. g \in MealSlot /\ mealPc[g] = "offer" /\ madeBy' = madeBy
    BY <1>8 DEF TransferSave, MealSlot
  <2>2. Current(g) \in Row
    BY <2>1, RowsWritten
  <2>3. PICK said \in {"none", "pending", "accepted"} :
           Save(g, [Current(g) EXCEPT !.to = mealOf[g].user, !.transfer = said])
    BY <1>8, <2>2 DEF TransferSave, Row
  <2>4. PICK row : row = [Current(g) EXCEPT !.to = mealOf[g].user, !.transfer = said]
    OBVIOUS
  <2>5. row \in Row /\ row.status = Current(g).status /\ row.user = Current(g).user
    BY <2>1, <2>2, <2>4, RowsWritten DEF Row
  <2>6. Save(g, row)
    BY <2>3, <2>4
  <2>7. QED
    BY <1>4, <2>1, <2>5, <2>6
<1>9. ASSUME NEW g \in Guest, AcceptSave(g) PROVE GiftInv'
  <2>1. g \in MealSlot /\ mealPc[g] = "accept" /\ madeBy' = madeBy
    BY <1>9 DEF AcceptSave, MealSlot
  <2>2. PICK row : row = [Current(g) EXCEPT !.user = mealOf[g].user, !.transfer = "accepted"]
    OBVIOUS
  <2>3. row \in Row /\ row.status = Current(g).status /\ row.user = mealOf[g].user
    BY <2>1, <2>2, RowsWritten DEF Row
  <2>4. Save(g, row)
    BY <1>9, <2>2 DEF AcceptSave
  <2>5. QED
    BY <1>4, <2>1, <2>3, <2>4
<1>10. ASSUME NEW g \in Guest, CancelSave(g) PROVE GiftInv'
  BY <1>7, <1>10 DEF CancelSave, MealSlot
<1>11. ASSUME NEW c \in Clerk, UseSave(c) PROVE GiftInv'
  BY <1>7, <1>11 DEF UseSave, MealSlot
<1>12. ASSUME NEW g \in Guest, NEW u \in Diner, NEW v \in Diner, NEW t \in Ticket,
              CancelFind(g, u, t) \/ TransferFind(g, u, t, v)
       PROVE  GiftInv'
  <2>1. Found(g, "cancel", t, NoDiner) \/ Found(g, "offer", t, v)
    BY <1>12 DEF CancelFind, TransferFind
  <2>2. QED
    BY <1>3, <2>1 DEF MealSlot
<1>13. ASSUME NEW c \in Clerk, NEW t \in Ticket, UseFind(c, t) PROVE GiftInv'
  BY <1>3, <1>13 DEF UseFind, MealSlot
<1>14. QED
  BY <1>1, <1>2, <1>5, <1>6, <1>8, <1>9, <1>10, <1>11, <1>12, <1>13
     DEF MealNext, cancelReservation, transferReservation, acceptTransfer, useReservation

(* However many reservations are made, offered, accepted, cancelled and scanned, nobody  *)
(* holds more of other people's than acceptances are served at once: the look for        *)
(* another one (mealService.js:757) is not repeated by the UPDATE (mealService.js:779).  *)
THEOREM GiftsAreBounded == MealSpec => []GiftsBounded
<1>1. MealInit => GiftInv
  <2> SUFFICES ASSUME MealInit, NEW u \in Diner
               PROVE  \E f : f = [g \in Guest |-> f[g]] /\ Promised(u) \subseteq {f[g] : g \in Guest}
    BY DEF GiftInv
  <2>1. Promised(u) = {}
    BY DEF MealInit, Promised, Gifts, Unmade, MealSlot
  <2>2. PICK f : f = [g \in Guest |-> g]
    OBVIOUS
  <2>3. f = [g \in Guest |-> f[g]]
    BY <2>2
  <2>4. QED
    BY <2>1, <2>3
<1>2. GiftInv => GiftsBounded
  <2> SUFFICES ASSUME GiftInv, NEW u \in Diner
               PROVE  Cardinality(Gifts(u)) <= Cardinality(Guest)
    BY DEF GiftsBounded
  <2>1. PICK f : f = [g \in Guest |-> f[g]] /\ Promised(u) \subseteq {f[g] : g \in Guest}
    BY DEF GiftInv
  <2>2. PICK S : S = {f[g] : g \in Guest}
    OBVIOUS
  <2>3. Gifts(u) \subseteq S
    BY <2>1, <2>2 DEF Promised, Gifts
  <2>4. f \in Surjection(Guest, S)
    BY <2>1, <2>2 DEF Surjection
  <2>5. IsFiniteSet(S) /\ Cardinality(S) <= Cardinality(Guest)
    BY <2>4, MealAssumption, FS_Surjection
  <2>6. /\ Cardinality(Gifts(u)) <= Cardinality(S)
        /\ Cardinality(Gifts(u)) \in Nat /\ Cardinality(S) \in Nat /\ Cardinality(Guest) \in Nat
    BY <2>3, <2>5, MealAssumption, FS_Subset, FS_CardinalityType
  <2>7. QED
    BY <2>5, <2>6
<1>3. QED
  BY MealTypedAlways, GiftStep, <1>1, <1>2, PTL DEF MealSpec

-----------------------------------------------------------------------------
(* The services together                                                   *)

LEMMA PartsInit ==
    CampusInit => /\ AttInit /\ MealInit /\ AccountInit /\ BookingInit /\ TimetableInit
                  /\ CatInit /\ GradeInit /\ NoteInit /\ ScheduleInit
BY DEF CampusInit

(* A step of one part leaves the tables of the others alone. *)
LEMMA TeachingParts ==
    [CampusNext]_campusVars => /\ [AttNext]_attVars /\ [GradeNext]_gradeVars
                               /\ [MealNext]_mealVars
BY DEF CampusNext, campusVars, AttendanceMoves, MealsMoves, AccountsMoves, BookingsMoves,
       TimetableMoves, CatalogueMoves, GradesMoves, NotesMoves, ScheduleMoves

LEMMA RoomParts ==
    [CampusNext]_campusVars => /\ [BookingNext]_bookingVars /\ [TimetableNext]_timetableVars
                               /\ [ScheduleNext]_scheduleVars
BY DEF CampusNext, campusVars, AttendanceMoves, MealsMoves, AccountsMoves, BookingsMoves,
       TimetableMoves, CatalogueMoves, GradesMoves, NotesMoves, ScheduleMoves

LEMMA OfficeParts ==
    [CampusNext]_campusVars => /\ [AccountNext]_accountVars /\ [CatNext]_catVars
                               /\ [NoteNext]_noteVars
<1>1. AccountsMoves => AccountNext
  BY DEF AccountsMoves, AccountNext
<1>2. NotesMoves => NoteNext
  BY DEF NotesMoves, NoteNext, Subscriptions, Preferences
<1>3. QED
  BY <1>1, <1>2 DEF CampusNext, campusVars, AttendanceMoves, MealsMoves, AccountsMoves,
                    BookingsMoves, TimetableMoves, CatalogueMoves, GradesMoves, NotesMoves,
                    ScheduleMoves

(* Every behaviour of the run is one of each service, which leaves the tables of the    *)
(* others alone: the controllers of attendance, meals, accounts, reservations,          *)
(* timetables, catalogue, grades, notifications and schedules write tables of their own. *)
THEOREM CampusRunsItsParts ==
    CampusSpec => /\ AttFairSpec /\ MealSpec /\ AccountSpec /\ BookingSpec /\ TimetableSpec
                  /\ CatSpec /\ GradeSpec /\ NoteSpec /\ ScheduleSpec
BY PartsInit, TeachingParts, RoomParts, OfficeParts, PTL
   DEF CampusSpec, AttFairSpec, AttSpec, MealSpec, AccountSpec, BookingSpec, TimetableSpec,
       CatSpec, GradeSpec, NoteSpec, ScheduleSpec

(* The tables and slots of every service hold what their modules say they hold. *)
THEOREM CampusTypeCorrect == CampusSpec => []CampusTypeOK
BY CampusRunsItsParts, AttendanceTypeCorrect, MealTypeCorrect, AccountTypeCorrect,
   BookingTypeCorrect, TimetableTypeCorrect, CatalogueTypeCorrect, GradeTypeCorrect,
   NoteTypeCorrect, ScheduleTypeCorrect, PTL DEF AttFairSpec, CampusTypeOK
=============================================================================
