------------------------------ MODULE Accounts ------------------------------
(***************************************************************************)
(* Accounts and sessions (authService, userController, middleware/auth):   *)
(* registration, and the log-ins, refresh tokens, lock, reset links and    *)
(* password of one account.  Registration is one transaction; all other    *)
(* handlers commit statement by statement.  A password is the number of    *)
(* times it was changed; a JWT is named by the second it was signed in,    *)
(* because the payload of one account's tokens differs in nothing else.    *)
(***************************************************************************)
EXTENDS Naturals, FiniteSets

CONSTANTS
    Visitor,        \* slots for requests being served at once
    AcMayFail,      \* slots whose statements may fail, or whose server may crash
    MAX_ATTEMPTS,   \* wrong passwords before the lock: 5 in the code
    TryBound,       \* see TriesBounded
    MaxSecond,      \* bound: seconds in which tokens are signed
    MaxPassword,    \* bound: changes of the password
    Email, Number   \* e-mail addresses and student numbers

ASSUME AccountAssumption ==
    /\ IsFiniteSet(Visitor) /\ AcMayFail \subseteq Visitor
    /\ "nobody" \notin Email
    /\ {MAX_ATTEMPTS, TryBound, MaxSecond} \subseteq Nat \ {0} /\ MaxPassword \in Nat

VARIABLES
    password,    \* version of users.password_hash
    active,      \* users.is_active
    attempts,    \* users.failed_login_attempts
    lock,        \* users.locked_until: "null", "future", "past"
    second,      \* the clock, as far as JWTs see it
    refresh,     \* [second -> status of the refresh token signed then]
    grantedFor,  \* history: [second -> the password version the log-in compared]
    link,        \* [second -> status of the reset link signed then]
    acPc, acOf,  \* [slot -> the statement the request is at, and what it has read]
    endedFor,    \* history: the newest password whose reset has revoked the tokens
    late,        \* history: tokens of log-ins that compared an older password
    tries,       \* history: wrong passwords judged since the counter was reset
    userRow,     \* the e-mail addresses in users
    studentRow   \* [student number -> e-mail of its user, or NoOne]

sessionVars == <<password, active, attempts, lock, second, refresh, grantedFor, link,
                 endedFor, late, tries>>
registryVars == <<userRow, studentRow>>
accountVars == <<sessionVars, registryVars, acPc, acOf>>

Second == 1 .. MaxSecond
NoOne == "nobody"
Unread == [read |-> "nothing"]

AcGoto(v, step, row) == acPc' = [acPc EXCEPT ![v] = step] /\ acOf' = [acOf EXCEPT ![v] = row]
AcDone(v) == AcGoto(v, "idle", Unread)
AcIdle(v) == acPc[v] = "idle"

TokenStatus == {"none", "valid", "revoked", "expired"}
LinkStatus == {"none", "unused", "used", "expired"}

AccountTypeOK ==
    /\ password \in 0 .. MaxPassword /\ active \in BOOLEAN /\ second \in Second
    /\ attempts \in Nat /\ lock \in {"null", "future", "past"}
    /\ refresh \in [Second -> TokenStatus] /\ grantedFor \in [Second -> 0 .. MaxPassword]
    /\ link \in [Second -> LinkStatus]
    /\ endedFor \in 0 .. MaxPassword /\ late \subseteq Second /\ tries \in Nat
    /\ userRow \subseteq Email /\ studentRow \in [Number -> Email \cup {NoOne}]
    /\ DOMAIN acPc = Visitor /\ DOMAIN acOf = Visitor

AccountInit ==
    /\ password = 0 /\ active = TRUE /\ attempts = 0 /\ lock = "null" /\ second = 1
    /\ refresh = [t \in Second |-> "none"] /\ grantedFor = [t \in Second |-> 0]
    /\ link = [l \in Second |-> "none"]
    /\ acPc = [v \in Visitor |-> "idle"] /\ acOf = [v \in Visitor |-> Unread]
    /\ endedFor = 0 /\ late = {} /\ tries = 0
    /\ userRow = {} /\ studentRow = [n \in Number |-> NoOne]

-----------------------------------------------------------------------------
(* register *)

RegisterCheck(v) ==
    /\ AcIdle(v)
    /\ \E e \in Email \ userRow, n \in Number :
          studentRow[n] = NoOne /\ AcGoto(v, "register", [email |-> e, number |-> n])
    /\ UNCHANGED <<sessionVars, registryVars>>

(* The bug WholeRegistrations is for: no transaction around the two INSERTs. *)
RegisterCommitApart(v) ==
    LET e == acOf[v].email  n == acOf[v].number IN
    /\ acPc[v] = "register"
    /\ userRow' = userRow \cup {e}
    /\ studentRow' = IF studentRow[n] = NoOne THEN [studentRow EXCEPT ![n] = e] ELSE studentRow
    /\ AcDone(v) /\ UNCHANGED sessionVars

(* Both INSERTs and the commit; a unique index that refuses either rolls both back. *)
RegisterCommit(v) ==
    LET e == acOf[v].email  n == acOf[v].number IN
    /\ acPc[v] = "register"
    /\ IF e \in userRow \/ studentRow[n] # NoOne
       THEN UNCHANGED registryVars
       ELSE userRow' = userRow \cup {e} /\ studentRow' = [studentRow EXCEPT ![n] = e]
    /\ AcDone(v) /\ UNCHANGED sessionVars

-----------------------------------------------------------------------------
(* login: the row is read once; every later statement writes what follows from it *)

LoginRead(v) ==
    /\ AcIdle(v) /\ lock # "future"
    /\ \E right \in BOOLEAN :
          AcGoto(v, CASE lock = "past" /\ right -> "unlock for right"
                      [] lock = "past" /\ ~right -> "unlock for wrong"
                      [] lock = "null" /\ right -> "right"
                      [] OTHER -> "wrong",
                 [pw |-> password, attempts |-> attempts, inactive |-> ~active])
    /\ UNCHANGED <<sessionVars, registryVars>>

LoginUnlock(v) ==
    /\ acPc[v] \in {"unlock for right", "unlock for wrong"}
    /\ attempts' = 0 /\ lock' = "null" /\ tries' = 0
    /\ AcGoto(v, IF acPc[v] = "unlock for right" THEN "right" ELSE "wrong",
              [acOf[v] EXCEPT !.attempts = 0])
    /\ UNCHANGED <<password, active, second, refresh, grantedFor, link, endedFor, late, registryVars>>

(* The bug TriesBounded is for. *)
LocksAbove(n) == n > MAX_ATTEMPTS

LocksAt(n) == n >= MAX_ATTEMPTS

LoginFail(v) ==
    LET failed == acOf[v].attempts + 1 IN
    /\ acPc[v] = "wrong"
    /\ attempts' = failed
    /\ lock' = IF LocksAt(failed) THEN "future" ELSE lock
    /\ tries' = IF tries > TryBound THEN tries ELSE tries + 1
    /\ AcDone(v)
    /\ UNCHANGED <<password, active, second, refresh, grantedFor, link, endedFor, late, registryVars>>

(* The UPDATE writes changed columns only: locked_until, read as null, is not one. *)
LoginClear(v) ==
    /\ acPc[v] = "right" /\ acOf[v].attempts > 0
    /\ attempts' = 0 /\ tries' = 0
    /\ AcGoto(v, "right", [acOf[v] EXCEPT !.attempts = 0])
    /\ UNCHANGED <<password, active, lock, second, refresh, grantedFor, link, endedFor, late, registryVars>>

LoginActivate(v) ==
    /\ acPc[v] = "right" /\ acOf[v].attempts = 0 /\ acOf[v].inactive
    /\ active' = TRUE
    /\ AcGoto(v, "right", [acOf[v] EXCEPT !.inactive = FALSE])
    /\ UNCHANGED <<password, attempts, lock, second, refresh, grantedFor, link, endedFor, late,
                   tries, registryVars>>

(* Signing and INSERT; a second token of the same second meets the unique index. *)
LoginInsert(v) ==
    /\ acPc[v] = "right" /\ acOf[v].attempts = 0 /\ ~acOf[v].inactive
    /\ IF refresh[second] # "none"
       THEN UNCHANGED <<refresh, grantedFor, late>>
       ELSE /\ refresh' = [refresh EXCEPT ![second] = "valid"]
            /\ grantedFor' = [grantedFor EXCEPT ![second] = acOf[v].pw]
            /\ late' = IF acOf[v].pw < password THEN late \cup {second} ELSE late
    /\ AcDone(v)
    /\ UNCHANGED <<password, active, attempts, lock, second, link, endedFor, tries, registryVars>>

-----------------------------------------------------------------------------
(* refreshAccessToken accepts exactly the valid tokens, and changes nothing. *)

CanRefresh(t) == refresh[t] = "valid"

Logout ==
    /\ \E t \in Second : /\ refresh[t] # "none"
                         /\ refresh' = [refresh EXCEPT ![t] = "revoked"]
    /\ UNCHANGED <<password, active, attempts, lock, second, grantedFor, link, endedFor, late,
                   tries, registryVars, acPc, acOf>>

-----------------------------------------------------------------------------
(* forgotPassword: signs a link, voids the open ones, inserts the new one *)

ForgotVoid(v) ==
    /\ AcIdle(v)
    /\ link' = [l \in Second |-> IF link[l] = "unused" THEN "used" ELSE link[l]]
    /\ AcGoto(v, "forgot", [link |-> second])
    /\ UNCHANGED <<password, active, attempts, lock, second, refresh, grantedFor, endedFor, late,
                   tries, registryVars>>

ForgotInsert(v) ==
    /\ acPc[v] = "forgot"
    /\ link' = IF link[acOf[v].link] = "none" THEN [link EXCEPT ![acOf[v].link] = "unused"] ELSE link
    /\ AcDone(v)
    /\ UNCHANGED <<password, active, attempts, lock, second, refresh, grantedFor, endedFor, late,
                   tries, registryVars>>

(* resetPassword: find the link, write the hash, mark the link, revoke the tokens *)

ResetFind(v) ==
    /\ AcIdle(v)
    /\ \E l \in Second : link[l] = "unused" /\ AcGoto(v, "reset", [link |-> l])
    /\ UNCHANGED <<sessionVars, registryVars>>

ResetWrite(v) ==
    /\ acPc[v] = "reset" /\ password < MaxPassword
    /\ password' = password + 1
    /\ AcGoto(v, "mark", [link |-> acOf[v].link, pw |-> password + 1])
    /\ UNCHANGED <<active, attempts, lock, second, refresh, grantedFor, link, endedFor, late,
                   tries, registryVars>>

ResetMark(v) ==
    /\ acPc[v] = "mark"
    /\ link' = [link EXCEPT ![acOf[v].link] = "used"]
    /\ AcGoto(v, "revoke", [pw |-> acOf[v].pw])
    /\ UNCHANGED <<password, active, attempts, lock, second, refresh, grantedFor, endedFor, late,
                   tries, registryVars>>

Revoked == [t \in Second |-> IF refresh[t] = "none" THEN "none" ELSE "revoked"]

(* The bug SessionsEndWithReset is for. *)
ResetNoRevoke(v) ==
    /\ acPc[v] = "revoke"
    /\ refresh' = refresh
    /\ endedFor' = IF acOf[v].pw > endedFor THEN acOf[v].pw ELSE endedFor
    /\ AcDone(v)
    /\ UNCHANGED <<password, active, attempts, lock, second, grantedFor, link, late, tries, registryVars>>

ResetRevoke(v) ==
    /\ acPc[v] = "revoke"
    /\ refresh' = Revoked
    /\ endedFor' = IF acOf[v].pw > endedFor THEN acOf[v].pw ELSE endedFor
    /\ AcDone(v)
    /\ UNCHANGED <<password, active, attempts, lock, second, grantedFor, link, late, tries, registryVars>>

(* userController.changePassword, the routed one: it compares, writes, and revokes nothing. *)
ChangeRead(v) ==
    /\ AcIdle(v) /\ active
    /\ AcGoto(v, "change", [pw |-> password])
    /\ UNCHANGED <<sessionVars, registryVars>>

ChangeWrite(v) ==
    /\ acPc[v] = "change" /\ password < MaxPassword
    /\ password' = password + 1
    /\ AcDone(v)
    /\ UNCHANGED <<active, attempts, lock, second, refresh, grantedFor, link, endedFor, late,
                   tries, registryVars>>

(* updateUserStatus, and deleteUser, which deactivates. *)
SetActive ==
    /\ active' = ~active
    /\ UNCHANGED <<password, attempts, lock, second, refresh, grantedFor, link, endedFor, late,
                   tries, registryVars, acPc, acOf>>

(* resendVerification sends nothing: it activates the account it finds inactive. *)
ResendRead(v) ==
    /\ AcIdle(v) /\ ~active
    /\ AcGoto(v, "activate", Unread)
    /\ UNCHANGED <<sessionVars, registryVars>>

ResendWrite(v) ==
    /\ acPc[v] = "activate"
    /\ active' = TRUE
    /\ AcDone(v)
    /\ UNCHANGED <<password, attempts, lock, second, refresh, grantedFor, link, endedFor, late,
                   tries, registryVars>>

-----------------------------------------------------------------------------
(* time: the next second, the end of the lock, and the expiry of tokens and links *)

NextSecond ==
    /\ second < MaxSecond /\ second' = second + 1
    /\ UNCHANGED <<password, active, attempts, lock, refresh, grantedFor, link, endedFor, late,
                   tries, registryVars, acPc, acOf>>

LockEnds ==
    /\ lock = "future" /\ lock' = "past"
    /\ UNCHANGED <<password, active, attempts, second, refresh, grantedFor, link, endedFor, late,
                   tries, registryVars, acPc, acOf>>

TokenExpires ==
    /\ \/ \E t \in Second : CanRefresh(t) /\ refresh' = [refresh EXCEPT ![t] = "expired"]
                           /\ UNCHANGED link
       \/ \E l \in Second : link[l] = "unused" /\ link' = [link EXCEPT ![l] = "expired"]
                           /\ UNCHANGED refresh
    /\ UNCHANGED <<password, active, attempts, lock, second, grantedFor, endedFor, late, tries,
                   registryVars, acPc, acOf>>

(* A failed statement or a crash: statements already made stay. *)
AccountAbort(v) ==
    /\ v \in AcMayFail /\ ~AcIdle(v)
    /\ AcDone(v) /\ UNCHANGED <<sessionVars, registryVars>>

Registration == \E v \in Visitor : RegisterCheck(v) \/ RegisterCommit(v)

SignIn ==
    \/ \E v \in Visitor : \/ LoginRead(v) \/ LoginUnlock(v) \/ LoginFail(v)
                           \/ LoginClear(v) \/ LoginActivate(v) \/ LoginInsert(v)
    \/ LockEnds \/ NextSecond

Recovery ==
    \/ \E v \in Visitor : \/ ForgotVoid(v) \/ ForgotInsert(v)
                           \/ ResetFind(v) \/ ResetWrite(v) \/ ResetMark(v) \/ ResetRevoke(v)
                           \/ ChangeRead(v) \/ ChangeWrite(v)
    \/ Logout \/ TokenExpires

Activation == SetActive \/ \E v \in Visitor : ResendRead(v) \/ ResendWrite(v)

AccountFailure == \E v \in Visitor : AccountAbort(v)

AccountNext == Registration \/ SignIn \/ Recovery \/ Activation \/ AccountFailure

AccountSpec == AccountInit /\ [][AccountNext]_accountVars

-----------------------------------------------------------------------------
(* Once a reset has revoked the tokens, only a log-in that overlapped it (it compared *)
(* the older password before the reset wrote the new one, and inserted its token after *)
(* that) can leave an older password a session (authService.js:159-319, 499-549). *)
SessionsEndWithReset ==
    \A t \in Second : CanRefresh(t) /\ grantedFor[t] < endedFor => t \in late

(* The counter is written as "read plus one", so concurrent failures are lost; still the *)
(* number of wrong passwords judged before the account locks is bounded, and for two     *)
(* requests at once the bound is MAX_ATTEMPTS * (MAX_ATTEMPTS + 1) / 2 + 1               *)
(* (authService.js:203-250). *)
TriesBounded == tries <= TryBound

(* However registrations race for an address or a number, no user is left without a *)
(* student row, none has two, and no number has two users (authService.js:70-112). *)
WholeRegistrations ==
    /\ \A e \in userRow : Cardinality({n \in Number : studentRow[n] = e}) = 1
    /\ \A n \in Number : studentRow[n] # NoOne => studentRow[n] \in userRow

=============================================================================
