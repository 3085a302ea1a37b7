--------------------------- MODULE Notifications ---------------------------
(***************************************************************************)
(* In-app notifications, push preferences and push subscriptions           *)
(* (notificationController, notificationService).  A user's requests look  *)
(* for a row and then write it; the server, notifying somebody, inserts    *)
(* the notification and pushes it in the four steps of                     *)
(* sendPushNotification.  One category stands for all: a preference row is *)
(* its push column.                                                        *)
(***************************************************************************)
EXTENDS Naturals, FiniteSets

CONSTANTS
    Person,     \* users
    Note,       \* ids of notifications
    Endpoint,   \* push endpoints, one per browser
    Desk,       \* slots for users' requests
    Herald      \* slots for notifications under way

ASSUME NotificationAssumption == Desk \cap Herald = {}

VARIABLES
    notes,      \* [id -> owner and state of the row]
    prefs,      \* [user -> push column of the preference row, or "none"]
    subs,       \* [endpoint -> owner and is_active], owner "none" before the row exists
    dead,       \* endpoints the push service answers 404 or 410 for
    ntPc,       \* [slot -> the statement it is at]
    ntOf,       \* [slot -> whom and what it is about]
    optedOut    \* users whose last change of preferences, not disturbed by another, said no

noteVars == <<notes, prefs, subs, dead, ntPc, ntOf, optedOut>>
ntTables == <<notes, prefs, subs, dead, optedOut>>

Owners == Person \cup {"none"}
Blank == [who |-> "none", what |-> "none", read |-> "none", stale |-> FALSE, devices |-> {}]

InboxRows == [Note -> [owner : Owners, state : {"none", "unread", "read", "gone"}]]
PushPreferences == [Person -> {"none", "on", "off"}]
SubscriptionRows == [Endpoint -> [owner : Owners, active : BOOLEAN]]   \* by the unique endpoint

NoteTypeOK ==
    /\ notes \in InboxRows /\ prefs \in PushPreferences /\ subs \in SubscriptionRows
    /\ dead \subseteq Endpoint /\ optedOut \subseteq Person
    /\ ntPc \in [Desk \cup Herald -> {"idle", "mark", "delete", "create", "write", "insert", "renew",
                                     "prefs", "find", "send", "drop"}]
    /\ \A s \in Desk \cup Herald : ntOf[s].devices \subseteq Endpoint

NoteInit ==
    /\ notes = [n \in Note |-> [owner |-> "none", state |-> "none"]]
    /\ prefs = [p \in Person |-> "none"]
    /\ subs = [x \in Endpoint |-> [owner |-> "none", active |-> FALSE]]
    /\ dead = {} /\ optedOut = {}
    /\ ntPc = [s \in Desk \cup Herald |-> "idle"]
    /\ ntOf = [s \in Desk \cup Herald |-> Blank]

NtGoto(s, step, of) == ntPc' = [ntPc EXCEPT ![s] = step] /\ ntOf' = [ntOf EXCEPT ![s] = of]
NtDone(s) == NtGoto(s, "idle", Blank)

-----------------------------------------------------------------------------
(* Reading and deleting notifications *)

Listed(n) == notes[n].state \in {"unread", "read"}

NoteFind(d, step) ==
    /\ ntPc[d] = "idle"
    /\ \E n \in Note : Listed(n) /\ NtGoto(d, step, [Blank EXCEPT !.who = notes[n].owner, !.what = n])
    /\ UNCHANGED ntTables

(* UPDATE and DELETE by id: without effect once the row is gone. *)
NoteWrite(d, step, state) ==
    /\ ntPc[d] = step
    /\ notes' = [n \in Note |-> IF n = ntOf[d].what /\ Listed(n) THEN [notes[n] EXCEPT !.state = state]
                                                               ELSE notes[n]]
    /\ NtDone(d)
    /\ UNCHANGED <<prefs, subs, dead, optedOut>>

markAsRead(d) == NoteFind(d, "mark") \/ NoteWrite(d, "mark", "read")
deleteNotification(d) == NoteFind(d, "delete") \/ NoteWrite(d, "delete", "gone")

markAllAsRead(d) ==
    /\ ntPc[d] = "idle"
    /\ \E p \in Person :
          notes' = [n \in Note |-> IF notes[n].owner = p /\ notes[n].state = "unread"
                                   THEN [notes[n] EXCEPT !.state = "read"] ELSE notes[n]]
    /\ UNCHANGED <<prefs, subs, dead, optedOut, ntPc, ntOf>>

-----------------------------------------------------------------------------
(* Preferences: found, created with the defaults when missing (the user    *)
(* has at most one row), updated in the columns that differ from the read  *)

PrefFind(d, wishes) ==
    /\ ntPc[d] = "idle"
    /\ \E p \in Person, wish \in wishes :
          LET of == [Blank EXCEPT !.who = p, !.what = wish, !.read = prefs[p]] IN
          IF prefs[p] = "none" THEN NtGoto(d, "create", of)
          ELSE IF wish = "show" THEN NtDone(d) ELSE NtGoto(d, "write", of)
    /\ UNCHANGED ntTables

PrefCreate(d) ==
    LET p == ntOf[d].who IN
    /\ ntPc[d] = "create"
    /\ IF prefs[p] # "none"
       THEN NtDone(d) /\ UNCHANGED prefs
       ELSE /\ prefs' = [prefs EXCEPT ![p] = "on"]
            /\ IF ntOf[d].what = "show" THEN NtDone(d)
               ELSE NtGoto(d, "write", [ntOf[d] EXCEPT !.read = "on"])
    /\ UNCHANGED <<notes, subs, dead, optedOut>>

PrefWrite(d) ==
    LET p == ntOf[d].who  wish == ntOf[d].what
        others == {o \in Desk \ {d} : ntPc[o] = "write" /\ ntOf[o].who = p}
    IN
    /\ ntPc[d] = "write"
    /\ prefs' = IF wish = ntOf[d].read THEN prefs ELSE [prefs EXCEPT ![p] = wish]
    /\ optedOut' = IF wish = "off" /\ ~ntOf[d].stale THEN optedOut \cup {p} ELSE optedOut \ {p}
    /\ ntPc' = [ntPc EXCEPT ![d] = "idle"]
    /\ ntOf' = [s \in Desk \cup Herald |->
                  IF s = d THEN Blank
                  ELSE IF s \in others THEN [ntOf[s] EXCEPT !.stale = TRUE]
                  ELSE IF s \in Herald /\ ntOf[s].who = p /\ p \notin optedOut' THEN [ntOf[s] EXCEPT !.read = "in"]
                  ELSE ntOf[s]]
    /\ UNCHANGED <<notes, subs, dead>>

getPreferences(d) == PrefFind(d, {"show"}) \/ PrefCreate(d)
updatePreferences(d) == PrefFind(d, {"on", "off"}) \/ PrefCreate(d) \/ PrefWrite(d)

-----------------------------------------------------------------------------
(* Push subscriptions: one row per endpoint, whoever uses the browser *)

SubscribeFind(d) ==
    /\ ntPc[d] = "idle"
    /\ \E p \in Person, x \in Endpoint \ dead :
          LET of == [Blank EXCEPT !.who = p, !.what = x] IN
          IF subs[x].owner = "none" THEN NtGoto(d, "insert", of)
          ELSE NtGoto(d, "renew", [of EXCEPT !.read = IF subs[x].active THEN "on" ELSE "off"])
    /\ UNCHANGED ntTables

SubscribeInsert(d) ==
    LET x == ntOf[d].what IN
    /\ ntPc[d] = "insert"
    /\ subs' = IF subs[x].owner = "none"
               THEN [subs EXCEPT ![x] = [owner |-> ntOf[d].who, active |-> TRUE]]
               ELSE subs
    /\ NtDone(d)
    /\ UNCHANGED <<notes, prefs, dead, optedOut>>

SubscribeRenew(d) ==
    LET x == ntOf[d].what IN
    /\ ntPc[d] = "renew"
    /\ subs' = [subs EXCEPT ![x] = [owner |-> ntOf[d].who,
                                    active |-> IF ntOf[d].read = "off" THEN TRUE ELSE @.active]]
    /\ NtDone(d)
    /\ UNCHANGED <<notes, prefs, dead, optedOut>>

subscribeToPush(d) == SubscribeFind(d) \/ SubscribeInsert(d) \/ SubscribeRenew(d)

unsubscribeFromPush(d) ==
    /\ ntPc[d] = "idle"
    /\ \E x \in Endpoint : subs[x].owner # "none" /\ subs' = [subs EXCEPT ![x].active = FALSE]
    /\ UNCHANGED <<notes, prefs, dead, optedOut, ntPc, ntOf>>

(* The browser drops its subscription: the push service knows it no more. *)
Expires(x) == /\ dead' = dead \cup {x}
              /\ UNCHANGED <<notes, prefs, subs, optedOut, ntPc, ntOf>>

-----------------------------------------------------------------------------
(* Notifying.  notificationController's createNotification only inserts;   *)
(* notificationService's goes on to push.                                  *)

(* A new row, with the next of the ids. *)
Notified(n, p) ==
    /\ notes[n].state = "none"
    /\ notes' = [notes EXCEPT ![n] = [owner |-> p, state |-> "unread"]]
    /\ UNCHANGED <<prefs, subs, dead, optedOut>>

(* Grades and decided excuses. *)
createNotification(h) ==
    /\ ntPc[h] = "idle"
    /\ \E n \in Note, p \in Person : Notified(n, p)
    /\ UNCHANGED <<ntPc, ntOf>>

(* Decided enrolments. *)
sendNotification(h) ==
    /\ ntPc[h] = "idle"
    /\ \E n \in Note, p \in Person :
          /\ Notified(n, p)
          /\ NtGoto(h, "prefs", [Blank EXCEPT !.who = p, !.read = IF p \in optedOut THEN "out" ELSE "in"])

AlwaysEnabled(p) == TRUE
PushEnabled(p) == prefs[p] # "off"

PushPrefs(h) ==
    /\ ntPc[h] = "prefs"
    /\ IF PushEnabled(ntOf[h].who) THEN NtGoto(h, "find", ntOf[h]) ELSE NtDone(h)
    /\ UNCHANGED ntTables

PushFind(h) ==
    LET mine == {x \in Endpoint : subs[x] = [owner |-> ntOf[h].who, active |-> TRUE]} IN
    /\ ntPc[h] = "find"
    /\ IF mine = {} THEN NtDone(h) ELSE NtGoto(h, "send", [ntOf[h] EXCEPT !.devices = mine])
    /\ UNCHANGED ntTables

PushSend(h) ==
    LET refused == ntOf[h].devices \cap dead IN
    /\ ntPc[h] = "send"
    /\ IF refused = {} THEN NtDone(h) ELSE NtGoto(h, "drop", [ntOf[h] EXCEPT !.devices = refused])
    /\ UNCHANGED ntTables

(* Each UPDATE is started and not awaited. *)
PushDrop(h) ==
    /\ ntPc[h] = "drop"
    /\ \E x \in ntOf[h].devices :
          LET rest == ntOf[h].devices \ {x} IN
          /\ subs' = [subs EXCEPT ![x].active = FALSE]
          /\ IF rest = {} THEN NtDone(h) ELSE NtGoto(h, "drop", [ntOf[h] EXCEPT !.devices = rest])
    /\ UNCHANGED <<notes, prefs, dead, optedOut>>

sendPushNotification(h) == PushPrefs(h) \/ PushFind(h) \/ PushSend(h) \/ PushDrop(h)

(* A statement fails; notifications swallow the error, requests report it. *)
NoteAbort(s) == ntPc[s] # "idle" /\ NtDone(s) /\ UNCHANGED ntTables

Inbox == \E d \in Desk : markAsRead(d) \/ markAllAsRead(d) \/ deleteNotification(d)
Preferences == \E d \in Desk : getPreferences(d) \/ updatePreferences(d)
Subscriptions ==
    \/ \E d \in Desk : subscribeToPush(d) \/ unsubscribeFromPush(d)
    \/ \E x \in Endpoint : Expires(x)
Pushing == \E h \in Herald : createNotification(h) \/ sendNotification(h) \/ sendPushNotification(h)
NoteFailure == \E s \in Desk \cup Herald : NoteAbort(s)

NoteNext == Inbox \/ Preferences \/ Subscriptions \/ Pushing \/ NoteFailure
NoteSpec == NoteInit /\ [][NoteNext]_noteVars

-----------------------------------------------------------------------------
(* A user whose change of preferences said no, with no other change of     *)
(* theirs racing with it, is pushed nothing that is notified from then on  *)
(* until they say yes (updatePreferences, sendPushNotification).           *)
OptOutRespected ==
    \A h \in Herald : ntPc[h] \in {"find", "send"} /\ ntOf[h].who \in optedOut => ntOf[h].read = "in"
=============================================================================
