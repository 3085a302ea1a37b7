----------------------------- MODULE Catalogue -----------------------------
(***************************************************************************)
(* The administrators' tables: courses with their prerequisites,           *)
(* departments, classrooms, sections, menus, cafeterias, announcements,    *)
(* calendar entries and profiles.  Their handlers share one shape: a       *)
(* request looks for a row in one statement and writes in the next, in no  *)
(* transaction.  A behaviour is about one table, catKind.  The columns     *)
(* kept are the one that names the entry, "code", and is_active.           *)
(***************************************************************************)
EXTENDS Naturals, FiniteSets

CONSTANTS
    Entry,       \* ids of rows
    Code,        \* what the entries are named by
    Admin,       \* slots for requests
    CatMayFail   \* the slots whose statements may fail

ASSUME CatalogueAssumption ==
    IsFiniteSet(Entry) /\ IsFiniteSet(Admin) /\ CatMayFail \subseteq Admin

VARIABLES
    catKind,     \* the table this behaviour is about
    entries,     \* [id -> the row]
    links,       \* [course -> its prerequisites]
    catPc,       \* [slot -> the statement it is at]
    catAsk,      \* [slot -> what it was asked for]
    promised     \* [course -> the list its last undisturbed edit asked for]

catVars == <<catKind, entries, links, catPc, catAsk, promised>>

Keyed == {"course", "department", "classroom", "section", "menu"}
Checked == Keyed \ {"menu"}
Kind == Keyed \cup {"cafeteria", "announcement", "calendar", "profile"}

Codes == Code \cup {"absent"}
Flag == {"on", "off"}
Flags == Flag \cup {"absent"}
NoList == {"absent"}             \* the request does not mention prerequisites
Lists == (SUBSET Entry) \cup {NoList}
NoRowYet == [state |-> "none", code |-> "absent", active |-> "off"]
Rows == [state : {"none", "there", "deleted", "gone"}, code : Codes, active : Flag]
Nothing == [id |-> "absent", code |-> "absent", active |-> "absent", list |-> NoList, todo |-> {}]

CatTypeOK ==
    /\ catKind \in Kind
    /\ entries \in [Entry -> Rows]
    /\ links \in [Entry -> SUBSET Entry]
    /\ catPc \in [Admin -> {"idle", "insert", "write", "unlink", "link", "seek", "seed", "activate"}]
    /\ \A a \in Admin : catAsk[a].id \in Entry \cup {"absent"} /\ catAsk[a].todo \subseteq Entry \cup Code
    /\ promised \in [Entry -> Lists]

(* Profiles exist from registration on; the other tables start empty. *)
CatInit ==
    /\ catKind \in Kind
    /\ \E c \in Code :
          entries = [e \in Entry |-> IF catKind = "profile"
                                     THEN [state |-> "there", code |-> c, active |-> "on"]
                                     ELSE NoRowYet]
    /\ links = [e \in Entry |-> {}]
    /\ catPc = [a \in Admin |-> "idle"]
    /\ catAsk = [a \in Admin |-> Nothing]
    /\ promised = [e \in Entry |-> NoList]

(* findByPk and findOne do not see a paranoid table's deleted rows; its    *)
(* unique index does.                                                      *)
Visible(e) == entries[e].state = "there"
Stored(e) == entries[e].state \in {"there", "deleted"}
FoundByCode(c) == \E e \in Entry : Visible(e) /\ entries[e].code = c
Taken(c, own) == catKind \in Keyed /\ \E e \in Entry \ {own} : Stored(e) /\ entries[e].code = c

CatGoto(a, step, ask) == catPc' = [catPc EXCEPT ![a] = step] /\ catAsk' = [catAsk EXCEPT ![a] = ask]
CatDone(a) == CatGoto(a, "idle", Nothing)
CatTables == <<catKind, entries, links, promised>>

-----------------------------------------------------------------------------
(* Creating *)

CreateCheck(a, list) ==
    /\ catPc[a] = "idle"
    /\ \E c \in Code :
          /\ catKind \in Checked => ~FoundByCode(c)
          /\ CatGoto(a, "insert", [Nothing EXCEPT !.code = c, !.list = list])
    /\ UNCHANGED CatTables

CreateInsert(a) ==
    LET c == catAsk[a].code  list == catAsk[a].list IN
    /\ catPc[a] = "insert"
    /\ IF Taken(c, "absent")
       THEN CatDone(a) /\ UNCHANGED <<entries, promised>>
       ELSE \E e \in Entry :
              /\ entries[e] = NoRowYet
              /\ entries' = [entries EXCEPT ![e] = [state |-> "there", code |-> c, active |-> "on"]]
              /\ IF list \in {NoList, {}}
                 THEN CatDone(a) /\ UNCHANGED promised
                 ELSE /\ CatGoto(a, "link", [catAsk[a] EXCEPT !.id = e, !.todo = list])
                      /\ promised' = [promised EXCEPT ![e] = list]
    /\ UNCHANGED <<catKind, links>>

-----------------------------------------------------------------------------
(* Editing.  A missing field of the request falls back to the value read,  *)
(* and the UPDATE names only the columns that differ from it.              *)

Dirty(wanted, read) == IF wanted = read THEN "absent" ELSE wanted
Written(wanted, now) == IF wanted = "absent" THEN now ELSE wanted

EditRead(a, codes, flags, lists) ==
    /\ catPc[a] = "idle"
    /\ \E e \in Entry, c \in codes, flag \in flags, list \in lists :
          LET code == Dirty(c, entries[e].code) IN
          /\ Visible(e)
          /\ catKind = "course" => ~FoundByCode(code)
          /\ CatGoto(a, "write", [id |-> e, code |-> code, active |-> Dirty(flag, entries[e].active),
                                  list |-> list, todo |-> {}])
    /\ UNCHANGED CatTables

EditWrite(a) ==
    LET ask == catAsk[a]  e == ask.id IN
    /\ catPc[a] = "write"
    /\ IF Stored(e) /\ Taken(ask.code, e)
       THEN CatDone(a) /\ UNCHANGED entries
       ELSE /\ entries' = IF Stored(e)
                          THEN [entries EXCEPT ![e].code = Written(ask.code, @),
                                               ![e].active = Written(ask.active, @)]
                          ELSE entries
            /\ IF ask.list = NoList THEN CatDone(a) ELSE CatGoto(a, "unlink", ask)
    /\ UNCHANGED <<catKind, links, promised>>

Destroy(a) ==
    /\ catPc[a] = "idle"
    /\ \E e \in Entry :
          /\ Visible(e)
          /\ entries' = [entries EXCEPT ![e].state = IF catKind = "course" THEN "deleted" ELSE "gone"]
    /\ UNCHANGED <<catKind, links, promised, catPc, catAsk>>

-----------------------------------------------------------------------------
(* Prerequisites: one DELETE, then an INSERT for each course of the list   *)

Linking(e) == {a \in Admin : catPc[a] = "link" /\ catAsk[a].id = e}

LinksLeft(old) == old
AfterDestroy(old) == {}

Unlink(a) ==
    LET e == catAsk[a].id  list == catAsk[a].list IN
    /\ catPc[a] = "unlink"
    /\ links' = [links EXCEPT ![e] = AfterDestroy(links[e])]
    /\ promised' = [promised EXCEPT ![e] = IF Linking(e) = {} THEN list ELSE NoList]
    /\ IF list = {} THEN CatDone(a) ELSE CatGoto(a, "link", [catAsk[a] EXCEPT !.todo = list])
    /\ UNCHANGED <<catKind, entries>>

Link(a) ==
    LET e == catAsk[a].id IN
    /\ catPc[a] = "link"
    /\ \E p \in catAsk[a].todo :
          LET rest == catAsk[a].todo \ {p}
              refused == Visible(p) /\ p \in links[e]
          IN
          /\ links' = [links EXCEPT ![e] = IF Visible(p) THEN @ \cup {p} ELSE @]
          /\ IF refused \/ rest = {} THEN CatDone(a)
             ELSE CatGoto(a, "link", [catAsk[a] EXCEPT !.todo = rest])
          /\ promised' = [promised EXCEPT ![e] = IF refused THEN NoList ELSE @]
    /\ UNCHANGED <<catKind, entries>>

-----------------------------------------------------------------------------
(* Seeding: findOrCreate for each default, in a transaction of its own     *)

SeedStart(a) ==
    /\ catPc[a] = "idle"
    /\ CatGoto(a, "seek", [Nothing EXCEPT !.todo = Code])
    /\ UNCHANGED CatTables

SeedNext(a, c) ==
    LET rest == catAsk[a].todo \ {c} IN
    IF rest = {} THEN CatDone(a) ELSE CatGoto(a, "seek", [Nothing EXCEPT !.todo = rest])

SeedAlways(c) == TRUE
SeedMissing(c) == ~FoundByCode(c)

SeedFind(a) ==
    /\ catPc[a] = "seek"
    /\ \E c \in catAsk[a].todo :
          \/ /\ SeedMissing(c)
             /\ CatGoto(a, "seed", [catAsk[a] EXCEPT !.code = c])
          \/ \E e \in Entry :
                /\ ~SeedMissing(c) /\ Visible(e) /\ entries[e].code = c
                /\ IF catKind = "department" /\ entries[e].active = "off"
                   THEN CatGoto(a, "activate", [catAsk[a] EXCEPT !.code = c, !.id = e])
                   ELSE SeedNext(a, c)
    /\ UNCHANGED CatTables

(* A refused INSERT of findOrCreate is followed by looking again. *)
SeedInsert(a) ==
    LET c == catAsk[a].code IN
    /\ catPc[a] = "seed"
    /\ IF Taken(c, "absent")
       THEN CatGoto(a, "seek", [catAsk[a] EXCEPT !.code = "absent"]) /\ UNCHANGED entries
       ELSE /\ \E e \in Entry :
                 /\ entries[e] = NoRowYet
                 /\ entries' = [entries EXCEPT ![e] = [state |-> "there", code |-> c, active |-> "on"]]
            /\ SeedNext(a, c)
    /\ UNCHANGED <<catKind, links, promised>>

SeedActivate(a) ==
    /\ catPc[a] = "activate"
    /\ entries' = [entries EXCEPT ![catAsk[a].id].active = "on"]
    /\ SeedNext(a, catAsk[a].code)
    /\ UNCHANGED <<catKind, links, promised>>

(* A statement fails: what was written before it stays. *)
CatFail(a) ==
    /\ a \in CatMayFail /\ catPc[a] # "idle"
    /\ CatDone(a)
    /\ promised' = [e \in Entry |-> IF catPc[a] = "link" /\ catAsk[a].id = e THEN NoList ELSE promised[e]]
    /\ UNCHANGED <<catKind, entries, links>>

-----------------------------------------------------------------------------
(* The handlers *)

(* The lists a request may ask for.  An id no course has, which findByPk does not find *)
(* either, is passed over by Link like that of a deleted course.                        *)
Known == {list \in SUBSET Entry : \A p \in list : Stored(p)}
Creates(a) == CreateCheck(a, NoList) \/ CreateInsert(a)
Edits(a) == EditRead(a, Codes, Flags, {NoList}) \/ EditWrite(a)
Deactivates(a) == EditRead(a, {"absent"}, {"off"}, {NoList}) \/ EditWrite(a)
Seeds(a) == SeedStart(a) \/ SeedFind(a) \/ SeedInsert(a)

createCourse(a) == catKind = "course"
    /\ (\/ \E list \in Known \cup {NoList} : CreateCheck(a, list)
        \/ CreateInsert(a)
        \/ Link(a))
updateCourse(a) == catKind = "course"
    /\ (EditRead(a, Codes, Flags, Known \cup {NoList}) \/ EditWrite(a) \/ Unlink(a) \/ Link(a))
deleteCourse(a) == catKind = "course" /\ Destroy(a)

createDepartment(a) == catKind = "department" /\ Creates(a)
updateDepartment(a) == catKind = "department" /\ Edits(a)
deleteDepartment(a) == catKind = "department" /\ Deactivates(a)
seedDepartments(a) == catKind = "department" /\ (Seeds(a) \/ SeedActivate(a))

createClassroom(a) == catKind = "classroom" /\ Creates(a)
updateClassroom(a) == catKind = "classroom" /\ Edits(a)
deleteClassroom(a) == catKind = "classroom" /\ Deactivates(a)

createSection(a) == catKind = "section" /\ Creates(a)

createMenu(a) == catKind = "menu" /\ Creates(a)
updateMenu(a) == catKind = "menu" /\ Edits(a)
deleteMenu(a) == catKind = "menu" /\ Destroy(a)
seedCafeterias(a) == catKind = "cafeteria" /\ Seeds(a)

createAnnouncement(a) == catKind = "announcement" /\ Creates(a)
updateAnnouncement(a) == catKind = "announcement" /\ Edits(a)
deleteAnnouncement(a) == catKind = "announcement" /\ Destroy(a)

createCalendarEvent(a) == catKind = "calendar" /\ Creates(a)
updateCalendarEvent(a) == catKind = "calendar" /\ Edits(a)
deleteCalendarEvent(a) == catKind = "calendar" /\ Destroy(a)

ProfileEdit(a) == EditRead(a, Code, {"absent"}, {NoList}) \/ EditWrite(a)
updateProfile(a) == catKind = "profile" /\ ProfileEdit(a)
uploadProfilePicture(a) == catKind = "profile" /\ ProfileEdit(a)
updateStudentDepartment(a) == catKind = "profile" /\ ProfileEdit(a)
updateFacultyDepartment(a) == catKind = "profile" /\ ProfileEdit(a)

CatNext ==
    \E a \in Admin :
        \/ createCourse(a) \/ updateCourse(a) \/ deleteCourse(a)
        \/ createDepartment(a) \/ updateDepartment(a) \/ deleteDepartment(a) \/ seedDepartments(a)
        \/ createClassroom(a) \/ updateClassroom(a) \/ deleteClassroom(a)
        \/ createSection(a)
        \/ createMenu(a) \/ updateMenu(a) \/ deleteMenu(a) \/ seedCafeterias(a)
        \/ createAnnouncement(a) \/ updateAnnouncement(a) \/ deleteAnnouncement(a)
        \/ createCalendarEvent(a) \/ updateCalendarEvent(a) \/ deleteCalendarEvent(a)
        \/ updateProfile(a) \/ uploadProfilePicture(a)
        \/ updateStudentDepartment(a) \/ updateFacultyDepartment(a)
        \/ CatFail(a)

CatSpec == CatInit /\ [][CatNext]_catVars

-----------------------------------------------------------------------------
(* Once a course's prerequisite list was replaced (updateCourse) or        *)
(* created (createCourse) by a request that neither failed nor overlapped  *)
(* with another one's replacing, the course has exactly that list, apart   *)
(* from courses that were deleted.                                         *)
PrerequisitesExact ==
    \A e \in Entry : promised[e] # NoList /\ Linking(e) = {} =>
        /\ links[e] \subseteq promised[e]
        /\ \A p \in promised[e] \ links[e] : entries[p].state = "deleted"

(* Cafeterias have no unique index: only seedings served at once create    *)
(* one twice, so there are at most as many of a name as such requests.     *)
CopiesBounded ==
    catKind = "cafeteria" =>
        \A c \in Code : Cardinality({e \in Entry : Stored(e) /\ entries[e].code = c}) <= Cardinality(Admin)
=============================================================================
