--------------------------- MODULE CourseCatalogue --------------------------
(***************************************************************************)
(* The master tables and the course offerings made from them.              *)
(*                                                                         *)
(*   modules/courseNameMaster, durationMaster, educationMaster             *)
(*                                rows with a label                        *)
(*   modules/courses              offerings: a name and a duration         *)
(*   prisma/seed.js               run at any time, and again               *)
(*                                                                         *)
(* Each statement of a request is a step; the two unique indexes and the   *)
(* foreign keys (ON DELETE RESTRICT) are part of the statements.  Of the   *)
(* education levels an offering keeps nothing here, nor does the seed.     *)
(***************************************************************************)
EXTENDS Naturals, FiniteSets

CONSTANTS
  Labels, LowerCase,   \* labels as written, and what each is in lower case
  Kinds,               \* master tables: "name", "duration", "education"
  RowIds, OfferingIds,
  Nothing,             \* NULL: no row, no duration
  Clerks,              \* requests under way, and runs of the seed
  MaxClerkRequests,    \* bound: the requests and runs there are in all
  SeedDurations,       \* the labels of durations in the seed,
  SeedCourses,         \*   its courses by their names,
  SeedDuration,        \*   the duration of each,
  SeedDefaults         \*   and the kinds and labels that are system defaults

\* Only two of the three services compare labels without their case.
CaseBlind == {"name", "duration"}

ASSUME CourseAssumption ==
  /\ Nothing \notin RowIds \cup OfferingIds
  /\ Nothing \notin [kind : Kinds \cup CaseBlind, label : Labels, active : BOOLEAN, locked : BOOLEAN]
  /\ SeedDurations \subseteq Labels /\ SeedCourses \subseteq Labels
  /\ SeedDuration \in [SeedCourses -> SeedDurations]

VARIABLES
  rows,        \* the master rows: Nothing, or a kind, a label, ACTIVE or not
  offerings,   \* the course_master rows: Nothing, or a name row, a duration row,
               \*   the name when it was given (nameOfCourseAsGroup)
  clerk,       \* the locals of each request, and its next statement: pc
  served,      \* how many requests there were
  crossed,     \* history: two requests were under way at once,
  typed,       \*   labels that came in as free text of a course form,
  planted      \*   kinds and labels the seed stored beside another spelling

history == <<crossed, typed, planted>>
courseVars == <<rows, offerings, clerk, served, history>>

-----------------------------------------------------------------------------

RowsOf(k) == {i \in RowIds : rows[i] # Nothing /\ rows[i].kind = k}
Uses(i) == {o \in OfferingIds : offerings[o] # Nothing /\ i \in {offerings[o].name, offerings[o].duration}}
Usable(i, k) == i \in RowsOf(k) /\ rows[i].active
Twins(a, b) == a.name = b.name /\ a.duration = b.duration
SameOffering(row) == {o \in OfferingIds : offerings[o] # Nothing /\ Twins(offerings[o], row)}
Labelled(k, label) == {i \in RowsOf(k) : rows[i].label = label}

SeedPCs == {"plant", "look", "find", "renew", "stock", "make"}
ClerkIdle == [pc |-> "idle"]
ClerkAt(c, pc) == clerk[c].pc = pc

\* The ids a request holds: a new row never gets one of a deleted row.
Held(q) ==
  CASE q.pc = "idle" -> {}
    [] q.pc \in {"label", "row", "delete"} -> {q.id}
    [] q.pc \in SeedPCs -> {q.row, q.found} \cup {q.ids[l] : l \in SeedDurations}
    [] OTHER -> {q.id, q.duration}
                  \cup (IF q.name.by \in {"row", "stored"} THEN {q.name.of} ELSE {})
                  \cup (IF q.existing = Nothing THEN {} ELSE {q.existing.name, q.existing.duration})
Fresh(table) ==
  LET free == {i \in DOMAIN table : table[i] = Nothing /\ \A c \in Clerks : i \notin Held(clerk[c])}
  IN IF free = {} THEN {} ELSE {CHOOSE i \in free : TRUE}

ClerkTo(c, next) == clerk' = [clerk EXCEPT ![c] = next]
ClerkBegins(c, first) ==
  /\ ClerkAt(c, "idle") /\ served < MaxClerkRequests
  /\ served' = served + 1
  /\ crossed' = (crossed \/ \E b \in Clerks \ {c} : ~ClerkAt(b, "idle"))
  /\ ClerkTo(c, first)
  /\ UNCHANGED <<rows, offerings, typed, planted>>

-----------------------------------------------------------------------------

\* createCourseName, createDurationMaster, createEducationMaster; a rename
\* reads its row first and refuses a system default.
BeginCreateRow(c, k, label) ==
  ClerkBegins(c, [pc |-> IF k \in CaseBlind THEN "label" ELSE "row",
                  kind |-> k, id |-> Nothing, label |-> label])

BeginRenameRow(c, i, label) ==
  /\ rows[i] # Nothing /\ ~rows[i].locked /\ label # rows[i].label
  /\ ClerkBegins(c, [pc |-> IF rows[i].kind \in CaseBlind /\ LowerCase[label] # LowerCase[rows[i].label]
                            THEN "label" ELSE "row",
                     kind |-> rows[i].kind, id |-> i, label |-> label])

\* Mutant: labels are compared as they are written.
CheckExactLabel(c) ==
  /\ ClerkAt(c, "label")
  /\ LET taken == \E i \in RowsOf(clerk[c].kind) \ {clerk[c].id} : rows[i].label = clerk[c].label
     IN ClerkTo(c, IF taken THEN ClerkIdle ELSE [clerk[c] EXCEPT !.pc = "row"])
  /\ UNCHANGED <<rows, offerings, served, history>>

\* findCourseNameByNameInsensitive, findDurationMasterByLabelInsensitive.
CheckLabel(c) ==
  /\ ClerkAt(c, "label")
  /\ LET taken == \E i \in RowsOf(clerk[c].kind) \ {clerk[c].id} :
                    LowerCase[rows[i].label] = LowerCase[clerk[c].label]
     IN ClerkTo(c, IF taken THEN ClerkIdle ELSE [clerk[c] EXCEPT !.pc = "row"])
  /\ UNCHANGED <<rows, offerings, served, history>>

\* The index on the label knows the case; a conflict ends the request.
WriteRow(c) ==
  /\ ClerkAt(c, "row")
  /\ LET q == clerk[c]
         conflict == \E i \in RowsOf(q.kind) \ {q.id} : rows[i].label = q.label
     IN \/ /\ conflict \/ (q.id # Nothing /\ rows[q.id] = Nothing)
           /\ UNCHANGED rows
        \/ /\ ~conflict /\ q.id # Nothing /\ rows[q.id] # Nothing
           /\ rows' = [rows EXCEPT ![q.id].label = q.label]
        \/ /\ ~conflict /\ q.id = Nothing
           /\ \E i \in Fresh(rows) :
                rows' = [rows EXCEPT ![i] = [kind |-> q.kind, label |-> q.label,
                                             active |-> TRUE, locked |-> FALSE]]
  /\ ClerkTo(c, ClerkIdle)
  /\ UNCHANGED <<offerings, served, history>>

\* The status of an update.
SetRowStatus(i) ==
  /\ rows[i] # Nothing /\ ~rows[i].locked
  /\ rows' = [rows EXCEPT ![i].active = ~@]
  /\ UNCHANGED <<offerings, clerk, served, history>>

\* deleteCourseName and its like: the guards and the count, then the delete.
BeginDeleteRow(c, i) ==
  /\ rows[i] # Nothing /\ ~rows[i].locked /\ Uses(i) = {}
  /\ ClerkBegins(c, [pc |-> "delete", id |-> i])

DeleteRow(c) ==
  /\ ClerkAt(c, "delete")
  /\ rows' = IF Uses(clerk[c].id) = {} THEN [rows EXCEPT ![clerk[c].id] = Nothing] ELSE rows
  /\ ClerkTo(c, ClerkIdle)
  /\ UNCHANGED <<offerings, served, history>>

-----------------------------------------------------------------------------

\* A course form: the offering it changes or Nothing, a name row, a free-text
\* label or "keep", and a duration row, Nothing or "keep".
NameInputs ==
  [by : {"row"}, of : RowIds] \cup [by : {"text"}, of : Labels] \cup {[by |-> "keep"]}

\* createCourse; updateCourse reads the offering and keeps it in `existing`.
BeginOffering(c, o, name, d) ==
  /\ IF o = Nothing THEN name.by # "keep" /\ d # "keep"
     ELSE /\ offerings[o] # Nothing /\ ~offerings[o].locked
          /\ name.by # "keep" \/ d # "keep"
  /\ ClerkBegins(c, [pc |-> "duration", id |-> o, name |-> name, duration |-> d,
                     existing |-> IF o = Nothing THEN Nothing ELSE offerings[o]])

\* validateDurationId (validateEducationId is the same check).
ValidateDuration(c) ==
  /\ ClerkAt(c, "duration")
  /\ LET d == clerk[c].duration
     IN ClerkTo(c, IF d \in {"keep", Nothing} \/ Usable(d, "duration")
                   THEN [clerk[c] EXCEPT !.pc = "name"] ELSE ClerkIdle)
  /\ UNCHANGED <<rows, offerings, served, history>>

\* resolveCourseNameFields: a row must be ACTIVE; free text is upserted as it
\* is written, whatever its case.
ResolveName(c) ==
  /\ ClerkAt(c, "name")
  /\ UNCHANGED <<offerings, served, crossed, planted>>
  /\ LET name == clerk[c].name
         Found(i, label) ==
           ClerkTo(c, [clerk[c] EXCEPT !.pc = "pair",
                                       !.name = [by |-> "stored", of |-> i, label |-> label]])
         stored == Labelled("name", name.of)
     IN \/ /\ name.by = "keep"
           /\ ClerkTo(c, [clerk[c] EXCEPT !.pc = "pair"])
           /\ UNCHANGED <<rows, typed>>
        \/ /\ name.by = "row"
           /\ IF Usable(name.of, "name") THEN Found(name.of, rows[name.of].label)
              ELSE ClerkTo(c, ClerkIdle)
           /\ UNCHANGED <<rows, typed>>
        \/ /\ name.by = "text"
           /\ typed' = typed \cup {name.of}
           /\ \/ \E i \in stored : Found(i, name.of) /\ UNCHANGED rows
              \/ /\ stored = {}
                 /\ \E i \in Fresh(rows) :
                      /\ Found(i, name.of)
                      /\ rows' = [rows EXCEPT ![i] = [kind |-> "name", label |-> name.of,
                                                      active |-> TRUE, locked |-> FALSE]]

\* The row that a form makes of the row `old`.
Pair(q, old) ==
  [name |-> IF q.name.by = "keep" THEN old.name ELSE q.name.of,
   duration |-> IF q.duration = "keep" THEN old.duration ELSE q.duration,
   group |-> IF q.name.by = "keep" THEN old.group ELSE q.name.label,
   locked |-> q.id # Nothing /\ old.locked]

\* assertCourseOfferingUnique, for the pair as it will be if nobody else
\* changes the offering meanwhile.
CheckPair(c) ==
  /\ ClerkAt(c, "pair")
  /\ LET q == clerk[c]
     IN ClerkTo(c, IF SameOffering(Pair(q, q.existing)) \subseteq {q.id}
                   THEN [q EXCEPT !.pc = "offering"] ELSE ClerkIdle)
  /\ UNCHANGED <<rows, offerings, served, history>>

\* The insert or update: the unique index ignores pairs without a duration,
\* and the foreign keys ask for the rows.
WriteOffering(c) ==
  /\ ClerkAt(c, "offering")
  /\ LET q == clerk[c]
         row == Pair(q, IF q.id = Nothing THEN Nothing ELSE offerings[q.id])
         refused == IF q.id # Nothing /\ offerings[q.id] = Nothing THEN TRUE
                    ELSE \/ rows[row.name] = Nothing
                         \/ row.duration # Nothing /\ \/ rows[row.duration] = Nothing
                                                      \/ ~(SameOffering(row) \subseteq {q.id})
     IN IF refused THEN UNCHANGED offerings
        ELSE \E o \in IF q.id = Nothing THEN Fresh(offerings) ELSE {q.id} :
               offerings' = [offerings EXCEPT ![o] = row]
  /\ ClerkTo(c, ClerkIdle)
  /\ UNCHANGED <<rows, served, history>>

\* deleteCourse.
DeleteOffering(o) ==
  /\ offerings[o] # Nothing /\ ~offerings[o].locked
  /\ offerings' = [offerings EXCEPT ![o] = Nothing]
  /\ UNCHANGED <<rows, clerk, served, history>>

-----------------------------------------------------------------------------

(* The seed: seedDurationMaster, then seedCourses *)

SeedAt(pc, left) ==
  [pc |-> pc, left |-> left, ids |-> [l \in SeedDurations |-> Nothing],
   course |-> Nothing, row |-> Nothing, found |-> Nothing]

BeginCourseSeed(c) == ClerkBegins(c, SeedAt("plant", SeedDurations))

\* The last of the names ahead leads to the next part of the script.
SeedPasses(q, name, part, all) ==
  IF q.left = {name} THEN [q EXCEPT !.pc = part, !.left = all]
  ELSE [q EXCEPT !.left = @ \ {name}]

\* An upsert's insert, by the label as it is written.
Plant(i, k, label) ==
  /\ rows' = [rows EXCEPT ![i] = [kind |-> k, label |-> label, active |-> TRUE,
                                  locked |-> <<k, label>> \in SeedDefaults]]
  /\ planted' = IF \E j \in RowsOf(k) : LowerCase[rows[j].label] = LowerCase[label]
                THEN planted \cup {<<k, label>>} ELSE planted

\* durationMaster.upsert: an old row gets its flag again.
PlantDuration(c) ==
  /\ ClerkAt(c, "plant")
  /\ \E label \in clerk[c].left :
       /\ \/ \E i \in Labelled("duration", label) :
               /\ rows' = [rows EXCEPT ![i].locked = <<"duration", label>> \in SeedDefaults]
               /\ UNCHANGED planted
          \/ /\ Labelled("duration", label) = {}
             /\ \E i \in Fresh(rows) : Plant(i, "duration", label)
       /\ ClerkTo(c, SeedPasses(clerk[c], label, "look", SeedDurations))
  /\ UNCHANGED <<offerings, served, crossed, typed>>

\* durationMaster.findUnique, once for each duration: null when it is not there.
LookUpDuration(c) ==
  /\ ClerkAt(c, "look")
  /\ \E label \in clerk[c].left :
       LET stored == Labelled("duration", label)
           q == [clerk[c] EXCEPT !.ids[label] = IF stored = {} THEN Nothing
                                                ELSE CHOOSE i \in stored : TRUE]
       IN ClerkTo(c, SeedPasses(q, label, "find", SeedCourses))
  /\ UNCHANGED <<rows, offerings, served, history>>

\* courseMaster.findFirst by nameOfCourseAsGroup: one of them, if there are any.
FindCourse(c) ==
  /\ ClerkAt(c, "find")
  /\ \E course \in clerk[c].left :
       LET called == {o \in OfferingIds : offerings[o] # Nothing /\ offerings[o].group = course}
       IN \E o \in IF called = {} THEN {Nothing} ELSE called :
            ClerkTo(c, [clerk[c] EXCEPT !.pc = IF o = Nothing THEN "stock" ELSE "renew",
                                        !.left = @ \ {course}, !.course = course, !.found = o])
  /\ UNCHANGED <<rows, offerings, served, history>>

\* courseNameMaster.upsert: what is there stays as it is.
StockName(c) ==
  /\ ClerkAt(c, "stock")
  /\ LET label == clerk[c].course
         Goes(i) == ClerkTo(c, [clerk[c] EXCEPT !.pc = "make", !.row = i])
     IN \/ \E i \in Labelled("name", label) : Goes(i) /\ UNCHANGED <<rows, planted>>
        \/ /\ Labelled("name", label) = {}
           /\ \E i \in Fresh(rows) : Goes(i) /\ Plant(i, "name", label)
  /\ UNCHANGED <<offerings, served, crossed, typed>>

\* The index or a foreign key refuses the row: the script ends there.
SeedRefused(row, o) ==
  \/ rows[row.name] = Nothing
  \/ row.duration # Nothing /\ (rows[row.duration] = Nothing \/ ~(SameOffering(row) \subseteq {o}))

\* After a course comes the next, if there is one.
NextCourse(c) ==
  ClerkTo(c, IF clerk[c].left = {} THEN ClerkIdle
             ELSE [clerk[c] EXCEPT !.pc = "find", !.course = Nothing,
                                   !.row = Nothing, !.found = Nothing])

\* courseMaster.update of the one that was found.
RenewCourse(c) ==
  /\ ClerkAt(c, "renew")
  /\ LET q == clerk[c]
         row == [offerings[q.found] EXCEPT !.duration = q.ids[SeedDuration[q.course]],
                                           !.locked = <<"name", q.course>> \in SeedDefaults]
     IN IF offerings[q.found] = Nothing
        THEN UNCHANGED offerings /\ ClerkTo(c, ClerkIdle)
        ELSE IF SeedRefused(row, q.found) THEN UNCHANGED offerings /\ ClerkTo(c, ClerkIdle)
        ELSE offerings' = [offerings EXCEPT ![q.found] = row] /\ NextCourse(c)
  /\ UNCHANGED <<rows, served, history>>

\* courseMaster.create.
MakeCourse(c) ==
  /\ ClerkAt(c, "make")
  /\ LET q == clerk[c]
         row == [name |-> q.row, duration |-> q.ids[SeedDuration[q.course]],
                 group |-> q.course, locked |-> <<"name", q.course>> \in SeedDefaults]
     IN \/ SeedRefused(row, Nothing) /\ UNCHANGED offerings /\ ClerkTo(c, ClerkIdle)
        \/ /\ ~SeedRefused(row, Nothing)
           /\ \E o \in Fresh(offerings) : offerings' = [offerings EXCEPT ![o] = row]
           /\ NextCourse(c)
  /\ UNCHANGED <<rows, served, history>>

-----------------------------------------------------------------------------

CourseInit ==
  /\ rows = [i \in RowIds |-> Nothing]
  /\ offerings = [o \in OfferingIds |-> Nothing]
  /\ clerk = [c \in Clerks |-> ClerkIdle]
  /\ served = 0 /\ crossed = FALSE /\ typed = {} /\ planted = {}

CourseNext ==
  \/ \E c \in Clerks :
       \/ \E k \in Kinds, label \in Labels : BeginCreateRow(c, k, label)
       \/ \E i \in RowIds, label \in Labels : BeginRenameRow(c, i, label)
       \/ \E i \in RowIds : BeginDeleteRow(c, i)
       \/ \E o \in OfferingIds \cup {Nothing}, name \in NameInputs,
             d \in RowIds \cup {Nothing, "keep"} : BeginOffering(c, o, name, d)
       \/ CheckLabel(c) \/ WriteRow(c) \/ DeleteRow(c)
       \/ ValidateDuration(c) \/ ResolveName(c) \/ CheckPair(c) \/ WriteOffering(c)
       \/ BeginCourseSeed(c) \/ PlantDuration(c) \/ LookUpDuration(c)
       \/ FindCourse(c) \/ StockName(c) \/ RenewCourse(c) \/ MakeCourse(c)
  \/ \E i \in RowIds : SetRowStatus(i)
  \/ \E o \in OfferingIds : DeleteOffering(o)

CourseSpec == CourseInit /\ [][CourseNext]_courseVars
=============================================================================
