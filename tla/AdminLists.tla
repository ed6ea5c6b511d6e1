----------------------------- MODULE AdminLists -----------------------------
(***************************************************************************)
(* The paged lists of the admin pages, walked from the first page to the   *)
(* last while the tables change, and the CSV export of the payments.       *)
(*                                                                         *)
(*   list, groupedByEmail, internalGrouped, historyByEmail                 *)
(*                                          admin/adminEnrollments         *)
(*   list (payments)                        admin/adminPayments            *)
(*   listFollowups, listReport              followups, adminFollowupsReport*)
(*   listMyLeads                            employee/leads                 *)
(*   listFromDb                             webhooks/sumagoUserSync        *)
(*   streamPaymentsForExport                reports/                       *)
(*                                                                         *)
(* A page is the rows of an OFFSET and a total, two statements that see    *)
(* two states of the table: Prisma's batch $transaction runs under READ    *)
(* COMMITTED.  A row is an item of a list; its columns, and the search and *)
(* date filters, which never change for a row, are left out.               *)
(***************************************************************************)
EXTENDS Naturals, Sequences, SequencesExt, FiniteSetsExt

CONSTANTS
  Addresses,   \* addresses
  Visited,     \* the one whose history is walked
  PaymentIds,  \* numbers, for the order of the payments' ids
  PageSize,    \* limit
  MaxOffset,   \* MAX_OFFSET of utils/pagination.js
  ExportBatch, \* BATCH of the export
  OwnedAtFirst, \* enrollments of Visited that an employee may own at first
  MaxTableWrites  \* bound: writes to the tables

\* The number 0 is no id: it is the cursor of an export that has read nothing.
ASSUME ListsAssumption ==
  /\ IsFiniteSet(Addresses) /\ Visited \in Addresses /\ PaymentIds \subseteq Nat \ {0}
  /\ PageSize \in Nat \ {0} /\ ExportBatch \in Nat \ {0} /\ MaxOffset \in Nat
  /\ OwnedAtFirst \in Nat /\ MaxTableWrites \in Nat

VARIABLES
  db,       \* the tables: enrolled, payments and followups in the order of
            \*   created_at, and when each user of the mirror was last synced, or 0
  writes,   \* how many writes there were
  cached,   \* the entry of the count cache under the list to be walked
  walk,     \* one admin who turns the pages of one list
  export    \* one run of the CSV export

listVars == <<db, writes, cached, walk, export>>

-----------------------------------------------------------------------------
(* The lists: their items in order, when their total is read, and whether  *)
(* parsePagination bounds the offset.                                      *)

\* ORDER BY a column whose values differ: the k-th row has k - 1 before it.
OrderedBy(S, column) ==
  [k \in 1 .. Cardinality(S) |->
     CHOOSE x \in S : Cardinality({y \in S : column[y] < column[x]}) = k - 1]

ById(ids) == OrderedBy(ids, [i \in ids |-> i])
Newest(ids) == Reverse(ById(ids))

\* The live enrollments that pass a filter; their numbers are in the order of
\* created_at.
LiveAmong(d, filter) ==
  {i \in 1 .. Len(d.enrolled) : d.enrolled[i].live /\ d.enrolled[i] \in filter}

\* ROW_NUMBER() OVER (PARTITION BY lower(email) ORDER BY created_at DESC) = 1
OnePerStudent(d, ids) ==
  LET student(i) == d.enrolled[i].student
      first == Newest({i \in ids : \A j \in ids : student(j) = student(i) => j <= i})
  IN [k \in DOMAIN first |-> student(first[k])]

\* The flat list: both statements at once, and the total from the count cache.
list(d) == [items |-> Newest(LiveAmong(d, ToSet(d.enrolled))), total |-> "cached", bounded |-> TRUE]

\* Mutant: the total is read before the rows.
GroupedCountsFirst(d) ==
  [items |-> OnePerStudent(d, LiveAmong(d, ToSet(d.enrolled))), total |-> "before", bounded |-> FALSE]

groupedByEmail(d) ==
  [items |-> OnePerStudent(d, LiveAmong(d, ToSet(d.enrolled))), total |-> "after", bounded |-> FALSE]

internalGrouped(d) ==
  [items |-> OnePerStudent(d, LiveAmong(d, {e \in ToSet(d.enrolled) : e.type = "INTERNAL"})),
   total |-> "after", bounded |-> FALSE]

\* Promise.all of the count and the rows: either may come first.
historyByEmail(d) ==
  [items |-> Newest(LiveAmong(d, {e \in ToSet(d.enrolled) : e.student = Visited})),
   total |-> "any", bounded |-> FALSE]

\* The e-mails of the live enrollments.
EnrolledEmails(d) ==
  {d.enrolled[i].student : i \in {j \in 1 .. Len(d.enrolled) : d.enrolled[j].live}}

\* The users of the mirror that have no enrollment, last synced first; the
\* e-mails are read in a statement before the page.
listFromDb(d, emails) ==
  [items |-> Reverse(OrderedBy({s \in Addresses : d.mirror[s] > 0 /\ s \notin emails}, d.mirror)),
   total |-> "after", bounded |-> FALSE]

\* listMyLeads: the flat list under an owner, whose total is cached as well.
listMyLeads(d) ==
  [items |-> Newest(LiveAmong(d, {e \in ToSet(d.enrolled) : e.mine})), total |-> "cached", bounded |-> TRUE]

Followups(d, statuses) ==
  [items |-> Newest({i \in 1 .. Len(d.followups) : d.followups[i] \in statuses}),
   total |-> "after", bounded |-> TRUE]

\* The follow-ups, and the admin's report of those that are open.
listFollowups(d) == Followups(d, ToSet(d.followups))
listReport(d) == Followups(d, {"open"})

listPayments(d) == [items |-> Reverse(d.payments), total |-> "after", bounded |-> TRUE]

Lists == {"list", "grouped", "internal", "history", "mirror", "payments", "leads",
          "followups", "report"}

Listing(name, d, emails) ==
  CASE name = "list" -> list(d)
    [] name = "grouped" -> groupedByEmail(d)
    [] name = "internal" -> internalGrouped(d)
    [] name = "history" -> historyByEmail(d)
    [] name = "mirror" -> listFromDb(d, emails)
    [] name = "payments" -> listPayments(d)
    [] name = "leads" -> listMyLeads(d)
    [] name = "followups" -> listFollowups(d)
    [] name = "report" -> listReport(d)

Items(d) == Listing(walk.of, d, EnrolledEmails(d)).items

\* What the statements of the page at hand see.
Shown == Listing(walk.of, db, walk.emails)

-----------------------------------------------------------------------------
(* The tables *)

Position(s, x) == CHOOSE i \in 1 .. Len(s) : s[i] = x

\* What an admin may expect to see: the items of the first moment that have
\* never moved up, to where the walk has already been.
NeverMovedUp(before, after) ==
  {x \in walk.expected \cap ToSet(after) : Position(after, x) >= Position(before, x)}

WriteTables(d) ==
  /\ writes < MaxTableWrites /\ writes' = writes + 1
  /\ db' = d
  /\ walk' = [walk EXCEPT !.expected = NeverMovedUp(Items(db), Items(d))]
  /\ UNCHANGED <<cached, export>>

\* Any of the ways to enroll.
AddEnrollment(s, type) ==
  WriteTables([db EXCEPT !.enrolled = Append(@, [student |-> s, type |-> type, live |-> TRUE,
                                                  mine |-> FALSE])])

\* assignEnrollment gives a lead to the employee whose list is walked, or to
\* somebody else.
AssignLead(i) ==
  /\ db.enrolled[i].live
  /\ WriteTables([db EXCEPT !.enrolled[i].mine = ~@])

\* createInternalEnrollment deletes the draft it replaces.
RemoveDraft(i) ==
  /\ db.enrolled[i].live /\ db.enrolled[i].type = "INTERNAL"
  /\ WriteTables([db EXCEPT !.enrolled[i].live = FALSE])

\* A sync inserts, changes or touches the row of a user: last_synced_at is now.
SyncUser(s) == WriteTables([db EXCEPT !.mirror = [@ EXCEPT ![s] = writes + 1]])

\* createOrder, or an internal enrollment; ids are random.
AddPayment(p) ==
  /\ p \notin ToSet(db.payments)
  /\ WriteTables([db EXCEPT !.payments = Append(@, p)])

\* A follow-up is created, ended, or opened again.
AddFollowup == WriteTables([db EXCEPT !.followups = Append(@, "open")])

EditFollowup(i, status) ==
  /\ status # db.followups[i]
  /\ WriteTables([db EXCEPT !.followups[i] = status])

\* The cache loads the total again.
LoadCount ==
  /\ Shown.total = "cached"
  /\ cached' = Len(Shown.items)
  /\ UNCHANGED <<db, writes, walk, export>>

-----------------------------------------------------------------------------
(* The walk *)

FirstPage(name) ==
  [of |-> name, page |-> 1, pc |-> "open", emails |-> {}, stale |-> FALSE, rows |-> FALSE, size |-> 0, counted |-> FALSE,
   total |-> 0, seen |-> {}, expected |-> ToSet(Listing(name, db, EnrolledEmails(db)).items)]

OpenList ==
  /\ walk.pc = "idle"
  /\ walk' = FirstPage(walk.of)
  /\ UNCHANGED <<db, writes, cached, export>>

Offset == (walk.page - 1) * PageSize

\* parsePagination: 422 past MAX_OFFSET.
RefusePage ==
  /\ walk.pc = "open" /\ Shown.bounded /\ Offset > MaxOffset
  /\ walk' = [walk EXCEPT !.pc = "refused"]
  /\ UNCHANGED <<db, writes, cached, export>>

OpenPage ==
  /\ walk.pc = "open" /\ (Shown.bounded => Offset <= MaxOffset)
  /\ walk' = [walk EXCEPT !.pc = "page",
                          !.emails = IF walk.of = "mirror" THEN EnrolledEmails(db) ELSE {}]
  /\ UNCHANGED <<db, writes, cached, export>>

\* LIMIT n OFFSET skip.
Page(items, skip, n) == SubSeq(items, skip + 1, Min({skip + n, Len(items)}))

ReadRows ==
  LET l == Shown IN
  /\ walk.pc = "page" /\ ~walk.rows
  /\ l.total = "before" => walk.counted
  /\ walk' = [walk EXCEPT !.rows = TRUE, !.size = Len(l.items),
                          !.stale = @ \/ (walk.of = "mirror" /\ walk.emails # EnrolledEmails(db)),
                          !.seen = @ \cup ToSet(Page(l.items, Offset, PageSize))]
  /\ UNCHANGED <<db, writes, cached, export>>

ReadTotal ==
  LET l == Shown IN
  /\ walk.pc = "page" /\ ~walk.counted
  /\ l.total = "after" => walk.rows
  /\ walk' = [walk EXCEPT !.counted = TRUE,
                          !.total = IF l.total = "cached" THEN cached ELSE Len(l.items)]
  /\ UNCHANGED <<db, writes, cached, export>>

\* buildMeta: hasNext, while the total says there are more pages.
TurnPage ==
  /\ walk.pc = "page" /\ walk.rows /\ walk.counted
  /\ walk' = IF walk.page * PageSize < walk.total
             THEN [walk EXCEPT !.page = @ + 1, !.pc = "open", !.rows = FALSE, !.counted = FALSE]
             ELSE [walk EXCEPT !.pc = "done"]
  /\ UNCHANGED <<db, writes, cached, export>>

-----------------------------------------------------------------------------
(* The export *)

OpenExport ==
  /\ export.pc = "idle"
  /\ export' = [pc |-> "batch", cursor |-> 0, out |-> << >>, expected |-> ToSet(db.payments)]
  /\ UNCHANGED <<db, writes, cached, walk>>

Stream(batch) ==
  /\ export.pc = "batch"
  /\ export' = [export EXCEPT !.out = @ \o batch,
                  !.cursor = IF batch = << >> THEN @ ELSE Last(batch),
                  !.pc = IF Len(batch) < ExportBatch THEN "done" ELSE @]
  /\ UNCHANGED <<db, writes, cached, walk>>

\* Mutant: batches by OFFSET.
ReadBatchByOffset ==
  Stream(Page(ById(ToSet(db.payments)), Len(export.out), ExportBatch))

\* The next rows after the cursor, by id; payments are never deleted, so the
\* cursor's row is there.
ReadBatch ==
  Stream(Page(ById({p \in ToSet(db.payments) : p > export.cursor}), 0, ExportBatch))

-----------------------------------------------------------------------------

ListsInit ==
  /\ \E n \in {0, OwnedAtFirst} :
       db = [enrolled |-> [i \in 1 .. n |-> [student |-> Visited, type |-> "EXTERNAL",
                                             live |-> TRUE, mine |-> TRUE]],
             mirror |-> [s \in Addresses |-> 0], payments |-> << >>, followups |-> << >>]
  /\ writes = 0 /\ cached = 0
  /\ \E name \in Lists : walk = [FirstPage(name) EXCEPT !.pc = "idle"]
  /\ export = [pc |-> "idle", cursor |-> 0, out |-> << >>, expected |-> {}]

ListsNext ==
  \/ \E s \in Addresses, type \in {"INTERNAL", "EXTERNAL"} : AddEnrollment(s, type)
  \/ \E i \in 1 .. Len(db.enrolled) : RemoveDraft(i) \/ AssignLead(i)
  \/ AddFollowup
  \/ \E i \in 1 .. Len(db.followups), status \in {"open", "closed"} : EditFollowup(i, status)
  \/ \E s \in Addresses : SyncUser(s)
  \/ \E p \in PaymentIds : AddPayment(p)
  \/ LoadCount
  \/ OpenList \/ RefusePage \/ OpenPage \/ ReadRows \/ ReadTotal \/ TurnPage
  \/ OpenExport \/ ReadBatch

ListsSpec == ListsInit /\ [][ListsNext]_listVars
=============================================================================
