------------------------ MODULE AdminListsProperties ------------------------
(***************************************************************************)
(* What the lists promise to who reads them to the end.                    *)
(***************************************************************************)
EXTENDS AdminLists

\* An admin who turns all the pages of a list has seen every row that was
\* there at the beginning and that no discarded draft, new enrollment or sync
\* moved up past the page.  The lists that read their total after their rows
\* keep this; the lists with a cached total and the history with its
\* concurrent count may end one page early, when the last total they saw is
\* smaller than the list they had just read; and the list of users without
\* an enrollment may lose one when a page used e-mails that had changed.
SeenUnlessMovedUp ==
  walk.pc = "done" =>
    \/ walk.expected \subseteq walk.seen
    \/ walk.of \in {"list", "leads", "history"} /\ walk.total < walk.size
    \/ walk.of = "mirror" /\ walk.stale

\* The export has every payment that existed when it began, and none twice,
\* whatever payments are created, with ids anywhere, between its batches.
ExportIsComplete ==
  /\ \A i, j \in 1 .. Len(export.out) : i < j => export.out[i] # export.out[j]
  /\ export.pc = "done" => export.expected \subseteq ToSet(export.out)
=============================================================================
