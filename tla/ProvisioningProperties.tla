----------------------- MODULE ProvisioningProperties -----------------------
(***************************************************************************)
(* What the mirror and the account overview promise.                       *)
(***************************************************************************)
EXTENDS Provisioning

\* A sync that no other sync overlapped leaves every fetched user as fetched;
\* so only two syncs at once can set a row back to an older record
\* (sumagoUserSync.service.js fetches, compares and writes in four steps).
LoneSyncIsExact ==
  [][\A k \in Syncs :
       sync[k].pc = "update" /\ sync'[k].pc = "done" /\ ~sync[k].overlap =>
         \A s \in Students : sync[k].users[s] # Absent => mirror'[s] = sync[k].users[s]
    ]_provisioningVars

\* How often a transaction is in a list.
Times(t, list) == Cardinality({i \in DOMAIN list : list[i] = t})

\* Every purchase that is on record, by its enrollment's status or by its
\* payment's, is in the student's account overview under the id it has now, and
\* more than once only when the platform recorded it more than once: while its
\* deliveries are lost, under way or repeated, whatever the mirror missed, and
\* after one of the two was written over (after both, only the mirror may still
\* have it).  The overview is "deduped by transactionId" (auth.service.js:194),
\* so a payment with status success is there under the gateway's id alone.  One
\* that an admin entered is told to the platform under two other ids, and may be
\* there under all three; one whose success was written over is there under the
\* enrollment's code, and under the gateway's id as well when the mirror has that.
OverviewShowsEveryPayment ==
  \A p \in OnRecord :
    LET shown == Overview(Payer[p])
        own == LocalId(p)
    IN /\ Times(own, shown) >= 1
       /\ Times(own, shown) > 1 => Times(own, platform[Payer[p]]) >= Times(own, shown)
       /\ p \in success \ AdminMade => \A i \in DOMAIN shown : shown[i].of = p => shown[i] = own
=============================================================================
