--------------------------- MODULE AuditPartitions --------------------------
(***************************************************************************)
(* The partitions of audit_log, one per month, and the daily job           *)
(* maintainAuditLog that creates the next one and drops old ones. The job  *)
(* may fail and the API may be down: any day can be missed.                *)
(***************************************************************************)
EXTENDS Naturals, Sequences

CONSTANTS
  Ends,     \* the last day of each month, from the month of the installation on
  Keep      \* retention in days: INTERVAL '90 days'

ASSUME PartitionAssumption ==
  /\ Len(Ends) \in Nat \ {0} /\ DOMAIN Ends = 1..Len(Ends)
  /\ \A m \in DOMAIN Ends : Ends[m] \in Nat \ {0} /\ \A k \in 1..(m - 1) : Ends[k] < Ends[m]
  /\ Keep \in Nat

VARIABLES
  day,         \* days since the month of the installation began, from 1
  installed,   \* the day of the installation
  partitions,  \* months that have a partition
  ran          \* history: months in which the job ran at least once

Months == DOMAIN Ends
LastDay == Ends[Len(Ends)]

\* date_trunc('month', ...), of a day since the installation's month began.
MonthOf(d) == CHOOSE m \in Months : d <= Ends[m] /\ \A k \in 1..(m - 1) : Ends[k] < d

PartitionsTypeOK ==
  /\ day \in 1..LastDay /\ installed \in 1..Ends[1]
  /\ partitions \subseteq 1..(Len(Ends) + 1)
  /\ ran \subseteq Months

\* migrations/011_audit_log.sql ends with two calls of create_audit_log_partition,
\* which both make the partition of the next month.
PartitionsInit ==
  /\ installed \in 1..Ends[1] /\ day = installed
  /\ partitions = {2}
  /\ ran = {}

\* Mutant: the month of the cutoff is dropped too.
BugKept(S) == {m \in S : day <= Keep \/ m > MonthOf(day - Keep)}

\* drop_old_audit_log_partitions: names are compared with that of the cutoff.
Kept(S) == {m \in S : day <= Keep \/ m >= MonthOf(day - Keep)}

\* At midnight: create_audit_log_partition, then the drop, which does not come
\* about if the connection breaks in between.
MaintainAuditLog ==
  LET created == partitions \cup {MonthOf(day) + 1} IN
  /\ partitions' \in {created, Kept(created)}
  /\ ran' = ran \cup {MonthOf(day)}
  /\ UNCHANGED <<day, installed>>

\* Whether or not the job ran today.
NextDay ==
  /\ day < LastDay
  /\ day' = day + 1
  /\ UNCHANGED <<installed, partitions, ran>>

PartitionsNext == MaintainAuditLog \/ NextDay

auditVars == <<day, installed, partitions, ran>>

PartitionsSpec == PartitionsInit /\ [][PartitionsNext]_auditVars

-----------------------------------------------------------------------------
(* Properties.                                                             *)

\* INTERVAL '90 days': an action of any of the last Keep days was accepted and
\* is still there, if the job ran on some day of the month before. Those of the
\* month of the installation, which has no partition, are not meant.
RecentActionsKept ==
  \A d \in 1..day :
    d + Keep >= day /\ MonthOf(d) > 1 /\ MonthOf(d) - 1 \in ran \cup {1} =>
      MonthOf(d) \in partitions
=============================================================================
