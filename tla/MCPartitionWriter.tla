------------------------- MODULE MCPartitionWriter -------------------------
EXTENDS PartitionWriter

Policy(records, ageing, appends, retentions, observed, failures) ==
  [records |-> records, ageing |-> ageing, appends |-> appends, retentions |-> retentions,
   observed |-> observed, failures |-> failures]

CallFailures == {"start", "append", "reject", "empty"}
LoopFailures == {"finalize", "publish"}

\* Writers that roll by size and by age; one that cancels its calls while it
\* ages; one that appends until the LSNs are used up; one whose segments are
\* published while retention requests come; one whose snapshots are followed.
SafetyPolicies ==
  {Policy(2, TRUE, 3, 0, FALSE, CallFailures \cup LoopFailures),
   Policy(2, TRUE, 2, 0, FALSE, CallFailures \cup LoopFailures \cup {"cancel"}),
   Policy(2, FALSE, 4, 0, FALSE, CallFailures \cup LoopFailures \cup {"cancel"}),
   Policy(1, FALSE, 2, 2, FALSE, LoopFailures \cup {"retain", "cancel"}),
   Policy(1, FALSE, 2, 1, TRUE, {"publish", "retain"})}

\* Writers whose failures, if any, end: retentions that fail, and ageing.
DrainPolicies == {Policy(1, FALSE, 3, 1, FALSE, {"retain"}), Policy(2, TRUE, 3, 0, FALSE, {})}
=============================================================================
