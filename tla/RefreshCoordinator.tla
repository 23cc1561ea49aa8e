------------------------- MODULE RefreshCoordinator -------------------------
(***************************************************************************)
(* How the readers of one process share catalog heads (reader/api.go from   *)
(* refreshCoordinator on, reader/load_group.go): the head cache, the watched *)
(* state with its generation and wake-up channel, the poll loop, and the    *)
(* load group that lets every waiter share one catalog load.                *)
(*                                                                         *)
(* One partition is modelled; heads of other partitions are felt only when  *)
(* they evict its cached head.  A waiter of a load is a client, the poll    *)
(* loop, or the Watch or Reader that stopped the poll loop and waits for    *)
(* its last poll: from then on it stands for the loop among the waiters.    *)
(***************************************************************************)
EXTENDS MemoryCatalog

CONSTANTS
  Clients,   \* readers, cursors and tailers of the process
  Watches    \* Watch objects

VARIABLES
  ref,     \* refreshCoordinator: cached, watched, generation, loop, closed
  group,   \* loadGroup: call, orphans, closed
  answer,  \* what the load a client waited for returned: <<>> or <<result>>
  signal,  \* the `changed` channel a tailer holds: "none", "open" or "closed"
  left     \* what the instance still allows: faults, stops, evictions, ...

coordinatorVars == <<ref, group, answer, signal>>

Loop == "loop"
TheReader == "reader"

CoordinatorInit ==
  /\ ref = [cached |-> <<>>, watched |-> <<>>, generation |-> 0,
            loop |-> FALSE, closed |-> FALSE]
  /\ group = [call |-> <<>>, orphans |-> {}, closed |-> FALSE]
  /\ answer = [c \in Clients |-> <<>>]
  /\ signal = [c \in Clients |-> "none"]

Spend(what) ==
  /\ left[what] > 0
  /\ left' = [left EXCEPT ![what] = @ - 1]

----------------------------------------------------------------------------
\* partitionSnapshot: the watched head, else the cached one, with the
\* generation a tailer must present to wait for the next (0: not watched).
partitionSnapshot ==
  IF ref.closed THEN <<>>
  ELSE IF ref.watched # <<>> /\ ref.watched[1].snap # <<>>
       THEN <<[snap |-> ref.watched[1].snap[1], gen |-> ref.watched[1].gen]>>
       ELSE IF ref.cached # <<>> THEN <<[snap |-> ref.cached[1], gen |-> 0]>> ELSE <<>>

\* Closing the channel of the watched state wakes every tailer that holds it.
Woken == [c \in Clients |-> IF signal[c] = "open" THEN "closed" ELSE signal[c]]

updateHeadMutant(snap) ==
  IF ref.watched = <<>> THEN [ref EXCEPT !.cached = <<snap>>]
  ELSE IF ref.watched[1].snap # <<>> /\ ref.watched[1].snap[1].head = snap.head
       THEN [ref EXCEPT !.watched[1].snap = <<snap>>]
       ELSE [ref EXCEPT !.watched[1].snap = <<snap>>, !.generation = @ + 1,
                        !.watched[1].gen = ref.generation + 1]

\* updateHead: a head equal to the known one starts no new generation, and a
\* closed coordinator keeps nothing.
updateHead(snap) ==
  IF ref.closed THEN ref
  ELSE IF ref.watched = <<>> THEN [ref EXCEPT !.cached = <<snap>>]
  ELSE IF ref.watched[1].snap # <<>> /\ ref.watched[1].snap[1].head = snap.head
       THEN [ref EXCEPT !.watched[1].snap = <<snap>>]
       ELSE [ref EXCEPT !.watched[1].snap = <<snap>>, !.generation = @ + 1,
                        !.watched[1].gen = ref.generation + 1]

\* cacheHeadLocked for other partitions evicts the least recently used head.
EvictCachedHead ==
  /\ ref.cached # <<>>
  /\ ref' = [ref EXCEPT !.cached = <<>>]
  /\ Spend("evictions")
  /\ UNCHANGED <<group, answer, signal>>

----------------------------------------------------------------------------
\* loadGroup.Do: join the unfinished load, or start one.
NewCall(x) ==
  [waiters |-> {x}, stage |-> "begin", prev |-> <<>>, got |-> <<>>, cancelled |-> FALSE]

Joined(call, x) == [call EXCEPT !.waiters = @ \cup {x}]

Do(x) ==
  group' = [group EXCEPT !.call = IF @ = <<>> THEN <<NewCall(x)>> ELSE <<Joined(@[1], x)>>]

Waits(x) == group.call # <<>> /\ x \in group.call[1].waiters

releaseWaiterMutant(x) ==
  LET waiters == group.call[1].waiters \ {x}
  IN  [group EXCEPT !.call[1].waiters = waiters, !.call[1].cancelled = (waiters = {})]

\* releaseWaiter: the last waiter to leave abandons the load.  It is cancelled
\* and no later caller finds it, but it runs until its request returns.
releaseWaiter(x) ==
  LET call == [group.call[1] EXCEPT !.waiters = @ \ {x}]
  IN  IF call.waiters = {}
      THEN [group EXCEPT !.call = <<>>, !.orphans = @ \cup {call}]
      ELSE [group EXCEPT !.call = <<call>>]

\* The load of refresh: read what is known, ask the catalog.
Queried(call) ==
  [call EXCEPT !.stage = "answered", !.prev = <<>>,
     !.got = IF call.prev = <<>>
             THEN <<[snapshot |-> LoadPartitionSnapshot, changed |-> TRUE]>>
             ELSE <<RefreshPartitionSnapshot(call.prev[1])>>]

LoadBegin ==
  /\ group.call # <<>> /\ group.call[1].stage = "begin"
  /\ group' = [group EXCEPT !.call[1].stage = "query", 
                              !.call[1].prev = [i \in DOMAIN partitionSnapshot |->
                                                  partitionSnapshot[i].snap]]
  /\ UNCHANGED <<ref, answer, signal, left>>

LoadQuery ==
  /\ group.call # <<>> /\ group.call[1].stage = "query"
  /\ group' = [group EXCEPT !.call = <<Queried(@[1])>>]
  /\ UNCHANGED <<ref, answer, signal, left>>

\* The catalog request fails or meets RefreshTimeout.
LoadFails ==
  /\ group.call # <<>> /\ group.call[1].stage = "query"
  /\ group' = [group EXCEPT !.call[1].stage = "answered", !.call[1].prev = <<>>]
  /\ Spend("faults")
  /\ UNCHANGED <<ref, answer, signal>>

\* A changed head is published before the load returns, also by a load that
\* was abandoned meanwhile.
Publish(call) ==
  IF call.got # <<>> /\ call.got[1].changed
  THEN /\ ref' = updateHead(call.got[1].snapshot)
       /\ signal' = IF ref'.generation # ref.generation THEN Woken ELSE signal
  ELSE UNCHANGED <<ref, signal>>

\* loadGroup.run: a cancelled load's result is replaced by the cause.
Result(call) ==
  IF group.closed THEN [ok |-> FALSE, err |-> "closed"]
  ELSE IF call.cancelled THEN [ok |-> FALSE, err |-> "no waiters"]
  ELSE IF call.got = <<>> THEN [ok |-> FALSE, err |-> "fault"]
  ELSE [ok |-> TRUE, head |-> call.got[1].snapshot.head]

LoadDone ==
  /\ group.call # <<>> /\ group.call[1].stage = "answered"
  /\ LET call == group.call[1]
     IN  /\ answer' = [c \in Clients |->
                         IF c \in call.waiters THEN <<Result(call)>> ELSE answer[c]]
         /\ Publish(call)
  /\ group' = [group EXCEPT !.call = <<>>]
  /\ UNCHANGED left

\* An abandoned load whose request is under way may still get its answer.
OrphanQuery(o) ==
  /\ o.stage = "query"
  /\ group' = [group EXCEPT !.orphans = (@ \ {o}) \cup {Queried(o)}]
  /\ UNCHANGED <<ref, answer, signal, left>>

OrphanDone(o) ==
  /\ Publish(o)
  /\ group' = [group EXCEPT !.orphans = @ \ {o}]
  /\ UNCHANGED <<answer, left>>

----------------------------------------------------------------------------
\* loop and pollWatched: a tick refreshes the watched partition and waits for
\* the refresh, at most for RefreshTimeout.
Poll ==
  /\ ref.loop /\ ref.watched # <<>> /\ ~Waits(Loop)
  /\ Do(Loop)
  /\ UNCHANGED <<ref, answer, signal, left>>

PollTimeout ==
  /\ Waits(Loop)
  /\ group' = releaseWaiter(Loop)
  /\ Spend("stops")
  /\ UNCHANGED <<ref, answer, signal>>

\* A cancelled poll leaves its load; only then does unwatchPartition or close
\* return from waiting for the loop.
StoppedPollLeaves(x) ==
  /\ Waits(x)
  /\ group' = releaseWaiter(x)
  /\ UNCHANGED <<ref, answer, signal, left>>

watchPartitionMutant ==
  [ref EXCEPT !.loop = TRUE,
              !.watched = <<[refs |-> 1, snap |-> ref.cached, gen |-> 0]>>,
              !.cached = <<>>]

\* watchPartition: the first Watch takes the cached head over and starts the
\* loop.
watchPartition ==
  LET gen == IF ref.cached = <<>> THEN 0 ELSE ref.generation + 1
  IN  IF ref.closed THEN ref
      ELSE IF ref.watched # <<>> THEN [ref EXCEPT !.watched[1].refs = @ + 1, !.loop = TRUE]
      ELSE [ref EXCEPT !.loop = TRUE,
                       !.watched = <<[refs |-> 1, snap |-> ref.cached, gen |-> gen]>>,
                       !.generation = IF ref.cached = <<>> THEN @ ELSE gen,
                       !.cached = <<>>]

\* unwatchPartition: the last Watch hands the head back to the cache, wakes
\* the tailers and stops the loop, whose last poll x then waits for.
StopLoop(x) ==
  group' = IF ref.loop /\ Waits(Loop)
           THEN [group EXCEPT !.call[1].waiters = (@ \ {Loop}) \cup {x}] ELSE group

unwatchPartition(x) ==
  IF ref.watched # <<>> /\ ref.watched[1].refs > 1
  THEN /\ ref' = [ref EXCEPT !.watched[1].refs = @ - 1]
       /\ UNCHANGED <<group, signal>>
  ELSE /\ ref' = [ref EXCEPT !.watched = <<>>, !.loop = FALSE,
                    !.cached = IF ref.watched # <<>> /\ ref.watched[1].snap # <<>>
                               THEN ref.watched[1].snap ELSE @]
       /\ signal' = IF ref.watched # <<>> THEN Woken ELSE signal
       /\ StopLoop(x)

\* refreshCoordinator.close, up to its call of group.Close.
closeCoordinator ==
  /\ ref' = [ref EXCEPT !.closed = TRUE, !.loop = FALSE, !.watched = <<>>, !.cached = <<>>]
  /\ signal' = IF ref.watched # <<>> THEN Woken ELSE signal
  /\ StopLoop(TheReader)

\* waitChannel: only a tailer that has seen the current generation may wait.
CanWaitMutant(gen) == ~ref.closed /\ ref.watched # <<>>

CanWait(gen) == ~ref.closed /\ ref.watched # <<>> /\ ref.watched[1].gen = gen
=============================================================================
