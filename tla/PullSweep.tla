----------------------------- MODULE PullSweep -----------------------------
(***************************************************************************)
(* One device's drains of a project: the batches of a Drain page through   *)
(* the server's sessions and memories by keyset, and what the device keeps *)
(* between drains is a watermark (last_sync_at) and a cursor per channel.  *)
(* Pushing is reduced to a count of pages still to be acknowledged.        *)
(*                                                                         *)
(* The clock is the transactions' own: it moves when one is stamped, so    *)
(* rows of one transaction share a stamp and rows of two do not.           *)
(***************************************************************************)
EXTENDS Naturals, FiniteSets

CONSTANTS
  Memory, Session,  \* rows of the two channels, numbered in sync_id order
  Owner,            \* Owner[m]: the session a memory belongs to
  Page,             \* syncPageSize: rows of a channel in one response
  MaxBatches,       \* maxDrainBatches
  Policies,         \* the trigger policies in use: "auto", "manual"
  Backlog,          \* bound on the push pages pending at first
  Joined,           \* stamps of the rows there when the device joins: 1..Joined
  Writes,           \* bound on transactions of the other devices
  Lag,              \* how many stamps late a transaction may commit
  MaxFaults         \* bound on failed batches and crashes

ASSUME PullSweepAssumption ==
  /\ Memory \subseteq Nat \ {0} /\ Session \subseteq Nat \ {0}
  /\ IsFiniteSet(Memory) /\ IsFiniteSet(Session)
  /\ Memory \intersect Session = {}
  /\ Owner \in [Memory -> Session]
  /\ Page \in Nat \ {0} /\ MaxBatches \in Nat \ {0}
  /\ Policies \subseteq {"auto", "manual"}
  /\ {Backlog, Joined, Writes, Lag, MaxFaults} \subseteq Nat

VARIABLES
  clock,     \* the next stamp
  stamp,     \* stamp[r]: the row's synced_at on the server, 0 if not there
  writes,    \* transactions spent of Writes
  have,      \* rows in the device's SQLite file
  lastSync,  \* last_sync_at, 0 if never
  cursor,    \* pull_cursors, by channel
  left,      \* push pages not yet acknowledged
  phase,     \* where the Drain is, "idle" when there is none
  policy, start, batches, previous,  \* its policy, now, BatchesDone, prev cursors
  reply,     \* what the current batch was answered
  moved,     \* whether the current batch marked something synced
  refused,   \* memories SaveFromRemote failed on: logged, and skipped
  faults     \* faults spent of MaxFaults

kept == <<have, lastSync, cursor, left>>
drain == <<phase, policy, start, batches, previous, reply, moved>>
others == <<clock, stamp, writes>>
vars == <<others, kept, drain, refused, faults>>

Row == Memory \union Session
Channel == {"memories", "sessions"}
RowsOf == [memories |-> Memory, sessions |-> Session]
Zero == <<0, 0>>
Nothing == [page |-> {}, more |-> FALSE, next |-> Zero]
NoReply == [memories |-> Nothing, sessions |-> Nothing, pushEmpty |-> FALSE]
Phase == {"idle", "ask", "ack", "sessions", "memories", "memoryCursor",
          "sessionCursor", "decide"}

(* The keyset order (synced_at, sync_id).                                  *)
Key(r) == <<stamp[r], r>>
Before(a, b) == a[1] < b[1] \/ (a[1] = b[1] /\ a[2] < b[2])

Init ==
  /\ clock = Joined + 1
  /\ stamp \in [Row -> 0 .. Joined]
  /\ \A m \in Memory : stamp[m] # 0 => stamp[Owner[m]] # 0
  /\ writes = 0
  /\ have = {}
  /\ lastSync = 0
  /\ cursor = [c \in Channel |-> Zero]
  /\ left \in 0 .. Backlog
  /\ phase = "idle"
  /\ policy = "manual"
  /\ start = 0
  /\ batches = 0
  /\ previous = [c \in Channel |-> Zero]
  /\ reply = NoReply
  /\ moved = FALSE
  /\ refused = {}
  /\ faults = 0

-----------------------------------------------------------------------------
(* Another device's push.  Postgres now() is the start of its transaction, *)
(* so what it commits may carry a stamp that has passed.  A row sent again *)
(* is stamped again: a session when it ends or reopens, a memory when its  *)
(* content is newer.                                                       *)
Write(S, at) ==
  /\ writes < Writes
  /\ S # {} /\ at <= clock /\ clock <= at + Lag /\ at > 0
  /\ \A m \in S \intersect Memory : Owner[m] \in S \/ stamp[Owner[m]] # 0
  /\ \A r \in S : stamp[r] <= at
  /\ stamp' = [r \in Row |-> IF r \in S THEN at ELSE stamp[r]]
  /\ clock' = clock + 1
  /\ writes' = writes + 1
  /\ UNCHANGED <<kept, drain, refused, faults>>

-----------------------------------------------------------------------------
StartDrain(p) ==
  /\ phase = "idle"
  /\ policy' = p
  /\ start' = clock
  /\ phase' = "ask"
  /\ UNCHANGED <<others, kept, batches, previous, reply, moved, refused,
                 faults>>

(* PullSince and ListSessionsSince: at or after the watermark, after the   *)
(* cursor.  InWindowAfter is a faulty variant.                             *)
InWindowAfter(r) == stamp[r] > lastSync
InWindow(r) == stamp[r] >= lastSync

Window(c) ==
  {r \in RowsOf[c] : stamp[r] # 0 /\ InWindow(r) /\ Before(cursor[c], Key(r))}

IsFirstPage(S, W) ==
  /\ S \subseteq W
  /\ Cardinality(S) = IF Cardinality(W) < Page THEN Cardinality(W) ELSE Page
  /\ \A r \in S, q \in W \ S : Before(Key(r), Key(q))

(* The keyset position of a page's last row: the next cursor.              *)
LastKey(S) == CHOOSE k \in {Key(r) : r \in S} : \A r \in S : ~Before(k, Key(r))

(* Faulty variant: one batch too many.                                     *)
PastCap == batches > MaxBatches
AtCap == batches >= MaxBatches

(* One request, answered by one read of the server under the project's     *)
(* lock.  A channel with more to give says where to go on.                 *)
Ask ==
  /\ phase = "ask" /\ ~AtCap
  /\ \E S \in SUBSET Session, M \in SUBSET Memory :
       /\ IsFirstPage(S, Window("sessions"))
       /\ IsFirstPage(M, Window("memories"))
       /\ reply' = [sessions |-> [page |-> S, more |-> S # Window("sessions"),
                                  next |-> IF S = Window("sessions") THEN Zero
                                           ELSE LastKey(S)],
                    memories |-> [page |-> M, more |-> M # Window("memories"),
                                  next |-> IF M = Window("memories") THEN Zero
                                           ELSE LastKey(M)],
                    pushEmpty |-> left = 0]
  /\ phase' = "ack"
  /\ UNCHANGED <<others, kept, policy, start, batches, previous, moved, refused, faults>>

(* What was pushed leaves the backlog, or stays in it, not marked; a       *)
(* rejected mutation leaves it and does not count as marked.  The first    *)
(* batch may pass for progress all the same: a mutation cursor kept from   *)
(* an earlier drain differs from prevMutationCursor, which starts at zero. *)
Acknowledge ==
  /\ phase = "ack"
  /\ \/ left > 0 /\ left' = left - 1 /\ moved' \in BOOLEAN
     \/ left' = left /\ moved' \in {FALSE, batches = 0}
  /\ phase' = "sessions"
  /\ UNCHANGED <<others, have, lastSync, cursor, policy, start, batches,
                 previous, reply, refused, faults>>

\* Faulty variant: the cursors move before the memories are saved.
SaveSessionsStoring ==
  /\ phase = "sessions"
  /\ have' = have \union reply.sessions.page
  /\ cursor' = [c \in Channel |-> reply[c].next]
  /\ phase' = "memories"
  /\ UNCHANGED <<others, lastSync, left, policy, start, batches, previous,
                 reply, moved, refused, faults>>
SaveSessions ==
  /\ phase = "sessions"
  /\ have' = have \union reply.sessions.page
  /\ phase' = "memories"
  /\ UNCHANGED <<others, lastSync, cursor, left, policy, start, batches,
                 previous, reply, moved, refused, faults>>

(* SaveFromRemote fails on a memory whose session is not here (a foreign   *)
(* key); the failure is logged and the batch goes on.                      *)
Storable(m) == Owner[m] \in have

SaveMemories ==
  /\ phase = "memories"
  /\ have' = have \union {m \in reply.memories.page : Storable(m)}
  /\ refused' = refused \union {m \in reply.memories.page : ~Storable(m)}
  /\ phase' = "memoryCursor"
  /\ UNCHANGED <<others, lastSync, cursor, left, policy, start, batches,
                 previous, reply, moved, faults>>

(* A channel that is done starts over: its cursor is cleared.              *)
StoreCursor(c) == cursor' = [cursor EXCEPT ![c] = reply[c].next]

StoreMemoryCursor ==
  /\ phase = "memoryCursor"
  /\ StoreCursor("memories")
  /\ phase' = "sessionCursor"
  /\ UNCHANGED <<others, have, lastSync, left, policy, start, batches,
                 previous, reply, moved, refused, faults>>

StoreSessionCursor ==
  /\ phase = "sessionCursor"
  /\ StoreCursor("sessions")
  /\ batches' = batches + 1
  /\ phase' = "decide"
  /\ UNCHANGED <<others, have, lastSync, left, policy, start, previous, reply,
                 moved, refused, faults>>

Finished == reply.pushEmpty /\ ~reply.memories.more /\ ~reply.sessions.more

(* A cursor moved since the batch before: the pull makes progress.  The    *)
(* faulty variant looks at one channel.                                    *)
PullAdvancedMemories == cursor["memories"] # previous["memories"]
PullAdvanced == cursor # previous

(* A Drain keeps its locals no longer than it runs.                        *)
DrainOver ==
  /\ phase' = "idle"
  /\ policy' = "manual"
  /\ start' = 0
  /\ batches' = 0
  /\ previous' = [c \in Channel |-> Zero]
  /\ reply' = NoReply
  /\ moved' = FALSE

(* RecordSyncSuccess: whatever the reason to stop (the DrainOutcome), the  *)
(* watermark becomes the time this Drain started at; in the faulty         *)
(* variant, the time it ended.                                             *)
WatermarkNow == clock
Watermark == start

Stop ==
  /\ lastSync' = Watermark
  /\ DrainOver
  /\ UNCHANGED <<others, have, cursor, left, refused, faults>>

StopFinished == phase = "decide" /\ Finished /\ Stop

StopAuto ==
  phase = "decide" /\ ~Finished /\ policy = "auto" /\ Stop

StopStuck ==
  /\ phase = "decide" /\ ~Finished /\ policy = "manual"
  /\ ~moved /\ ~PullAdvanced
  /\ Stop

StopAtCap == phase = "ask" /\ AtCap /\ Stop

Continue ==
  /\ phase = "decide" /\ ~Finished /\ policy = "manual"
  /\ moved \/ PullAdvanced
  /\ previous' = cursor
  /\ phase' = "ask"
  /\ UNCHANGED <<others, kept, policy, start, batches, reply, moved, refused, faults>>

(* A batch fails, or the daemon crashes: the watermark stays where it was, *)
(* and so does every cursor already stored.                                *)
Fail ==
  /\ phase # "idle" /\ faults < MaxFaults
  /\ faults' = faults + 1
  /\ DrainOver
  /\ UNCHANGED <<others, kept, refused>>

-----------------------------------------------------------------------------
BatchStep ==
  \/ Ask \/ Acknowledge \/ SaveSessions \/ SaveMemories
  \/ StoreMemoryCursor \/ StoreSessionCursor
  \/ StopFinished \/ StopAuto \/ StopStuck \/ StopAtCap \/ Continue

Next ==
  \/ \E S \in SUBSET Row, at \in 1 .. clock : Write(S, at)
  \/ \E p \in Policies : StartDrain(p)
  \/ BatchStep
  \/ Fail

Spec == Init /\ [][Next]_vars

(* The daemon drains again and again and finishes the batches it begins.   *)
Fairness == WF_vars(BatchStep) /\ WF_vars(\E p \in Policies : StartDrain(p))

FairSpec == Spec /\ Fairness

-----------------------------------------------------------------------------
Key0 == (0 .. clock) \X ({0} \union Row)
Answer(c) == [page : SUBSET RowsOf[c], more : BOOLEAN, next : Key0]

TypeOK ==
  /\ clock \in Nat /\ stamp \in [Row -> 0 .. clock] /\ writes \in 0 .. Writes
  /\ have \subseteq Row /\ refused \subseteq Memory
  /\ lastSync \in 0 .. clock /\ start \in 0 .. clock
  /\ cursor \in [Channel -> Key0] /\ previous \in [Channel -> Key0]
  /\ left \in 0 .. Backlog /\ batches \in 0 .. MaxBatches
  /\ phase \in Phase /\ policy \in {"auto", "manual"} /\ moved \in BOOLEAN
  /\ reply \in [memories : Answer("memories"), sessions : Answer("sessions"),
                 pushEmpty : BOOLEAN]
  /\ faults \in 0 .. MaxFaults

(* The rows the next pull will not ask for.                                *)
Passed == {r \in Row : stamp[r] # 0 /\ stamp[r] < lastSync}

(* Whatever ends a drain, and from wherever it resumes, the watermark      *)
(* passes no row the device was not given.                                 *)
NothingMissed == Passed \subseteq have \union refused

(* A drain that reports fully_synced has all that its window held when it  *)
(* began, whatever cut the drains before it short and wherever they left   *)
(* the two cursors.  Those drains have moved the watermark, so of what is  *)
(* before it nothing is said.                                              *)
Due == {r \in Row : stamp[r] # 0 /\ InWindow(r) /\ stamp[r] < start}
FullySyncedHasAll == [][StopFinished => Due \subseteq have \union refused]_vars

(* Once the others stop, every row reaches a device that keeps draining:   *)
(* the two channels restart each other and the guard stops neither short.  *)
EveryRowArrives ==
  \A r \in Row : <>[](stamp[r] # 0 => r \in have \union refused)

(* While one page holds a window's sessions, no memory is refused: its     *)
(* session came in an earlier drain or comes with it, whatever crashed,    *)
(* stopped early or was written in between.                                *)
SessionsPrecede == Cardinality(Session) <= Page => refused = {}

(* syncer.go:1121: sessions are saved before memories, so that no memory   *)
(* is lost to the foreign key.                                             *)
NothingRefused == Passed \subseteq have

(* syncer.go:49: a drain takes no more batches than its channels have      *)
(* pages.                                                                  *)
Pages(S) == (Cardinality(S) + Page - 1) \div Page
DrainsInPages == batches <= Pages(Memory) + Pages(Session) + Backlog
=============================================================================
