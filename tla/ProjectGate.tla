---------------------------- MODULE ProjectGate ----------------------------
(***************************************************************************)
(* The gate hive-api puts in front of a project.  A transaction that       *)
(* writes a memory, or that blocks or unblocks a project, first takes the  *)
(* advisory lock of every project its request names, in the order of their *)
(* keys; it tries again for 750 ms and then gives up.  Under the locks it  *)
(* checks that no named project is blocked, writes, and commits; the locks *)
(* go with the transaction.                                                *)
(*                                                                         *)
(* The database is read committed.  A request writes one row here; a /sync *)
(* that carries many repeats the same statements under the same locks.     *)
(***************************************************************************)
EXTENDS Naturals, FiniteSets

CONSTANTS
  Project,   \* projects, numbered in the order of their keys
  Memory,    \* rows of memories, by sync_id
  Tx,        \* transactions, each of one request
  Kind       \* the kinds of writes the clients send

ASSUME GateAssumption ==
  /\ Project \subseteq Nat \ {0} /\ IsFiniteSet(Project)
  /\ Kind \subseteq {"save", "mutate", "move"}

VARIABLES
  blocked,   \* blocked[p]: project_blocks.blocked, committed
  home,      \* home[m]: the project of row m, committed; None without a row
  version,   \* version[m]: how many times the contents of row m have changed
  pc,        \* pc[t]: where transaction t is
  request,   \* request[t]
  held       \* held[t]: the advisory locks t holds

vars == <<blocked, home, version, pc, request, held>>

None == 0

(* A move takes a row from one project to another, and names both; every   *)
(* other write names the project it is for.                                *)
Write == {q \in [op : Kind, m : Memory, to : Project, from : Project] :
            (q.op = "move") <=> (q.from # q.to)}
Transition == {q \in [op : {"block", "unblock"}, m : {None},
                      to : Project, from : Project] : q.from = q.to}
NoRequest == [op |-> "none"]

IsWrite(q) == q.op \in {"save", "mutate", "move"}
Named(q) == {q.to, q.from}

Init ==
  /\ blocked \in [Project -> BOOLEAN]
  /\ home \in [Memory -> Project \union {None}]
  /\ version = [m \in Memory |-> 0]
  /\ pc = [t \in Tx |-> "idle"]
  /\ request = [t \in Tx |-> NoRequest]
  /\ held = [t \in Tx |-> {}]

Begin(t, q) ==
  /\ pc[t] = "idle"
  /\ pc' = [pc EXCEPT ![t] = "lock"]
  /\ request' = [request EXCEPT ![t] = q]
  /\ UNCHANGED <<blocked, home, version, held>>

(* Commit, rollback or disconnection: the locks go with the transaction.   *)
End(t) ==
  /\ pc' = [pc EXCEPT ![t] = "done"]
  /\ held' = [held EXCEPT ![t] = {}]

-----------------------------------------------------------------------------
Missing(t) == Named(request[t]) \ held[t]

(* ProjectLockKeys: sorted and without duplicates.                         *)
\* Faulty variant: in the order in which the request names them.
IsNextNamed(t, k) ==
  /\ k \in Missing(t)
  /\ request[t].to \in Missing(t) => k = request[t].to
IsNext(t, k) == k \in Missing(t) /\ \A j \in Missing(t) : k <= j

\* Faulty variant: the lock is shared.
FreeToAll(k) == k \in Project
Free(k) == \A u \in Tx : k \notin held[u]

Lock(t) ==
  /\ pc[t] = "lock"
  /\ \E k \in Missing(t) :
       /\ IsNext(t, k) /\ Free(k)
       /\ held' = [held EXCEPT ![t] = @ \union {k}]
  /\ UNCHANGED <<blocked, home, version, pc, request>>

\* Faulty variant: one lock is enough.
LockedOne(t) == held[t] # {}
Locked(t) == Missing(t) = {}

(* precheckBlockedProjects: a request that names a blocked project is      *)
(* refused as a whole.  A transition has nothing to check.                 *)
Check(t) ==
  /\ pc[t] = "lock" /\ Locked(t)
  /\ LET q == request[t] IN
     IF IsWrite(q) /\ \E p \in Named(q) : blocked[p]
       THEN End(t)
       ELSE pc' = [pc EXCEPT ![t] = "apply"] /\ UNCHANGED held
  /\ UNCHANGED <<blocked, home, version, request>>

(* The row lock of the statement that writes the row: whoever wrote it     *)
(* before has committed, and the statement sees the row it left.           *)
RowFree(t) ==
  \A u \in Tx \ {t} : pc[u] = "commit" => request[u].m # request[t].m

(* What the request's statement matches.  Upsert finds the row by its      *)
(* sync_id, wherever it is; a mutation must be for the row's own project,  *)
(* and a move must name the project the row is in.                         *)
\* Faulty variant: nobody looks at the project of an existing row.
MatchesAny(q) == q.op # "move" \/ home[q.m] = q.from
Matches(q) ==
  \/ q.op = "save"
  \/ q.op = "mutate" /\ home[q.m] \in {None, q.to}
  \/ q.op = "move" /\ home[q.m] = q.from

(* A write that matches may also turn out to be stale or a duplicate; one  *)
(* that changes nothing ends here, its result a conflict or a rejection.   *)
Apply(t) ==
  /\ pc[t] = "apply"
  /\ \/ /\ IsWrite(request[t]) => Matches(request[t]) /\ RowFree(t)
        /\ pc' = [pc EXCEPT ![t] = "commit"]
        /\ UNCHANGED held
     \/ IsWrite(request[t]) /\ End(t)
  /\ UNCHANGED <<blocked, home, version, request>>

(* Only a move changes the project of a row that exists.                   *)
Commit(t) ==
  /\ pc[t] = "commit"
  /\ End(t)
  /\ LET q == request[t] IN
     IF IsWrite(q)
       THEN /\ home' = [home EXCEPT ![q.m] =
                 IF @ = None \/ q.op = "move" THEN q.to ELSE @]
            /\ version' = [version EXCEPT ![q.m] =
                 IF q.op = "move" THEN @ ELSE @ + 1]
            /\ UNCHANGED blocked
       ELSE /\ blocked' = [blocked EXCEPT ![q.to] = (q.op = "block")]
            /\ UNCHANGED <<home, version>>
  /\ UNCHANGED request

(* ErrProjectKeyLockBusy, any other error, or a client that went away.     *)
Abort(t) ==
  /\ pc[t] \in {"lock", "apply", "commit"}
  /\ End(t)
  /\ UNCHANGED <<blocked, home, version, request>>

-----------------------------------------------------------------------------
Next ==
  \E t \in Tx :
    \/ \E q \in Write \union Transition : Begin(t, q)
    \/ Lock(t) \/ Check(t) \/ Apply(t) \/ Commit(t) \/ Abort(t)

Spec == Init /\ [][Next]_vars

-----------------------------------------------------------------------------
(* Whoever is past its checks holds the locks of what it names, no others. *)
TypeOK ==
  /\ blocked \in [Project -> BOOLEAN]
  /\ home \in [Memory -> Project \union {None}]
  /\ version \in [Memory -> Nat]
  /\ pc \in [Tx -> {"idle", "lock", "apply", "commit", "done"}]
  /\ request \in [Tx -> Write \union Transition \union {NoRequest}]
  /\ held \in [Tx -> SUBSET Project]
  /\ \A t \in Tx : pc[t] \in {"lock", "apply", "commit"} => request[t] # NoRequest
  /\ \A t \in Tx : pc[t] \in {"apply", "commit"} => Named(request[t]) = held[t]

(* A request that holds some locks waits for another's: the two can only   *)
(* be told apart by the 750 ms.                                            *)
WaitsFor(t, u) ==
  /\ t # u /\ pc[t] = "lock"
  /\ \E k \in held[u] : IsNext(t, k)

(* project_key_lock.go, "cannot deadlock against each other": among any    *)
(* transactions there is one that none of the others makes wait.           *)
NoLockCycle ==
  \A S \in SUBSET Tx : S # {} => \E t \in S : \A u \in S : ~WaitsFor(t, u)

(* A quarantine holds in both directions: no row appears in, leaves or     *)
(* enters a blocked project, however the block and the moves interleave.   *)
NoCrossing ==
  [][\A m \in Memory : home'[m] # home[m] =>
       /\ ~blocked[home'[m]]
       /\ home[m] # None => ~blocked[home[m]]]_vars

(* and what is in a blocked project stays as it is.                        *)
QuarantineHolds ==
  [][\A m \in Memory : home[m] # None /\ blocked[home[m]] =>
       home'[m] = home[m] /\ version'[m] = version[m]]_vars
=============================================================================
