------------------------- MODULE ProjectGate_proofs -------------------------
(***************************************************************************)
(* Proofs about ProjectGate, for any finite set of projects and any        *)
(* memories, transactions and kinds of writes.                             *)
(*                                                                         *)
(* The argument: a project's advisory lock has one owner, whoever is past  *)
(* its checks owns every project it names, and a block is a commit of      *)
(* somebody who owns the project.  So what was checked stays true until    *)
(* the commit.  Locks are taken upwards, so whoever waits for a lock owns  *)
(* only smaller ones, and nobody can wait for himself in a circle.         *)
(***************************************************************************)
EXTENDS ProjectGate, FiniteSetTheorems, WellFoundedInduction, TLAPS

(* The inductive invariant.                                                *)
OneOwner == \A t, u \in Tx : t # u => held[t] \cap held[u] = {}

Released == \A t \in Tx : pc[t] \in {"idle", "done"} => held[t] = {}

Upwards ==
  \A t \in Tx : pc[t] = "lock" =>
    /\ held[t] \subseteq Named(request[t])
    /\ \A h \in held[t], k \in Missing(t) : h < k

Gated ==
  \A t \in Tx : pc[t] \in {"apply", "commit"} /\ IsWrite(request[t]) =>
    \A p \in Named(request[t]) : ~blocked[p]

OneWriter ==
  \A t, u \in Tx :
    /\ t # u /\ pc[t] = "commit" /\ pc[u] = "commit"
    /\ IsWrite(request[t]) /\ IsWrite(request[u])
    => request[t].m # request[u].m

Matched ==
  \A t \in Tx : pc[t] = "commit" /\ IsWrite(request[t]) => Matches(request[t])

IInv ==
  TypeOK /\ OneOwner /\ Released /\ Upwards /\ Gated /\ OneWriter /\ Matched

-----------------------------------------------------------------------------
(* Requests.                                                               *)
LEMMA RequestType ==
  ASSUME NEW q \in Write \union Transition
  PROVE  /\ q.to \in Project /\ q.from \in Project
         /\ Named(q) \subseteq Project
         /\ IsWrite(q) => q \in Write /\ q.m \in Memory /\ q.op \in Kind
                          /\ (q.op # "move" => q.from = q.to)
         /\ ~IsWrite(q) => q.op \in {"block", "unblock"} /\ q.from = q.to
<1>1. CASE q \in Write
  BY <1>1, GateAssumption DEF Write, Named, IsWrite
<1>2. CASE q \in Transition
  BY <1>2 DEF Transition, Named, IsWrite
<1>. QED BY <1>1, <1>2

LEMMA RequestOf ==
  ASSUME TypeOK, NEW t \in Tx, pc[t] \in {"lock", "apply", "commit"}
  PROVE  request[t] \in Write \union Transition
BY DEF TypeOK

(* A non-empty set of projects has a greatest member.                      *)
Above(k) == {p \in Project : p > k}

LEMMA Greatest ==
  ASSUME NEW T \in SUBSET Project, T # {}
  PROVE  \E x \in T : \A y \in T : y <= x
<1> DEFINE B == {Above(k) : k \in T}
           F == FiniteSubsetsOf(Project)
<1>1. Project \subseteq Nat /\ IsFiniteSet(Project)
  BY GateAssumption
<1>2. F = SUBSET Project
  BY <1>1, FS_FiniteSubsetsOfFinite
<1>3. B \subseteq F
  <2>1. \A k : Above(k) \in SUBSET Project
    BY DEF Above
  <2>. QED BY <1>2, <2>1
<1>4. B # {}
  OBVIOUS
<1>5. IsWellFoundedOn(StrictSubsetOrdering(Project), F)
  BY FS_StrictSubsetOrderingWellFounded
<1>6. PICK b \in B : \A c \in B : <<c, b>> \notin StrictSubsetOrdering(Project)
  <2> HIDE DEF B, F
  <2>. QED BY <1>3, <1>4, <1>5, WFMin
<1>7. PICK x \in T : b = Above(x)
  BY <1>6
<1>8. ASSUME NEW y \in T, ~(y <= x) PROVE FALSE
  <2>1. x \in Nat /\ y \in Nat /\ y \in Project /\ x < y
    BY <1>1, <1>8
  <2>2. y \in b /\ y \notin Above(y)
    BY <1>7, <2>1 DEF Above
  <2>3. ASSUME NEW p \in Above(y) PROVE p \in b
    <3>1. p \in Project /\ p \in Nat /\ p > y
      BY <1>1 DEF Above
    <3>. QED BY <1>7, <2>1, <3>1 DEF Above
  <2>4. Above(y) \in SUBSET Project /\ b \in SUBSET Project
    BY <1>7 DEF Above
  <2>5. <<Above(y), b>> \in StrictSubsetOrdering(Project)
    BY <2>2, <2>3, <2>4 DEF StrictSubsetOrdering
  <2>. QED BY <1>6, <2>5
<1>. QED BY <1>8

-----------------------------------------------------------------------------
LEMMA InitInv == Init => IInv
<1> SUFFICES ASSUME Init PROVE IInv
  OBVIOUS
<1>1. TypeOK
  BY DEF Init, TypeOK
<1>. QED
  BY <1>1 DEF Init, IInv, OneOwner, Released, Upwards, Gated, OneWriter, Matched

(* A transaction that ends gives up its locks and does nothing else to     *)
(* what the invariant says of the others.                                  *)
LEMMA EndInv ==
  ASSUME IInv, NEW t \in Tx, End(t), UNCHANGED <<blocked, home, version, request>>
  PROVE  IInv'
<1> USE DEF IInv, End
<1>1. /\ pc'[t] = "done" /\ held'[t] = {}
      /\ \A u \in Tx \ {t} : pc'[u] = pc[u] /\ held'[u] = held[u]
  BY DEF TypeOK
<1>2. TypeOK'
  <2>1. pc' \in [Tx -> {"idle", "lock", "apply", "commit", "done"}]
    BY DEF TypeOK
  <2>2. held' \in [Tx -> SUBSET Project]
    BY DEF TypeOK
  <2>. QED BY <1>1, <2>1, <2>2 DEF TypeOK
<1>3. OneOwner'
  BY <1>1 DEF OneOwner
<1>4. Released'
  BY <1>1 DEF Released
<1>5. Upwards'
  BY <1>1 DEF Upwards, Missing
<1>6. Gated'
  BY <1>1 DEF Gated
<1>7. OneWriter'
  BY <1>1 DEF OneWriter
<1>8. Matched'
  BY <1>1 DEF Matched, Matches
<1>. QED BY <1>2, <1>3, <1>4, <1>5, <1>6, <1>7, <1>8
LEMMA BeginInv ==
  ASSUME IInv, NEW t \in Tx, NEW q \in Write \union Transition, Begin(t, q)
  PROVE  IInv'
<1> USE DEF IInv, Begin
<1>1. /\ pc[t] = "idle" /\ pc'[t] = "lock" /\ request'[t] = q /\ held[t] = {}
      /\ \A u \in Tx \ {t} : pc'[u] = pc[u] /\ request'[u] = request[u]
      /\ held' = held /\ blocked' = blocked /\ home' = home /\ version' = version
  BY DEF TypeOK, Released
<1>2. q # NoRequest
  BY DEF Write, Transition, NoRequest
<1>3. TypeOK'
  <2>1. pc' \in [Tx -> {"idle", "lock", "apply", "commit", "done"}]
    BY DEF TypeOK
  <2>2. request' \in [Tx -> Write \union Transition \union {NoRequest}]
    BY DEF TypeOK
  <2>. QED BY <1>1, <1>2, <2>1, <2>2 DEF TypeOK
<1>4. OneOwner'
  BY <1>1 DEF OneOwner
<1>5. Released'
  BY <1>1 DEF Released
<1>6. Upwards'
  BY <1>1 DEF Upwards, Missing
<1>7. Gated'
  BY <1>1 DEF Gated
<1>8. OneWriter'
  BY <1>1 DEF OneWriter
<1>9. Matched'
  BY <1>1 DEF Matched, Matches
<1>. QED BY <1>3, <1>4, <1>5, <1>6, <1>7, <1>8, <1>9

LEMMA LockInv ==
  ASSUME IInv, NEW t \in Tx, Lock(t)
  PROVE  IInv'
<1> USE DEF IInv
<1>1. PICK k \in Missing(t) :
        IsNext(t, k) /\ Free(k) /\ held' = [held EXCEPT ![t] = @ \union {k}]
  BY DEF Lock
<1>2. /\ pc[t] = "lock" /\ pc' = pc /\ request' = request
      /\ blocked' = blocked /\ home' = home /\ version' = version
  BY DEF Lock
<1>3. held'[t] = held[t] \union {k} /\ \A u \in Tx \ {t} : held'[u] = held[u]
  BY <1>1 DEF TypeOK
<1>4. k \in Project
  <2>1. request[t] \in Write \union Transition
    BY <1>2, RequestOf
  <2>. QED BY <2>1, RequestType DEF Missing
<1>5. TypeOK'
  <2>1. held' \in [Tx -> SUBSET Project]
    BY <1>1, <1>4 DEF TypeOK
  <2>. QED BY <1>2, <1>3, <2>1 DEF TypeOK
<1>6. OneOwner'
  BY <1>1, <1>3 DEF OneOwner, Free
<1>7. Released'
  BY <1>2, <1>3 DEF Released
<1>8. Upwards'
  <2> SUFFICES ASSUME NEW u \in Tx, pc[u] = "lock"
               PROVE  /\ held'[u] \subseteq Named(request[u])
                      /\ \A h \in held'[u], j \in Missing(u)' : h < j
    BY <1>2 DEF Upwards
  <2>1. CASE u = t
    <3>1. held'[u] \subseteq Named(request[u])
      BY <1>3, <2>1 DEF Missing, Upwards
    <3>2. Missing(u)' = Missing(t) \ {k}
      BY <1>2, <1>3, <2>1 DEF Missing
    <3>3. ASSUME NEW j \in Missing(t) \ {k} PROVE k < j
      <4>1. request[t] \in Write \union Transition
        BY <1>2, RequestOf
      <4>2. j \in Nat /\ k \in Nat
        BY <1>4, <4>1, RequestType, GateAssumption DEF Missing
      <4>3. k <= j
        BY <1>1 DEF IsNext
      <4>. QED BY <4>2, <4>3
    <3>4. \A h \in held[t], j \in Missing(t) : h < j
      BY <1>2 DEF Upwards
    <3>. QED BY <1>3, <2>1, <3>1, <3>2, <3>3, <3>4
  <2>2. CASE u # t
    BY <1>2, <1>3, <2>2 DEF Upwards, Missing
  <2>. QED BY <2>1, <2>2
<1>9. Gated' /\ OneWriter' /\ Matched'
  BY <1>2 DEF Gated, OneWriter, Matched, Matches
<1>. QED BY <1>5, <1>6, <1>7, <1>8, <1>9

LEMMA CheckInv ==
  ASSUME IInv, NEW t \in Tx, Check(t)
  PROVE  IInv'
<1>1. CASE IsWrite(request[t]) /\ \E p \in Named(request[t]) : blocked[p]
  BY <1>1, EndInv DEF Check
<1>2. CASE ~(IsWrite(request[t]) /\ \E p \in Named(request[t]) : blocked[p])
  <2> USE DEF IInv
  <2>1. /\ pc[t] = "lock" /\ pc' = [pc EXCEPT ![t] = "apply"] /\ Missing(t) = {}
        /\ held' = held /\ request' = request
        /\ blocked' = blocked /\ home' = home /\ version' = version
    BY <1>2 DEF Check, Locked
  <2>2. pc'[t] = "apply" /\ \A u \in Tx \ {t} : pc'[u] = pc[u]
    BY <2>1 DEF TypeOK
  <2>3. Named(request[t]) = held[t]
    BY <2>1 DEF Upwards, Missing
  <2>4. TypeOK'
    <3>1. pc' \in [Tx -> {"idle", "lock", "apply", "commit", "done"}]
      BY <2>1 DEF TypeOK
    <3>. QED BY <2>1, <2>2, <2>3, <3>1 DEF TypeOK
  <2>5. OneOwner' /\ Released'
    BY <2>1, <2>2 DEF OneOwner, Released
  <2>6. Upwards'
    BY <2>1, <2>2 DEF Upwards, Missing
  <2>7. Gated'
    BY <1>2, <2>1, <2>2 DEF Gated
  <2>8. OneWriter' /\ Matched'
    BY <2>1, <2>2 DEF OneWriter, Matched, Matches
  <2>. QED BY <2>4, <2>5, <2>6, <2>7, <2>8
<1>. QED BY <1>1, <1>2

LEMMA ApplyInv ==
  ASSUME IInv, NEW t \in Tx, Apply(t)
  PROVE  IInv'
<1>1. CASE IsWrite(request[t]) /\ End(t)
  BY <1>1, EndInv DEF Apply
<1>2. CASE /\ IsWrite(request[t]) => Matches(request[t]) /\ RowFree(t)
           /\ pc' = [pc EXCEPT ![t] = "commit"]
           /\ UNCHANGED held
  <2> USE DEF IInv
  <2>1. /\ pc[t] = "apply" /\ held' = held /\ request' = request
        /\ blocked' = blocked /\ home' = home /\ version' = version
    BY <1>2 DEF Apply
  <2>2. pc'[t] = "commit" /\ \A u \in Tx \ {t} : pc'[u] = pc[u]
    BY <1>2 DEF TypeOK
  <2>3. TypeOK'
    <3>1. pc' \in [Tx -> {"idle", "lock", "apply", "commit", "done"}]
      BY <1>2 DEF TypeOK
    <3>. QED BY <2>1, <2>2, <3>1 DEF TypeOK
  <2>4. OneOwner' /\ Released'
    BY <2>1, <2>2 DEF OneOwner, Released
  <2>5. Upwards'
    BY <2>1, <2>2 DEF Upwards, Missing
  <2>6. Gated'
    BY <2>1, <2>2 DEF Gated
  <2>7. OneWriter'
    BY <1>2, <2>1, <2>2 DEF OneWriter, RowFree
  <2>8. Matched'
    BY <1>2, <2>1, <2>2 DEF Matched, Matches
  <2>. QED BY <2>3, <2>4, <2>5, <2>6, <2>7, <2>8
<1>. QED BY <1>1, <1>2 DEF Apply

(* What a commit does to the others: its row is nobody else's, and the     *)
(* project it blocks is named by nobody who is past the checks.            *)
LEMMA CommitInv ==
  ASSUME IInv, NEW t \in Tx, Commit(t)
  PROVE  IInv'
<1> USE DEF IInv
<1> DEFINE q == request[t]
<1>1. pc[t] = "commit" /\ End(t) /\ request' = request
  BY DEF Commit
<1>2. /\ pc'[t] = "done" /\ held'[t] = {}
      /\ \A u \in Tx \ {t} : pc'[u] = pc[u] /\ held'[u] = held[u]
  BY <1>1 DEF TypeOK, End
<1>3. q \in Write \union Transition
  BY <1>1, RequestOf
<1>4. /\ pc' \in [Tx -> {"idle", "lock", "apply", "commit", "done"}]
      /\ held' \in [Tx -> SUBSET Project]
  BY <1>1 DEF TypeOK, End
<1>5. OneOwner' /\ Released'
  BY <1>2 DEF OneOwner, Released
<1>6. Upwards'
  BY <1>1, <1>2 DEF Upwards, Missing
<1>7. OneWriter'
  BY <1>1, <1>2 DEF OneWriter
<1>8. CASE IsWrite(q)
  <2>1. q.m \in Memory /\ q.to \in Project
    BY <1>3, <1>8, RequestType
  <2>2. /\ home' = [home EXCEPT ![q.m] =
             IF @ = None \/ q.op = "move" THEN q.to ELSE @]
        /\ version' = [version EXCEPT ![q.m] =
             IF q.op = "move" THEN @ ELSE @ + 1]
        /\ blocked' = blocked
    BY <1>8 DEF Commit
  <2>3. TypeOK'
    <3>1. home' \in [Memory -> Project \union {None}]
      BY <2>1, <2>2 DEF TypeOK
    <3>2. version' \in [Memory -> Nat]
      BY <2>1, <2>2 DEF TypeOK
    <3>. QED BY <1>1, <1>2, <1>4, <2>2, <3>1, <3>2 DEF TypeOK
  <2>4. Gated'
    BY <1>1, <1>2, <2>2 DEF Gated
  <2>5. Matched'
    <3> SUFFICES ASSUME NEW u \in Tx \ {t}, pc[u] = "commit", IsWrite(request[u])
                 PROVE  Matches(request[u])'
      BY <1>1, <1>2 DEF Matched
    <3>1. request[u] \in Write \union Transition /\ request[u].m \in Memory
      BY RequestOf, RequestType
    <3>2. request[u].m # q.m
      BY <1>1, <1>8 DEF OneWriter
    <3>3. home'[request[u].m] = home[request[u].m]
      BY <2>2, <3>1, <3>2 DEF TypeOK
    <3>4. Matches(request[u])
      BY DEF Matched
    <3>. QED BY <1>1, <3>3, <3>4 DEF Matches
  <2>. QED BY <1>5, <1>6, <1>7, <2>3, <2>4, <2>5
<1>9. CASE ~IsWrite(q)
  <2>1. q.to \in Project
    BY <1>3, RequestType
  <2>2. /\ blocked' = [blocked EXCEPT ![q.to] = (q.op = "block")]
        /\ home' = home /\ version' = version
    BY <1>9 DEF Commit
  <2>3. TypeOK'
    <3>1. blocked' \in [Project -> BOOLEAN]
      BY <2>1, <2>2 DEF TypeOK
    <3>. QED BY <1>1, <1>2, <1>4, <2>2, <3>1 DEF TypeOK
  <2>4. Gated'
    <3> SUFFICES ASSUME NEW u \in Tx \ {t}, pc[u] \in {"apply", "commit"},
                        IsWrite(request[u]), NEW p \in Named(request[u])
                 PROVE  ~blocked'[p]
      BY <1>1, <1>2 DEF Gated
    <3>1. p \in held[u] /\ q.to \in held[t]
      BY <1>1 DEF TypeOK, Named
    <3>2. p # q.to
      BY <3>1 DEF OneOwner
    <3>3. p \in Project /\ ~blocked[p]
      BY <3>1 DEF TypeOK, Gated
    <3>. QED BY <2>2, <3>2, <3>3 DEF TypeOK
  <2>5. Matched'
    BY <1>1, <1>2, <2>2 DEF Matched, Matches
  <2>. QED BY <1>5, <1>6, <1>7, <2>3, <2>4, <2>5
<1>. QED BY <1>8, <1>9

LEMMA AbortInv ==
  ASSUME IInv, NEW t \in Tx, Abort(t)
  PROVE  IInv'
BY EndInv DEF Abort

LEMMA StepInv == IInv /\ [Next]_vars => IInv'
<1> SUFFICES ASSUME IInv, [Next]_vars PROVE IInv'
  OBVIOUS
<1>1. ASSUME NEW t \in Tx, NEW q \in Write \union Transition, Begin(t, q)
      PROVE  IInv'
  BY <1>1, BeginInv
<1>2. ASSUME NEW t \in Tx, Lock(t) PROVE IInv'
  BY <1>2, LockInv
<1>3. ASSUME NEW t \in Tx, Check(t) PROVE IInv'
  BY <1>3, CheckInv
<1>4. ASSUME NEW t \in Tx, Apply(t) PROVE IInv'
  BY <1>4, ApplyInv
<1>5. ASSUME NEW t \in Tx, Commit(t) PROVE IInv'
  BY <1>5, CommitInv
<1>6. ASSUME NEW t \in Tx, Abort(t) PROVE IInv'
  BY <1>6, AbortInv
<1>7. CASE UNCHANGED vars
  BY <1>7 DEF vars, IInv, TypeOK, OneOwner, Released, Upwards, Missing, Gated,
              OneWriter, Matched, Matches
<1>. QED BY <1>1, <1>2, <1>3, <1>4, <1>5, <1>6, <1>7 DEF Next

(* The invariant holds throughout.                                         *)
THEOREM Invariance == Spec => []IInv
<1>. QED BY InitInv, StepInv, PTL DEF Spec

(* Types, and that whoever is past the checks owns what it names.          *)
THEOREM TypeCorrect == Spec => []TypeOK
<1>1. IInv => TypeOK
  BY DEF IInv
<1>. QED BY <1>1, Invariance, PTL

-----------------------------------------------------------------------------
(* project_key_lock.go, ProjectLockKeys: locks taken in the order of their *)
(* keys never wait in a circle, however many transactions there are.       *)
THEOREM NoDeadlock == Spec => []NoLockCycle
<1>1. IInv => NoLockCycle
  <2> SUFFICES ASSUME IInv, NEW S \in SUBSET Tx, S # {},
                      \A t \in S : \E u \in S : WaitsFor(t, u)
               PROVE  FALSE
    BY DEF NoLockCycle
  <2> DEFINE Awaited == {k \in Project : \E t \in S : pc[t] = "lock" /\ IsNext(t, k)}
  <2>1. ASSUME NEW t \in S
        PROVE  \E u \in S, k \in Awaited : IsNext(t, k) /\ k \in held[u] /\ pc[t] = "lock"
    <3>1. PICK u \in S : WaitsFor(t, u)
      OBVIOUS
    <3>2. PICK k \in held[u] : IsNext(t, k)
      BY <3>1 DEF WaitsFor
    <3>3. k \in Project /\ pc[t] = "lock"
      BY <3>1 DEF WaitsFor, IInv, TypeOK
    <3>. QED BY <3>2, <3>3
  <2>2. PICK k \in Awaited : \A j \in Awaited : j <= k
    <3>1. Awaited # {}
      BY <2>1
    <3> HIDE DEF Awaited
    <3>2. Awaited \in SUBSET Project
      BY DEF Awaited
    <3>. QED BY <3>1, <3>2, Greatest
  <2>3. PICK t \in S : pc[t] = "lock" /\ IsNext(t, k)
    BY <2>2
  <2>4. PICK u \in S : k \in held[u]
    <3>1. PICK u \in S, j \in Awaited : IsNext(t, j) /\ j \in held[u]
      BY <2>1
    <3>2. j \in Nat /\ k \in Nat
      BY <2>2, GateAssumption
    <3>3. j <= k /\ k <= j
      BY <2>3, <3>1 DEF IsNext
    <3>4. j = k
      BY <3>2, <3>3
    <3>. QED BY <3>1, <3>4
  <2>5. PICK j \in Awaited : pc[u] = "lock" /\ IsNext(u, j)
    BY <2>1
  <2>6. k < j
    BY <2>4, <2>5 DEF IInv, Upwards, IsNext
  <2>7. j <= k /\ j \in Nat /\ k \in Nat
    BY <2>2, GateAssumption
  <2>. QED BY <2>6, <2>7
<1>. QED BY <1>1, Invariance, PTL

(* Which rows a step changes: only a commit does, and the row it changes   *)
(* was matched, by a request that names no blocked project.                *)
LEMMA ChangedRow ==
  ASSUME IInv, [Next]_vars, NEW m \in Memory,
         home'[m] # home[m] \/ version'[m] # version[m]
  PROVE  \E t \in Tx :
           LET q == request[t] IN
           /\ IsWrite(q) /\ q \in Write /\ q.m = m /\ Matches(q)
           /\ ~blocked[q.to] /\ ~blocked[q.from]
           /\ home'[m] = IF home[m] = None \/ q.op = "move" THEN q.to ELSE home[m]
           /\ blocked' = blocked
<1>1. PICK t \in Tx : Commit(t) /\ IsWrite(request[t])
  <2>1. ASSUME NEW t \in Tx, NEW q \in Write \union Transition, Begin(t, q)
        PROVE  FALSE
    BY <2>1 DEF Begin
  <2>2. ASSUME NEW t \in Tx, Lock(t) \/ Check(t) \/ Apply(t) \/ Abort(t)
        PROVE  FALSE
    BY <2>2 DEF Lock, Check, Apply, Abort
  <2>3. ~UNCHANGED vars
    BY DEF vars
  <2>4. ASSUME NEW t \in Tx, Commit(t), ~IsWrite(request[t]) PROVE FALSE
    BY <2>4 DEF Commit
  <2>. QED BY <2>1, <2>2, <2>3, <2>4 DEF Next
<1> DEFINE q == request[t]
<1>2. pc[t] = "commit"
  BY <1>1 DEF Commit
<1>3. q \in Write /\ q.m \in Memory
  BY <1>1, <1>2, RequestOf, RequestType DEF IInv
<1>4. /\ home' = [home EXCEPT ![q.m] =
           IF @ = None \/ q.op = "move" THEN q.to ELSE @]
      /\ version' = [version EXCEPT ![q.m] =
           IF q.op = "move" THEN @ ELSE @ + 1]
      /\ blocked' = blocked
  BY <1>1 DEF Commit
<1>5. q.m = m
  BY <1>3, <1>4 DEF IInv, TypeOK
<1>6. home'[m] = IF home[m] = None \/ q.op = "move" THEN q.to ELSE home[m]
  BY <1>4, <1>5 DEF IInv, TypeOK
<1>7. Matches(q)
  BY <1>1, <1>2 DEF IInv, Matched
<1>8. ~blocked[q.to] /\ ~blocked[q.from]
  BY <1>1, <1>2 DEF IInv, Gated, Named
<1>. QED BY <1>1, <1>3, <1>4, <1>5, <1>6, <1>7, <1>8

(* service/sync.go, syncRequestProjects: a quarantine holds in both        *)
(* directions, on the project a row is moved into and on the one it leaves. *)
THEOREM MovesQuarantined == Spec => NoCrossing
<1>1. IInv /\ [Next]_vars =>
        [\A m \in Memory : home'[m] # home[m] =>
           /\ ~blocked[home'[m]]
           /\ home[m] # None => ~blocked[home[m]]]_vars
  <2> SUFFICES ASSUME IInv, [Next]_vars, NEW m \in Memory, home'[m] # home[m]
               PROVE  /\ ~blocked[home'[m]]
                      /\ home[m] # None => ~blocked[home[m]]
    OBVIOUS
  <2>1. PICK t \in Tx :
          LET q == request[t] IN
          /\ IsWrite(q) /\ q \in Write /\ q.m = m /\ Matches(q)
          /\ ~blocked[q.to] /\ ~blocked[q.from]
          /\ home'[m] = IF home[m] = None \/ q.op = "move" THEN q.to ELSE home[m]
    BY ChangedRow
  <2>2. home'[m] = request[t].to
    BY <2>1
  <2>3. home[m] # None => home[m] = request[t].from
    BY <2>1 DEF Matches
  <2>. QED BY <2>1, <2>2, <2>3
<1>. QED BY <1>1, Invariance, PTL DEF Spec, NoCrossing

(* And without the old protocol's Upsert, which finds a row wherever it    *)
(* is, nothing in a blocked project changes at all.                        *)
THEOREM MutationsQuarantined ==
  ASSUME "save" \notin Kind
  PROVE  Spec => QuarantineHolds
<1>1. IInv /\ [Next]_vars =>
        [\A m \in Memory : home[m] # None /\ blocked[home[m]] =>
           home'[m] = home[m] /\ version'[m] = version[m]]_vars
  <2> SUFFICES ASSUME IInv, [Next]_vars, NEW m \in Memory,
                      home[m] # None, blocked[home[m]],
                      home'[m] # home[m] \/ version'[m] # version[m]
               PROVE  FALSE
    OBVIOUS
  <2>1. PICK t \in Tx :
          LET q == request[t] IN
          /\ IsWrite(q) /\ q \in Write /\ q.m = m /\ Matches(q)
          /\ ~blocked[q.to] /\ ~blocked[q.from]
    BY ChangedRow
  <2>2. request[t].op # "save"
    BY <2>1 DEF Write
  <2>3. home[m] = request[t].to \/ home[m] = request[t].from
    BY <2>1, <2>2 DEF Matches
  <2>. QED BY <2>1, <2>3
<1>. QED BY <1>1, Invariance, PTL DEF Spec, QuarantineHolds
=============================================================================
