------------------------- MODULE ProjectMove_proofs -------------------------
(***************************************************************************)
(* Proofs about ProjectMove, for any daemons, memories, pages, changes and *)
(* faults: a memory with nothing left to send is at the server as it is    *)
(* here, and the server refuses no change, on either side of a promotion   *)
(* that no Drain of another process overlaps; and, with one daemon, a      *)
(* session marked shared is at the server as it is here.                   *)
(*                                                                         *)
(* The argument: what is left of a memory's changes leads from the row the *)
(* server has to the memory as it is here, and every request carries,      *)
(* before each of its changes, those that must be applied first.  So the   *)
(* server, handling a request change by change, always meets one that is   *)
(* done already or the first that is left.  The promotion journals a       *)
(* reproject for what is known to be at the server, and refuses while      *)
(* anything may be there unknown, so that a late request of the old name   *)
(* finds nothing new to do.                                                *)
(***************************************************************************)
EXTENDS ProjectMove, WellFoundedInduction, TLAPS

-----------------------------------------------------------------------------
(* Induction over the numbers of the changes.                              *)

LEMMA Least ==
  ASSUME NEW T \in SUBSET Nat, T # {}
  PROVE  \E n \in T : \A k \in T : n <= k
<1> DEFINE R == OpToRel(<, Nat)
<1>1. IsWellFoundedOn(R, Nat) BY NatLessThanWellFounded
<1>2. \A x, y \in Nat : <<y, x>> \in R <=> y < x BY DEF OpToRel
<1> HIDE DEF R
<1>3. PICK x \in T : \A y \in T : ~(<<y, x>> \in R) BY <1>1, WFMin
<1>4. T \subseteq Nat OBVIOUS
<1>5. \A y \in T : x \in Nat /\ y \in Nat /\ ~(y < x)
  BY <1>2, <1>3, <1>4, Zenon
<1>6. \A y \in T : x <= y BY <1>5
<1> QED BY <1>6

(* What holds of 0 and of the next of each that it holds of.               *)
LEMMA UpTo ==
  ASSUME NEW N \in Nat, NEW T, 0 \in T, \A n \in 0 .. N - 1 : n \in T => n + 1 \in T
  PROVE  0 .. N \subseteq T
<1> DEFINE F == {n \in 0 .. N : n \notin T}
<1>1. SUFFICES ASSUME F # {} PROVE FALSE OBVIOUS
<1>2. F \in SUBSET Nat OBVIOUS
<1>3. PICK n \in F : \A k \in F : n <= k BY <1>1, <1>2, Least
<1>4. n # 0 /\ n \in 0 .. N /\ n \notin T OBVIOUS
<1>5. n - 1 \in 0 .. N - 1 /\ n - 1 \notin F BY <1>3, <1>4
<1>6. n - 1 \in T BY <1>5
<1>7. (n - 1) + 1 = n BY <1>4
<1> QED BY <1>4, <1>5, <1>6, <1>7

-----------------------------------------------------------------------------
(* What a request does to one memory: its mutations of the memory, one     *)
(* number after the other.                                                 *)

Mine(m, r) == {e \in r.muts : e.mem = m}
Start(m) == [row |-> remote[m], confirmed |-> {}, refused |-> {}, applied |-> {}]
After(s, n, m, r) ==
  IF {e \in Mine(m, r) : e.n = n} = {} THEN s
  ELSE Handled(s, CHOOSE e \in {f \in Mine(m, r) : f.n = n} : TRUE, r)

IsRun(g, n, m, r) ==
  g = [k \in 0 .. n |-> After(IF k = 0 THEN Start(m) ELSE g[k - 1], k, m, r)]

LEMMA RunExists ==
  ASSUME NEW m, NEW r
  PROVE  \A n \in Nat : \E g : IsRun(g, n, m, r)
<1> DEFINE T == {n \in Nat : \E g : IsRun(g, n, m, r)}
<1>1. 0 \in T
  <2> DEFINE g == [k \in 0 .. 0 |-> After(Start(m), k, m, r)]
  <2>1. g = [k \in 0 .. 0 |-> After(IF k = 0 THEN Start(m) ELSE g[k - 1], k, m, r)]
    OBVIOUS
  <2>2. IsRun(g, 0, m, r) BY <2>1 DEF IsRun
  <2> QED BY <2>2
<1>2. ASSUME NEW n \in Nat, n \in T PROVE n + 1 \in T
  <2>1. PICK h : IsRun(h, n, m, r) BY <1>2
  <2> DEFINE g == [k \in 0 .. n + 1 |->
                     IF k = n + 1 THEN After(h[n], n + 1, m, r) ELSE h[k]]
  <2>2. \A k \in 0 .. n + 1 :
          g[k] = After(IF k = 0 THEN Start(m) ELSE g[k - 1], k, m, r)
    <3>1. TAKE k \in 0 .. n + 1
    <3>2. CASE k = n + 1
      <4>1. k # 0 /\ k - 1 \in 0 .. n /\ k - 1 = n /\ k - 1 # n + 1 BY <3>2
      <4>2. g[k - 1] = h[n] BY <4>1
      <4> QED BY <3>2, <4>1, <4>2
    <3>3. CASE k # n + 1
      <4>1. k \in 0 .. n /\ (k # 0 => k - 1 \in 0 .. n /\ k - 1 # n + 1) BY <3>3
      <4>2. h[k] = After(IF k = 0 THEN Start(m) ELSE h[k - 1], k, m, r)
        BY <2>1, <4>1 DEF IsRun
      <4>3. g[k] = h[k] /\ (k # 0 => g[k - 1] = h[k - 1]) BY <3>3, <4>1
      <4> QED BY <4>2, <4>3
    <3> QED BY <3>2, <3>3
  <2>3. g = [k \in 0 .. n + 1 |-> g[k]] OBVIOUS
  <2> HIDE DEF g
  <2>4. IsRun(g, n + 1, m, r) BY <2>2, <2>3 DEF IsRun
  <2> QED BY <2>4
<1>3. ASSUME NEW n \in Nat PROVE n \in T
  <2>1. 0 .. n \subseteq T BY <1>1, <1>2, UpTo
  <2> QED BY <2>1
<1> QED BY <1>3

(* The outcome is where the run ends.                                      *)
LEMMA OutcomeOfRun ==
  ASSUME NEW m, NEW r
  PROVE  \E g : /\ g[0] = After(Start(m), 0, m, r)
                /\ \A n \in 0 .. MaxOps - 1 : g[n + 1] = After(g[n], n + 1, m, r)
                /\ Outcome(m, r) = g[MaxOps]
<1> DEFINE g == CHOOSE h : IsRun(h, MaxOps, m, r)
<1>1. MaxOps \in Nat BY ProjectMoveAssumption
<1>2. IsRun(g, MaxOps, m, r) BY <1>1, RunExists
<1>3. Outcome(m, r) = g[MaxOps]
  BY Zenon DEF Outcome, IsRun, After, Start, Mine
<1> HIDE DEF g
<1>4. \A n \in 0 .. MaxOps :
        g[n] = After(IF n = 0 THEN Start(m) ELSE g[n - 1], n, m, r)
  BY <1>1, <1>2 DEF IsRun
<1>5. g[0] = After(Start(m), 0, m, r) BY <1>1, <1>4
<1>6. ASSUME NEW n \in 0 .. MaxOps - 1 PROVE g[n + 1] = After(g[n], n + 1, m, r)
  <2>1. n + 1 \in 0 .. MaxOps /\ n + 1 # 0 /\ (n + 1) - 1 = n BY <1>1
  <2> QED BY <1>4, <2>1
<1> QED BY <1>3, <1>5, <1>6

(* What is handled is refused, confirmed, or applied and confirmed.        *)
Outcomes ==
  [row : Row, confirmed : SUBSET Mutation, refused : SUBSET Mutation,
   applied : SUBSET Mutation]

Refuses(s, e, r, t) ==
  /\ \/ Misnamed(e, r)
     \/ ~IsKnown(s, e) /\ Elsewhere(s, e, r)
     \/ ~IsKnown(s, e) /\ ~IsDone(s, e) /\ IsImpossible(s, e)
  /\ t.row = s.row /\ t.refused = s.refused \union {e}
  /\ t.confirmed = s.confirmed /\ t.applied = s.applied
Confirms(s, e, r, t) ==
  /\ IsKnown(s, e) \/ (~Elsewhere(s, e, r) /\ IsDone(s, e))
  /\ t.row = s.row /\ t.refused = s.refused
  /\ t.confirmed = s.confirmed \union {e} /\ t.applied = s.applied
Applies(s, e, r, t) ==
  /\ ~Misnamed(e, r) /\ ~IsKnown(s, e) /\ ~Elsewhere(s, e, r)
  /\ ~IsDone(s, e) /\ ~IsImpossible(s, e)
  /\ t.row = Move(s.row, e) /\ t.refused = s.refused
  /\ t.confirmed = s.confirmed \union {e} /\ t.applied = s.applied \union {e}

LEMMA MoveType ==
  ASSUME NEW row \in Row, NEW e \in Mutation
  PROVE  /\ Move(row, e) \in Row
         /\ e.op = "create" =>
              Move(row, e).state = "active" /\ Move(row, e).project = e.project
         /\ e.op = "delete" =>
              Move(row, e).state = "deleted" /\ Move(row, e).project = row.project
         /\ e.op = "restore" =>
              Move(row, e).state = "active" /\ Move(row, e).project = row.project
         /\ e.op = "reproject" =>
              Move(row, e).state = row.state /\ Move(row, e).project = "B"
<1>1. e.op \in {"create", "delete", "restore", "reproject"} /\ e.project \in Project
  BY DEF Mutation
<1>2. CASE e.op = "create"
  <2>1. Move(row, e) = [state |-> "active", project |-> e.project] BY <1>2 DEF Move
  <2> DEFINE p == e.project
  <2>2. p \in Project \union {""} BY <1>1
  <2> HIDE DEF p
  <2>3. [state |-> "active", project |-> p] \in Row BY <2>2 DEF Row
  <2>4. Move(row, e) \in Row BY <2>1, <2>3 DEF p
  <2>5. Move(row, e).state = "active" /\ Move(row, e).project = e.project BY <2>1
  <2> QED BY <1>2, <2>4, <2>5
<1>3. CASE e.op = "delete"
  <2>1. Move(row, e) = [row EXCEPT !.state = "deleted"] BY <1>3 DEF Move
  <2> QED BY <1>3, <2>1 DEF Row
<1>4. CASE e.op = "restore"
  <2>1. Move(row, e) = [row EXCEPT !.state = "active"] BY <1>4 DEF Move
  <2> QED BY <1>4, <2>1 DEF Row
<1>5. CASE e.op = "reproject"
  <2>1. Move(row, e) = [row EXCEPT !.project = "B"] BY <1>5 DEF Move
  <2> QED BY <1>5, <2>1 DEF Row, Project
<1> QED BY <1>1, <1>2, <1>3, <1>4, <1>5

LEMMA HandledIs ==
  ASSUME NEW s \in Outcomes, NEW e \in Mutation, NEW r
  PROVE  LET t == Handled(s, e, r) IN
         t \in Outcomes /\ (Refuses(s, e, r, t) \/ Confirms(s, e, r, t) \/ Applies(s, e, r, t))
<1> DEFINE t == Handled(s, e, r)
           confirmed == [s EXCEPT !.confirmed = @ \union {e}]
           refused == [s EXCEPT !.refused = @ \union {e}]
           moved == [confirmed EXCEPT !.row = Move(@, e), !.applied = @ \union {e}]
<1>1. t = IF Misnamed(e, r) THEN refused
          ELSE IF IsKnown(s, e) THEN confirmed
          ELSE IF Elsewhere(s, e, r) THEN refused
          ELSE IF IsDone(s, e) THEN confirmed
          ELSE IF IsImpossible(s, e) THEN refused
          ELSE moved
  BY DEF Handled
<1>2. /\ refused \in Outcomes /\ refused.row = s.row /\ refused.confirmed = s.confirmed
      /\ refused.refused = s.refused \union {e} /\ refused.applied = s.applied
  BY DEF Outcomes
<1>3. /\ confirmed \in Outcomes /\ confirmed.row = s.row
      /\ confirmed.refused = s.refused
      /\ confirmed.confirmed = s.confirmed \union {e} /\ confirmed.applied = s.applied
  BY DEF Outcomes
<1>4. s.row \in Row BY DEF Outcomes
<1>5. Move(s.row, e) \in Row BY <1>4, MoveType
<1> HIDE DEF confirmed
<1>6. /\ moved \in Outcomes /\ moved.row = Move(s.row, e) /\ moved.refused = s.refused
      /\ moved.confirmed = s.confirmed \union {e}
      /\ moved.applied = s.applied \union {e}
  BY <1>3, <1>5 DEF Outcomes
<1> HIDE DEF t, refused, moved
<1> DEFINE P == Refuses(s, e, r, t) \/ Confirms(s, e, r, t) \/ Applies(s, e, r, t)
<1>7. ASSUME t = refused /\ (Misnamed(e, r) \/ (~IsKnown(s, e) /\ Elsewhere(s, e, r))
                            \/ (~IsKnown(s, e) /\ ~IsDone(s, e) /\ IsImpossible(s, e)))
      PROVE  P
  BY <1>2, <1>7 DEF Refuses
<1>8. ASSUME t = confirmed /\ (IsKnown(s, e) \/ (~Elsewhere(s, e, r) /\ IsDone(s, e)))
      PROVE  P
  BY <1>3, <1>8 DEF Confirms
<1>9. ASSUME t = moved, ~Misnamed(e, r), ~IsKnown(s, e), ~Elsewhere(s, e, r),
             ~IsDone(s, e), ~IsImpossible(s, e)
      PROVE  P
  BY <1>6, <1>9 DEF Applies
<1>10. t \in Outcomes BY <1>1, <1>2, <1>3, <1>6
<1>11. P BY <1>1, <1>7, <1>8, <1>9
<1> QED BY <1>10, <1>11 DEF t

LEMMA StartType ==
  ASSUME TypeOK, NEW m \in Memory
  PROVE  Start(m) \in Outcomes
BY DEF TypeOK, Start, Outcomes

LEMMA AfterType ==
  ASSUME NEW r \in Request, NEW m, NEW n, NEW s \in Outcomes
  PROVE  /\ After(s, n, m, r) \in Outcomes
         /\ \/ {e \in Mine(m, r) : e.n = n} = {} /\ After(s, n, m, r) = s
            \/ \E e \in Mine(m, r) : /\ e \in Mutation /\ e.n = n
                                     /\ After(s, n, m, r) = Handled(s, e, r)
<1>1. Mine(m, r) \subseteq Mutation BY DEF Mine, Request
<1>2. CASE {e \in Mine(m, r) : e.n = n} = {}
  BY <1>2 DEF After
<1>3. CASE {e \in Mine(m, r) : e.n = n} # {}
  <2> DEFINE e == CHOOSE f \in {d \in Mine(m, r) : d.n = n} : TRUE
  <2>1. e \in {d \in Mine(m, r) : d.n = n} BY <1>3
  <2>2. After(s, n, m, r) = Handled(s, e, r) BY <1>3 DEF After
  <2>3. e \in Mine(m, r) /\ e \in Mutation /\ e.n = n BY <1>1, <2>1
  <2> HIDE DEF e
  <2>4. Handled(s, e, r) \in Outcomes BY <2>3, HandledIs
  <2> QED BY <2>2, <2>3, <2>4
<1> QED BY <1>2, <1>3

LEMMA OutcomeType ==
  ASSUME TypeOK, NEW r \in Request, NEW m \in Memory
  PROVE  Outcome(m, r) \in Outcomes
<1>1. PICK g : /\ g[0] = After(Start(m), 0, m, r)
               /\ \A n \in 0 .. MaxOps - 1 : g[n + 1] = After(g[n], n + 1, m, r)
               /\ Outcome(m, r) = g[MaxOps]
  BY OutcomeOfRun
<1> DEFINE T == {n \in 0 .. MaxOps : g[n] \in Outcomes}
<1>2. MaxOps \in Nat BY ProjectMoveAssumption
<1>3. 0 \in T BY <1>1, <1>2, StartType, AfterType
<1>4. \A n \in 0 .. MaxOps - 1 : n \in T => n + 1 \in T
  BY <1>1, <1>2, AfterType
<1> HIDE DEF T
<1>5. 0 .. MaxOps \subseteq T BY <1>2, <1>3, <1>4, UpTo
<1>6. MaxOps \in 0 .. MaxOps BY <1>2
<1>7. MaxOps \in T BY <1>5, <1>6
<1> QED BY <1>1, <1>7 DEF T

-----------------------------------------------------------------------------
(* Types.                                                                  *)

LEMMA LocalType ==
  ASSUME TypeOK, NEW m \in Memory, Save(m) \/ Delete(m) \/ Restore(m) \/ EndSession
  PROVE  TypeOK'
<1>1. made + 1 \in 0 .. MaxOps /\ made' = made + 1
  <2>1. MaxOps \in Nat /\ made \in 0 .. MaxOps
    BY ProjectMoveAssumption DEF TypeOK
  <2>2. made < MaxOps /\ made' = made + 1
    BY DEF Save, Delete, Restore, EndSession, LocalChange
  <2> QED BY <2>1, <2>2
<1>2. \A op \in {"create", "delete", "restore"} :
        [op |-> op, mem |-> m, n |-> made + 1, project |-> home] \in Mutation
  BY <1>1 DEF TypeOK, Mutation
<1>3. pending' \subseteq Mutation
  BY <1>2 DEF Save, Delete, Restore, EndSession, Journal, TypeOK
<1>4. session' \in Session
  BY DEF Save, Delete, Restore, EndSession, Ensured, TypeOK, Session
<1>5. /\ memories' \in [Memory -> {"none", "active", "deleted"}]
      /\ unsynced' \subseteq Memory
  BY DEF Save, Delete, Restore, EndSession, TypeOK
<1>6. UNCHANGED <<home, rejected, present, rowMarks, sent, phase, lease, batch, reply,
                  knows, wire, remoteSession, remote, seen, faults>>
  BY DEF Save, Delete, Restore, EndSession, LocalChange, evidence, process, server
<1> QED BY <1>1, <1>3, <1>4, <1>5, <1>6 DEF TypeOK

LEMMA PromoteType ==
  ASSUME TypeOK, NEW p \in Daemon, Promote(p)
  PROVE  TypeOK'
<1>1. /\ home = "A" /\ home' = "B"
      /\ session' = Relocated(session)
      /\ pending' = Rekeyed(pending) \union {Reproject(m) : m \in Saved \cap present}
      /\ UNCHANGED <<memories, unsynced, rejected, present, rowMarks, sent, made,
                     phase, lease, batch, reply, knows, wire, remoteSession, remote,
                     seen, faults>>
  BY DEF Promote, evidence, process, server
<1>2. session' \in Session BY <1>1 DEF TypeOK, Relocated, Session
<1>3. \A e \in Mutation : [e EXCEPT !.project = "B"] \in Mutation
  BY DEF Mutation, Project
<1>4. \A m \in Memory : Reproject(m) \in Mutation
  BY ProjectMoveAssumption DEF Reproject, Mutation, Project
<1>5. pending' \subseteq Mutation
  <2>1. pending \subseteq Mutation /\ Saved \subseteq Memory BY DEF TypeOK, Saved
  <2>2. Rekeyed(pending) \subseteq Mutation BY <1>3, <2>1 DEF Rekeyed
  <2>3. {Reproject(m) : m \in Saved \cap present} \subseteq Mutation BY <1>4, <2>1
  <2> QED BY <1>1, <2>2, <2>3
<1>6. home' \in Project BY <1>1 DEF Project
<1> QED BY <1>1, <1>2, <1>5, <1>6 DEF TypeOK

LEMMA NoBatchType == NoBatch \in Batch /\ NoSession \in Session
BY DEF NoBatch, NoSession, Batch, Session

LEMMA NoReplyType == NoReply \in Reply
BY DEF NoReply, Reply

LEMMA RequestType ==
  ASSUME TypeOK, NEW p \in Daemon, lease[p] # "", NEW s \in Session,
         NEW R \in SUBSET Memory, NEW M \in SUBSET Mutation
  PROVE  SyncRequest(p, s, R, M) \in Request
<1>1. lease[p] \in Project BY DEF TypeOK
<1> QED BY <1>1 DEF Request, SyncRequest

(* A daemon's batch, its phase.                                            *)
LEMMA BatchType ==
  ASSUME TypeOK, NEW p \in Daemon
  PROVE  /\ batch[p] \in Batch
         /\ \A b \in Batch : [batch EXCEPT ![p] = b] \in [Daemon -> Batch]
         /\ \A f \in Phase : [phase EXCEPT ![p] = f] \in [Daemon -> Phase]
         /\ \A s \in Session : [batch EXCEPT ![p].session = s] \in [Daemon -> Batch]
         /\ \A R \in SUBSET Memory : [batch EXCEPT ![p].rows = R] \in [Daemon -> Batch]
         /\ \A M \in SUBSET Mutation : [batch EXCEPT ![p].muts = M] \in [Daemon -> Batch]
<1>1. batch \in [Daemon -> Batch] /\ phase \in [Daemon -> Phase] BY DEF TypeOK
<1>2. batch[p] \in Batch BY <1>1
<1>3. \A s \in Session : [batch[p] EXCEPT !.session = s] \in Batch
  BY <1>2 DEF Batch
<1>4. \A R \in SUBSET Memory : [batch[p] EXCEPT !.rows = R] \in Batch
  BY <1>2 DEF Batch
<1>5. \A M \in SUBSET Mutation : [batch[p] EXCEPT !.muts = M] \in Batch
  BY <1>2 DEF Batch
<1> QED BY <1>1, <1>2, <1>3, <1>4, <1>5

LEMMA SendType ==
  ASSUME TypeOK, NEW p \in Daemon, lease[p] # "", PushSession(p) \/ PushRows(p)
  PROVE  TypeOK'
<1>1. "wait" \in Phase BY DEF Phase
<1>2. CASE PushSession(p)
  <2> DEFINE s == UnsyncedSession(p)
  <2>1. s \in Session BY NoBatchType DEF TypeOK, UnsyncedSession
  <2>2. SyncRequest(p, s, {}, {}) \in Request BY <2>1, RequestType
  <2> HIDE DEF s
  <2>3. /\ batch' = [batch EXCEPT ![p].session = s]
        /\ wire' = wire \union {SyncRequest(p, s, {}, {})}
        /\ phase' = [phase EXCEPT ![p] = "wait"]
        /\ UNCHANGED <<home, session, memories, unsynced, pending, rejected, present,
                       rowMarks, sent, made, lease, reply, knows, remoteSession,
                       remote, seen, faults>>
    BY <1>2 DEF PushSession, s, device, evidence, server
  <2>4. batch' \in [Daemon -> Batch] BY <2>1, <2>3, BatchType
  <2>5. phase' \in [Daemon -> Phase] BY <1>1, <2>3, BatchType
  <2>6. wire' \subseteq Request BY <2>2, <2>3 DEF TypeOK
  <2> QED BY <2>3, <2>4, <2>5, <2>6 DEF TypeOK
<1>3. CASE PushRows(p)
  <2>1. PICK P \in SUBSET PendingMutations(p) :
          LET out == Sendable(p, P) IN
          /\ batch' = [batch EXCEPT ![p].muts = out]
          /\ rowMarks' = rowMarks \union ({p} \X batch[p].rows)
          /\ sent' = sent \union {e.mem : e \in {k \in out : k.op = "create"}}
          /\ wire' = wire \union {SyncRequest(p, NoSession, batch[p].rows, out)}
    BY <1>3 DEF PushRows
  <2> DEFINE out == Sendable(p, P)
  <2>2. out \in SUBSET Mutation
    BY DEF Sendable, PendingMutations, TypeOK
  <2>3. batch[p].rows \in SUBSET Memory BY BatchType DEF Batch
  <2> HIDE DEF out
  <2>4. SyncRequest(p, NoSession, batch[p].rows, out) \in Request
    BY <2>2, <2>3, RequestType, NoBatchType
  <2>5. /\ batch' = [batch EXCEPT ![p].muts = out]
        /\ rowMarks' = rowMarks \union ({p} \X batch[p].rows)
        /\ sent' = sent \union {e.mem : e \in {k \in out : k.op = "create"}}
        /\ wire' = wire \union {SyncRequest(p, NoSession, batch[p].rows, out)}
        /\ phase' = [phase EXCEPT ![p] = "wait"]
        /\ UNCHANGED <<home, session, memories, unsynced, pending, rejected, present,
                       made, lease, reply, knows, remoteSession, remote, seen, faults>>
    BY <1>3, <2>1 DEF PushRows, out, server
  <2>6. batch' \in [Daemon -> Batch] BY <2>2, <2>5, BatchType
  <2>7. phase' \in [Daemon -> Phase] BY <1>1, <2>5, BatchType
  <2>8. \A e \in Mutation : e.mem \in Memory BY DEF Mutation
  <2>9. sent' \subseteq Memory
    <3>1. {e.mem : e \in {k \in out : k.op = "create"}} \subseteq Memory
      BY <2>2, <2>8
    <3> QED BY <2>5, <3>1 DEF TypeOK
  <2>10. {p} \X batch[p].rows \subseteq (Daemon \union {Lost}) \X Memory BY <2>3
  <2>11. rowMarks' \subseteq (Daemon \union {Lost}) \X Memory
    BY <2>5, <2>10 DEF TypeOK
  <2>12. wire' \subseteq Request BY <2>4, <2>5 DEF TypeOK
  <2> QED BY <2>5, <2>6, <2>7, <2>9, <2>11, <2>12 DEF TypeOK
<1> QED BY <1>2, <1>3

(* A daemon's lease, its reply.                                            *)
LEMMA ReplyType ==
  ASSUME TypeOK, NEW p \in Daemon
  PROVE  /\ reply[p] \in Reply
         /\ \A y \in Reply : [reply EXCEPT ![p] = y] \in [Daemon -> Reply]
         /\ \A q \in Project \union {""} :
              [lease EXCEPT ![p] = q] \in [Daemon -> Project \union {""}]
         /\ \A b \in BOOLEAN : [knows EXCEPT ![p] = b] \in [Daemon -> BOOLEAN]
<1>1. /\ reply \in [Daemon -> Reply] /\ lease \in [Daemon -> Project \union {""}]
      /\ knows \in [Daemon -> BOOLEAN]
  BY DEF TypeOK
<1> QED BY <1>1

LEMMA DrainType ==
  ASSUME TypeOK, NEW p \in Daemon,
         \/ BeginDrain(p) \/ PassGate(p) \/ ReadRows(p) \/ NextBatch(p) \/ EndDrain(p)
  PROVE  TypeOK'
<1>1. {"idle", "sessions", "rows", "mutations"} \subseteq Phase BY DEF Phase
<1>2. home \in Project /\ faults \in 0 .. MaxFaults /\ MaxFaults \in Nat
  BY ProjectMoveAssumption DEF TypeOK
<1>3. CASE BeginDrain(p)
  <2>1. /\ phase' = [phase EXCEPT ![p] = "sessions"]
        /\ lease' = [lease EXCEPT ![p] = home]
        /\ UNCHANGED <<device, batch, reply, knows, wire, server, faults>>
    BY <1>3 DEF BeginDrain
  <2>2. phase' \in [Daemon -> Phase] BY <1>1, <2>1, BatchType
  <2>3. lease' \in [Daemon -> Project \union {""}] BY <1>2, <2>1, ReplyType
  <2> QED BY <2>1, <2>2, <2>3 DEF TypeOK, device, evidence, server
<1>4. CASE PassGate(p)
  <2>1. /\ phase' = [phase EXCEPT ![p] = "rows"]
        /\ UNCHANGED <<device, lease, batch, reply, knows, wire, server>>
    BY <1>4 DEF PassGate
  <2>2. phase' \in [Daemon -> Phase] BY <1>1, <2>1, BatchType
  <2>3. faults' \in 0 .. MaxFaults BY <1>2, <1>4 DEF PassGate
  <2> QED BY <2>1, <2>2, <2>3 DEF TypeOK, device, evidence, server
<1>5. CASE ReadRows(p)
  <2>1. PICK R \in SUBSET UnsyncedRows(p) : batch' = [batch EXCEPT ![p].rows = R]
    BY <1>5 DEF ReadRows
  <2>2. /\ phase' = [phase EXCEPT ![p] = "mutations"]
        /\ UNCHANGED <<device, lease, reply, knows, wire, server, faults>>
    BY <1>5 DEF ReadRows
  <2>3. UnsyncedRows(p) \subseteq Memory BY DEF UnsyncedRows, TypeOK
  <2>4. phase' \in [Daemon -> Phase] BY <1>1, <2>2, BatchType
  <2>5. batch' \in [Daemon -> Batch] BY <2>1, <2>3, BatchType
  <2> QED BY <2>2, <2>4, <2>5 DEF TypeOK, device, evidence, server
<1>6. CASE NextBatch(p)
  <2>1. /\ phase' = [phase EXCEPT ![p] = "sessions"]
        /\ UNCHANGED <<device, lease, batch, reply, knows, wire, server, faults>>
    BY <1>6 DEF NextBatch
  <2>2. phase' \in [Daemon -> Phase] BY <1>1, <2>1, BatchType
  <2> QED BY <2>1, <2>2 DEF TypeOK, device, evidence, server
<1>7. CASE EndDrain(p)
  <2>1. /\ phase' = [phase EXCEPT ![p] = "idle"]
        /\ lease' = [lease EXCEPT ![p] = ""]
        /\ UNCHANGED <<device, batch, reply, knows, wire, server, faults>>
    BY <1>7 DEF EndDrain
  <2>2. phase' \in [Daemon -> Phase] BY <1>1, <2>1, BatchType
  <2>3. lease' \in [Daemon -> Project \union {""}] BY <2>1, ReplyType
  <2> QED BY <2>1, <2>2, <2>3 DEF TypeOK, device, evidence, server
<1> QED BY <1>3, <1>4, <1>5, <1>6, <1>7

LEMMA AnswerType ==
  ASSUME TypeOK, NEW p \in Daemon,
         \/ AckSession(p) \/ ResolveRows(p) \/ (\E m \in Memory : MarkSynced(p, m))
         \/ SavePulled(p) \/ MarkRejected(p) \/ MarkConfirmed(p)
  PROVE  TypeOK'
<1>1. {"reject", "confirm", "between"} \subseteq Phase BY DEF Phase
<1>2. /\ reply[p].confirmed \subseteq Mutation /\ reply[p].refused \subseteq Mutation
      /\ reply[p].pulled \subseteq Memory
  BY ReplyType DEF Reply
<1>3. /\ pending \subseteq Mutation /\ rejected \subseteq Mutation
      /\ present \subseteq Memory /\ unsynced \subseteq Memory
      /\ rowMarks \subseteq (Daemon \union {Lost}) \X Memory
  BY DEF TypeOK
<1>4. \A P, Q : Without(P, Q) \subseteq P BY DEF Without
<1>5. \A e \in Mutation : e.mem \in Memory BY DEF Mutation
<1>6. batch[p].rows \subseteq Memory /\ batch[p] \in Batch BY BatchType DEF Batch
<1>7. CASE AckSession(p)
  <2>1. /\ session' = IF Unchanged(p) THEN [session EXCEPT !.synced = TRUE, !.from = ""]
                                      ELSE session
        /\ batch' = [batch EXCEPT ![p].session = NoSession]
        /\ UNCHANGED <<home, memories, unsynced, pending, rejected, present, rowMarks,
                       sent, made, phase, lease, reply, knows, wire, remoteSession,
                       remote, seen, faults>>
    BY <1>7 DEF AckSession, evidence, server
  <2>2. session' \in Session BY <2>1 DEF TypeOK, Session
  <2>3. batch' \in [Daemon -> Batch] BY <2>1, BatchType, NoBatchType
  <2> QED BY <2>1, <2>2, <2>3 DEF TypeOK
<1>8. CASE ResolveRows(p)
  <2>1. /\ rowMarks' = {k \in rowMarks : k[1] # p}
        /\ batch' = [batch EXCEPT ![p].rows = {}]
        /\ UNCHANGED <<home, session, memories, unsynced, pending, rejected, present,
                       sent, made, phase, lease, reply, knows, wire, remoteSession,
                       remote, seen, faults>>
    BY <1>8 DEF ResolveRows, server
  <2>2. batch' \in [Daemon -> Batch] BY <2>1, BatchType
  <2>3. rowMarks' \subseteq (Daemon \union {Lost}) \X Memory BY <1>3, <2>1
  <2> QED BY <2>1, <2>2, <2>3 DEF TypeOK
<1>9. ASSUME NEW m \in Memory, MarkSynced(p, m) PROVE TypeOK'
  <2>1. /\ unsynced' = unsynced \ {m}
        /\ present' = present \union {m}
        /\ rowMarks' = {k \in rowMarks : k[2] # m}
        /\ batch' = [batch EXCEPT ![p].rows = batch[p].rows \ {m}]
        /\ UNCHANGED <<home, session, memories, pending, rejected,
                       sent, made, phase, lease, reply, knows, wire, remoteSession,
                       remote, seen, faults>>
    BY <1>9 DEF MarkSynced, server
  <2>2. batch[p].rows \ {m} \in SUBSET Memory BY <1>6
  <2>3. batch' \in [Daemon -> Batch] BY <2>1, <2>2, BatchType
  <2>4. /\ rowMarks' \subseteq (Daemon \union {Lost}) \X Memory
        /\ present' \subseteq Memory /\ unsynced' \subseteq Memory
    BY <1>3, <2>1
  <2> QED BY <2>1, <2>3, <2>4 DEF TypeOK
<1>10. ASSUME EndBatch(p)
       PROVE  /\ phase' \in [Daemon -> Phase] /\ batch' \in [Daemon -> Batch]
              /\ reply' \in [Daemon -> Reply]
  BY <1>1, <1>10, BatchType, ReplyType, NoBatchType, NoReplyType DEF EndBatch
<1>11. CASE SavePulled(p)
  <2>1. /\ present' = present \union reply[p].pulled
        /\ \/ phase' = [phase EXCEPT ![p] = "reject"] /\ UNCHANGED <<batch, reply>>
           \/ EndBatch(p)
        /\ UNCHANGED <<home, session, memories, unsynced, pending, rejected, rowMarks,
                       sent, made, lease, knows, wire, remoteSession,
                       remote, seen, faults>>
    BY <1>11 DEF SavePulled, server
  <2>2. CASE EndBatch(p) BY <1>2, <1>3, <1>10, <2>1, <2>2 DEF TypeOK
  <2>3. CASE phase' = [phase EXCEPT ![p] = "reject"] /\ UNCHANGED <<batch, reply>>
    <3>1. phase' \in [Daemon -> Phase] BY <1>1, <2>3, BatchType
    <3> QED BY <1>2, <1>3, <2>1, <2>3, <3>1 DEF TypeOK
  <2> QED BY <2>1, <2>2, <2>3
<1>12. CASE MarkRejected(p)
  <2>1. /\ pending' = Without(pending, reply[p].refused)
        /\ rejected' = Without(rejected, reply[p].refused) \union reply[p].refused
        /\ phase' = [phase EXCEPT ![p] = "confirm"]
        /\ UNCHANGED <<home, session, memories, unsynced, present, rowMarks,
                       sent, made, lease, batch, reply, knows, wire, remoteSession,
                       remote, seen, faults>>
    BY <1>12 DEF MarkRejected, server
  <2>2. pending' \subseteq Mutation /\ rejected' \subseteq Mutation
    BY <1>2, <1>3, <1>4, <2>1
  <2>3. phase' \in [Daemon -> Phase] BY <1>1, <2>1, BatchType
  <2> QED BY <2>1, <2>2, <2>3 DEF TypeOK
<1>13. CASE MarkConfirmed(p)
  <2> DEFINE confirmed == reply[p].confirmed
             created == {e.mem : e \in {k \in confirmed : k.op = "create"}}
  <2>1. /\ pending' = Without(pending, confirmed)
        /\ rejected' = Without(rejected, confirmed)
        /\ present' = present \union {e.mem : e \in confirmed}
        /\ unsynced' = unsynced \ created
        /\ rowMarks' = {k \in rowMarks : k[2] \notin created}
        /\ EndBatch(p)
        /\ UNCHANGED <<home, session, memories, sent, made, lease, knows, wire,
                       remoteSession, remote, seen, faults>>
    BY <1>13 DEF MarkConfirmed, server
  <2>2. {e.mem : e \in confirmed} \subseteq Memory BY <1>2, <1>5
  <2> HIDE DEF confirmed, created
  <2>3. pending' \subseteq Mutation /\ rejected' \subseteq Mutation
    BY <1>3, <1>4, <2>1
  <2>4. /\ present' \subseteq Memory /\ unsynced' \subseteq Memory
        /\ rowMarks' \subseteq (Daemon \union {Lost}) \X Memory
    BY <1>3, <2>1, <2>2
  <2> QED BY <1>10, <2>1, <2>3, <2>4 DEF TypeOK
<1> QED BY <1>7, <1>8, <1>9, <1>11, <1>12, <1>13

LEMMA FailType ==
  ASSUME TypeOK, NEW p \in Daemon, Fail(p)
  PROVE  /\ home' \in Project /\ session' \in Session
         /\ memories' \in [Memory -> {"none", "active", "deleted"}]
         /\ unsynced' \subseteq Memory /\ pending' \subseteq Mutation
         /\ rejected' \subseteq Mutation /\ present' \subseteq Memory
         /\ rowMarks' \subseteq (Daemon \union {Lost}) \X Memory /\ sent' \subseteq Memory
         /\ made' \in 0 .. MaxOps
         /\ phase' \in [Daemon -> Phase] /\ lease' \in [Daemon -> Project \union {""}]
         /\ batch' \in [Daemon -> Batch] /\ reply' \in [Daemon -> Reply]
<1>1. /\ phase' = [phase EXCEPT ![p] = "idle"]
      /\ lease' = [lease EXCEPT ![p] = ""]
      /\ batch' = [batch EXCEPT ![p] = NoBatch]
      /\ reply' = [reply EXCEPT ![p] = NoReply]
      /\ rowMarks' = {IF k[1] = p THEN <<Lost, k[2]>> ELSE k : k \in rowMarks}
      /\ UNCHANGED <<home, session, memories, unsynced, pending, rejected, present,
                     sent, made>>
  BY DEF Fail
<1>2. "idle" \in Phase BY DEF Phase
<1>3. /\ phase' \in [Daemon -> Phase] /\ lease' \in [Daemon -> Project \union {""}]
      /\ batch' \in [Daemon -> Batch] /\ reply' \in [Daemon -> Reply]
  BY <1>1, <1>2, BatchType, ReplyType, NoBatchType, NoReplyType
<1>4. rowMarks \subseteq (Daemon \union {Lost}) \X Memory BY DEF TypeOK
<1> DEFINE T == (Daemon \union {Lost}) \X Memory
<1>5. \A k \in T : <<Lost, k[2]>> \in T OBVIOUS
<1> HIDE DEF T
<1>6. {IF k[1] = p THEN <<Lost, k[2]>> ELSE k : k \in rowMarks} \subseteq T
  <2>1. rowMarks \subseteq T BY <1>4 DEF T
  <2>2. \A k \in rowMarks : (IF k[1] = p THEN <<Lost, k[2]>> ELSE k) \in T
    BY <1>5, <2>1
  <2> QED BY <2>2
<1>7. rowMarks' \subseteq (Daemon \union {Lost}) \X Memory BY <1>1, <1>6 DEF T
<1> QED BY <1>1, <1>3, <1>7 DEF TypeOK

LEMMA InterruptType ==
  ASSUME TypeOK, NEW p \in Daemon, Interrupt(p)
  PROVE  TypeOK'
<1>1. /\ Fail(p) /\ faults < MaxFaults /\ faults' = faults + 1
      /\ wire' = {Orphaned(p, r) : r \in wire}
      /\ UNCHANGED <<remoteSession, remote, seen>>
  BY DEF Interrupt, server
<1>2. PICK kept \in {knows[p], FALSE} : knows' = [knows EXCEPT ![p] = kept]
  BY DEF Interrupt
<1>3. knows' \in [Daemon -> BOOLEAN] BY <1>2, ReplyType DEF TypeOK
<1>4. faults' \in 0 .. MaxFaults
  <2>1. faults \in 0 .. MaxFaults /\ MaxFaults \in Nat
    BY ProjectMoveAssumption DEF TypeOK
  <2> QED BY <1>1, <2>1
<1>5. \A r \in Request : Orphaned(p, r) \in Request BY DEF Orphaned, Request
<1>6. wire' \subseteq Request
  <2>1. wire \subseteq Request BY DEF TypeOK
  <2> QED BY <1>1, <1>5, <2>1
<1> QED BY <1>1, <1>3, <1>4, <1>6, FailType DEF TypeOK

LEMMA RejectType ==
  ASSUME TypeOK, NEW r \in wire, Reject(r) \/ Drop(r)
  PROVE  TypeOK'
<1>1. wire \subseteq Request BY DEF TypeOK
<1>2. wire' \subseteq Request BY <1>1 DEF Reject, Drop
<1>3. UNCHANGED <<remoteSession, remote, seen, faults>> BY DEF Reject, Drop, server
<1>4. CASE Reject(r) /\ Waiting(r)
  <2>1. r.from \in Daemon BY <1>1, <1>4 DEF Waiting, Request
  <2>2. Fail(r.from) /\ UNCHANGED knows BY <1>4 DEF Reject
  <2> QED BY <1>2, <1>3, <2>1, <2>2, FailType DEF TypeOK
<1>5. CASE ~(Reject(r) /\ Waiting(r))
  <2>1. UNCHANGED <<device, process>> BY <1>5 DEF Reject, Drop
  <2> QED BY <1>2, <1>3, <2>1 DEF TypeOK, device, evidence, process
<1> QED BY <1>4, <1>5

LEMMA UpsertedType ==
  ASSUME TypeOK, NEW r \in Request
  PROVE  Upserted(remoteSession, r) \in
           [state : {"none", "open", "ended"}, project : Project \union {""}]
BY DEF TypeOK, Upserted, Request, Session

LEMMA ServeType ==
  ASSUME TypeOK, NEW r \in wire, Serve(r)
  PROVE  TypeOK'
<1> DEFINE v2 == r.muts # {}
           out == [m \in Memory |-> Outcome(m, r)]
           Pulled == {m \in Memory \ r.rows :
                        remote'[m] = [state |-> "active", project |-> r.project]}
           Answer(S) == [v2 |-> v2, pulled |-> S,
                         confirmed |-> UNION {out[m].confirmed : m \in Memory},
                         refused |-> UNION {out[m].refused : m \in Memory}]
<1>1. r \in Request BY DEF TypeOK
<1>2. /\ wire' = wire \ {r}
      /\ remoteSession' = Upserted(remoteSession, r)
      /\ remote' = [m \in Memory |-> IF v2 THEN out[m].row ELSE Inserted(m, r)]
      /\ seen' = seen \union UNION {{Id(e) : e \in out[m].applied} : m \in Memory}
      /\ UNCHANGED <<device, lease, batch, faults>>
  BY DEF Serve
<1>3. IF Waiting(r)
        THEN /\ \E S \in SUBSET Pulled : reply' = [reply EXCEPT ![r.from] = Answer(S)]
             /\ phase' = [phase EXCEPT ![r.from] = "ack"]
             /\ knows' = [knows EXCEPT ![r.from] = TRUE]
        ELSE UNCHANGED <<reply, phase, knows>>
  BY DEF Serve
<1>4. \A m \in Memory : out[m] \in Outcomes BY <1>1, OutcomeType
<1> HIDE DEF out
<1>5. \A m \in Memory : Inserted(m, r) \in Row
  <2>1. remote \in [Memory -> Row] BY DEF TypeOK
  <2>2. r.project \in Project BY <1>1 DEF Request
  <2> DEFINE q == r.project
  <2>3. [state |-> "active", project |-> q] \in Row BY <2>2 DEF Row
  <2> QED BY <2>1, <2>3 DEF Inserted
<1>6. remote' \in [Memory -> Row] BY <1>2, <1>4, <1>5 DEF Outcomes
<1>7. seen' \subseteq Event
  <2>1. \A e \in Mutation : Id(e) \in Event BY DEF Mutation, Event, Id
  <2>2. seen \subseteq Event BY DEF TypeOK
  <2>3. \A m \in Memory : out[m].applied \subseteq Mutation BY <1>4 DEF Outcomes
  <2>4. UNION {{Id(e) : e \in out[m].applied} : m \in Memory} \subseteq Event
    BY <2>1, <2>3
  <2> QED BY <1>2, <2>2, <2>4
<1>8. /\ UNION {out[m].confirmed : m \in Memory} \subseteq Mutation
      /\ UNION {out[m].refused : m \in Memory} \subseteq Mutation
  BY <1>4 DEF Outcomes
<1> HIDE DEF v2
<1>9. v2 \in BOOLEAN BY DEF v2
<1>10. /\ reply' \in [Daemon -> Reply] /\ phase' \in [Daemon -> Phase]
       /\ knows' \in [Daemon -> BOOLEAN]
  <2>1. CASE Waiting(r)
    <3>1. r.from \in Daemon BY <1>1, <2>1 DEF Waiting, Request
    <3>2. "ack" \in Phase BY DEF Phase
    <3>3. \A S \in SUBSET Pulled : S \in SUBSET Memory OBVIOUS
    <3> HIDE DEF Pulled
    <3>4. \A S \in SUBSET Pulled : Answer(S) \in Reply BY <1>8, <1>9, <3>3 DEF Reply
    <3> HIDE DEF Answer
    <3>5. PICK S \in SUBSET Pulled : reply' = [reply EXCEPT ![r.from] = Answer(S)]
      BY <1>3, <2>1
    <3>6. reply' \in [Daemon -> Reply] BY <3>1, <3>4, <3>5, ReplyType
    <3>7. phase' \in [Daemon -> Phase] BY <1>3, <2>1, <3>1, <3>2, BatchType
    <3>8. knows' \in [Daemon -> BOOLEAN]
      <4>1. knows' = [knows EXCEPT ![r.from] = TRUE] BY <1>3, <2>1
      <4> QED BY <3>1, <4>1, ReplyType DEF TypeOK
    <3> QED BY <3>6, <3>7, <3>8
  <2>2. CASE ~Waiting(r) BY <1>3, <2>2 DEF TypeOK
  <2> QED BY <2>1, <2>2
<1>11. wire' \subseteq Request BY <1>2 DEF TypeOK
<1>12. remoteSession' \in
         [state : {"none", "open", "ended"}, project : Project \union {""}]
  BY <1>1, <1>2, UpsertedType
<1> HIDE DEF Pulled, Answer
<1> QED BY <1>2, <1>6, <1>7, <1>10, <1>11, <1>12 DEF TypeOK, device, evidence

-----------------------------------------------------------------------------
(* A daemon holds a lease while its Drain is under way, and waits for one  *)
(* request at a time, the one its batch says.                              *)
Leasing == \A p \in Daemon : phase[p] = "idle" <=> lease[p] = ""
Quiet ==
  \A p \in Daemon :
    /\ phase[p] \in {"idle", "sessions", "rows", "between"} => batch[p] = NoBatch
    /\ phase[p] = "mutations" => batch[p].session = NoSession
OnWire ==
  \A r \in wire : r.from \in Daemon =>
    /\ phase[r.from] = "wait" /\ r.project = lease[r.from]
    /\ r.rows = batch[r.from].rows /\ r.session = batch[r.from].session
    /\ \A s \in wire : s.from = r.from => s = r
Wiring == Leasing /\ Quiet /\ OnWire

(* Daemon p goes from one phase of its Drain to the next.                  *)
Moves(p, f) ==
  /\ phase' = [phase EXCEPT ![p] = f]
  /\ \A q \in Daemon \ {p} : batch'[q] = batch[q] /\ lease'[q] = lease[q]

LEMMA PhaseOf ==
  ASSUME TypeOK, NEW p \in Daemon, NEW f, phase' = [phase EXCEPT ![p] = f]
  PROVE  phase'[p] = f /\ \A q \in Daemon \ {p} : phase'[q] = phase[q]
BY DEF TypeOK

LEMMA WiringMoves ==
  ASSUME TypeOK, Wiring, NEW p \in Daemon, NEW f \in Phase, Moves(p, f),
         phase[p] # "wait", wire' = wire,
         f = "idle" <=> lease'[p] = "",
         f \in {"idle", "sessions", "rows", "between"} => batch'[p] = NoBatch,
         f = "mutations" => batch'[p].session = NoSession
  PROVE  Wiring'
<1>1. phase'[p] = f /\ \A q \in Daemon \ {p} : phase'[q] = phase[q]
  BY PhaseOf DEF Moves
<1>2. \A q \in Daemon \ {p} : batch'[q] = batch[q] /\ lease'[q] = lease[q]
  BY DEF Moves
<1>3. \A r \in wire : r.from # p BY DEF Wiring, OnWire
<1>4. Leasing' BY <1>1, <1>2 DEF Wiring, Leasing
<1>5. Quiet' BY <1>1, <1>2 DEF Wiring, Quiet
<1>6. OnWire' BY <1>1, <1>2, <1>3 DEF Wiring, OnWire
<1> QED BY <1>4, <1>5, <1>6 DEF Wiring

LEMMA WiringPushes ==
  ASSUME TypeOK, Wiring, NEW p \in Daemon, Moves(p, "wait"), UNCHANGED lease,
         phase[p] \in {"sessions", "mutations"},
         NEW r, r.from = p, r.project = lease[p], r.rows = batch'[p].rows,
         r.session = batch'[p].session, wire' = wire \union {r}
  PROVE  Wiring'
<1>1. phase'[p] = "wait" /\ \A q \in Daemon \ {p} : phase'[q] = phase[q]
  BY PhaseOf DEF Moves
<1>2. \A q \in Daemon \ {p} : batch'[q] = batch[q] BY DEF Moves
<1>3. \A s \in wire : s.from # p BY DEF Wiring, OnWire
<1>4. Leasing' BY <1>1 DEF Wiring, Leasing
<1>5. Quiet' BY <1>1, <1>2 DEF Wiring, Quiet
<1>6. OnWire' BY <1>1, <1>2, <1>3 DEF Wiring, OnWire
<1> QED BY <1>4, <1>5, <1>6 DEF Wiring

(* The request of p is answered, or p waits for it no more.                *)
LEMMA WiringEnds ==
  ASSUME TypeOK, Wiring, NEW p \in Daemon, NEW f \in {"idle", "ack"}, Moves(p, f),
         f = "idle" <=> lease'[p] = "", f = "idle" => batch'[p] = NoBatch,
         \A r \in wire' : r.from \in Daemon => r.from # p /\ r \in wire
  PROVE  Wiring'
<1>1. phase'[p] = f /\ \A q \in Daemon \ {p} : phase'[q] = phase[q]
  BY PhaseOf DEF Moves
<1>2. \A q \in Daemon \ {p} : batch'[q] = batch[q] /\ lease'[q] = lease[q]
  BY DEF Moves
<1>3. Leasing' BY <1>1, <1>2 DEF Wiring, Leasing
<1>4. Quiet' BY <1>1, <1>2 DEF Wiring, Quiet
<1>5. OnWire' BY <1>1, <1>2 DEF Wiring, OnWire
<1> QED BY <1>3, <1>4, <1>5 DEF Wiring

LEMMA WiringDrains ==
  ASSUME TypeOK, Wiring, NEW p \in Daemon, BeginDrain(p) \/ DrainStep(p)
  PROVE  Wiring'
<1>1. /\ phase \in [Daemon -> Phase] /\ lease \in [Daemon -> Project \union {""}]
      /\ home \in Project /\ batch \in [Daemon -> Batch]
  BY DEF TypeOK
<1>2. home # "" BY <1>1 DEF Project
<1>3. Phase = {"idle", "sessions", "rows", "mutations", "wait", "ack", "reject",
               "confirm", "between"}
  BY DEF Phase
<1>4. phase[p] = "idle" <=> lease[p] = "" BY DEF Wiring, Leasing
<1>5. CASE BeginDrain(p)
  <2>1. /\ phase[p] = "idle" /\ phase' = [phase EXCEPT ![p] = "sessions"]
        /\ lease' = [lease EXCEPT ![p] = home] /\ batch' = batch /\ wire' = wire
    BY <1>5 DEF BeginDrain
  <2>2. Moves(p, "sessions") BY <1>1, <2>1 DEF Moves
  <2>3. lease'[p] # "" BY <1>1, <1>2, <2>1
  <2>4. batch'[p] = NoBatch BY <2>1 DEF Wiring, Quiet
  <2> QED BY <1>3, <2>1, <2>2, <2>3, <2>4, WiringMoves
<1>6. CASE PassGate(p) \/ NextBatch(p)
  <2>1. /\ phase[p] \in {"sessions", "between"} /\ wire' = wire
        /\ UNCHANGED <<lease, batch>>
        /\ \/ phase' = [phase EXCEPT ![p] = "rows"]
           \/ phase' = [phase EXCEPT ![p] = "sessions"]
    BY <1>6 DEF PassGate, NextBatch
  <2>2. batch'[p] = NoBatch /\ lease'[p] # "" BY <1>4, <2>1 DEF Wiring, Quiet
  <2>3. Moves(p, "rows") \/ Moves(p, "sessions") BY <2>1 DEF Moves
  <2> QED BY <1>3, <2>1, <2>2, <2>3, WiringMoves
<1>7. CASE ReadRows(p)
  <2>1. PICK R : batch' = [batch EXCEPT ![p].rows = R] BY <1>7 DEF ReadRows
  <2>2. /\ phase[p] = "rows" /\ phase' = [phase EXCEPT ![p] = "mutations"]
        /\ UNCHANGED <<lease, wire>>
    BY <1>7 DEF ReadRows
  <2>3. batch[p] = NoBatch /\ lease'[p] # "" BY <1>4, <2>2 DEF Wiring, Quiet
  <2>4. batch'[p].session = NoSession
    <3>1. NoBatch.session = NoSession BY DEF NoBatch
    <3>2. batch'[p].session = batch[p].session BY <1>1, <2>1 DEF Batch
    <3> QED BY <2>3, <3>1, <3>2
  <2>5. Moves(p, "mutations") BY <1>1, <2>1, <2>2 DEF Moves
  <2> QED BY <1>3, <2>2, <2>3, <2>4, <2>5, WiringMoves
<1>8. CASE PushSession(p)
  <2> DEFINE s == UnsyncedSession(p)
             r == SyncRequest(p, s, {}, {})
  <2>1. /\ phase[p] = "sessions" /\ phase' = [phase EXCEPT ![p] = "wait"]
        /\ batch' = [batch EXCEPT ![p].session = s] /\ UNCHANGED lease
        /\ wire' = wire \union {r}
    BY <1>8 DEF PushSession
  <2>2. batch[p] = NoBatch BY <2>1 DEF Wiring, Quiet
  <2>3. /\ r.from = p /\ r.project = lease[p] /\ r.rows = {} /\ r.session = s
    BY DEF SyncRequest
  <2> HIDE DEF s, r
  <2>4. batch'[p].rows = {} /\ batch'[p].session = s
    <3>1. NoBatch.rows = {} BY DEF NoBatch
    <3>2. batch'[p].rows = batch[p].rows /\ batch'[p].session = s
      BY <1>1, <2>1 DEF Batch
    <3> QED BY <2>2, <3>1, <3>2
  <2>5. Moves(p, "wait") BY <1>1, <2>1 DEF Moves
  <2>6. r.rows = batch'[p].rows /\ r.session = batch'[p].session BY <2>3, <2>4
  <2> QED BY <2>1, <2>3, <2>5, <2>6, WiringPushes
<1>9. CASE PushRows(p)
  <2>1. PICK out : /\ batch' = [batch EXCEPT ![p].muts = out]
                   /\ wire' = wire \union {SyncRequest(p, NoSession, batch[p].rows, out)}
    BY <1>9 DEF PushRows
  <2> DEFINE r == SyncRequest(p, NoSession, batch[p].rows, out)
  <2>2. /\ phase[p] = "mutations" /\ phase' = [phase EXCEPT ![p] = "wait"]
        /\ UNCHANGED lease
    BY <1>9 DEF PushRows
  <2>3. batch[p].session = NoSession BY <2>2 DEF Wiring, Quiet
  <2>4. r.from = p /\ r.project = lease[p] /\ r.rows = batch[p].rows
        /\ r.session = NoSession
    BY DEF SyncRequest
  <2>5. wire' = wire \union {r} BY <2>1
  <2> HIDE DEF r
  <2>6. batch'[p].rows = batch[p].rows /\ batch'[p].session = NoSession
    BY <1>1, <2>1, <2>3 DEF Batch
  <2>7. Moves(p, "wait") BY <1>1, <2>1, <2>2 DEF Moves
  <2>8. r.rows = batch'[p].rows /\ r.session = batch'[p].session BY <2>4, <2>6
  <2> QED BY <2>2, <2>4, <2>5, <2>7, <2>8, WiringPushes
<1>10. ASSUME phase[p] = "ack", UNCHANGED <<phase, lease, wire>>,
              \A q \in Daemon \ {p} : batch'[q] = batch[q]
       PROVE  Wiring'
  <2>1. phase' = [phase EXCEPT ![p] = "ack"] BY <1>1, <1>10
  <2>2. Moves(p, "ack") BY <1>10, <2>1 DEF Moves
  <2>3. lease'[p] # "" BY <1>4, <1>10
  <2> QED BY <1>3, <1>10, <2>2, <2>3, WiringMoves
<1>11. CASE AckSession(p) \/ ResolveRows(p)
  BY <1>1, <1>10, <1>11 DEF AckSession, ResolveRows
<1>12. CASE \E m \in Memory : MarkSynced(p, m)
  <2>1. PICK m \in Memory : MarkSynced(p, m) BY <1>12
  <2>2. phase[p] = "ack" /\ UNCHANGED <<phase, lease, wire>>
        /\ batch' = [batch EXCEPT ![p].rows = batch[p].rows \ {m}]
    BY <2>1 DEF MarkSynced
  <2> QED BY <1>1, <1>10, <2>2
<1>13. ASSUME phase[p] \in {"ack", "confirm"}, EndBatch(p), UNCHANGED <<lease, wire>>
       PROVE  Wiring'
  <2>1. /\ phase' = [phase EXCEPT ![p] = "between"]
        /\ batch' = [batch EXCEPT ![p] = NoBatch]
    BY <1>13 DEF EndBatch
  <2>2. Moves(p, "between") BY <1>1, <1>13, <2>1 DEF Moves
  <2>3. lease'[p] # "" /\ batch'[p] = NoBatch BY <1>1, <1>4, <1>13, <2>1
  <2> QED BY <1>3, <1>13, <2>2, <2>3, WiringMoves
<1>14. ASSUME NEW f \in {"reject", "confirm"}, phase[p] \in {"ack", "reject"},
              phase' = [phase EXCEPT ![p] = f], UNCHANGED <<lease, wire, batch>>
       PROVE  Wiring'
  <2>1. Moves(p, f) BY <1>14 DEF Moves
  <2>2. lease'[p] # "" BY <1>4, <1>14
  <2> QED BY <1>3, <1>14, <2>1, <2>2, WiringMoves
<1>15. CASE SavePulled(p) BY <1>13, <1>14, <1>15 DEF SavePulled
<1>16. CASE MarkRejected(p) BY <1>14, <1>16 DEF MarkRejected
<1>17. CASE MarkConfirmed(p) BY <1>13, <1>17 DEF MarkConfirmed
<1>18. CASE EndDrain(p)
  <2>1. /\ phase[p] = "between" /\ phase' = [phase EXCEPT ![p] = "idle"]
        /\ lease' = [lease EXCEPT ![p] = ""] /\ UNCHANGED <<batch, wire>>
    BY <1>18 DEF EndDrain
  <2>2. Moves(p, "idle") BY <1>1, <2>1 DEF Moves
  <2>3. lease'[p] = "" /\ batch'[p] = NoBatch BY <1>1, <2>1 DEF Wiring, Quiet
  <2> QED BY <1>3, <2>1, <2>2, <2>3, WiringMoves
<1> QED BY <1>5, <1>6, <1>7, <1>8, <1>9, <1>11, <1>12, <1>15, <1>16, <1>17, <1>18
        DEF DrainStep

LEMMA WiringStep ==
  ASSUME TypeOK, Wiring, [Next]_vars
  PROVE  Wiring'
<1>1. /\ phase \in [Daemon -> Phase] /\ lease \in [Daemon -> Project \union {""}]
      /\ batch \in [Daemon -> Batch] /\ wire \subseteq Request
  BY DEF TypeOK
<1>2. CASE UNCHANGED <<phase, lease, batch, wire>>
  BY <1>2 DEF Wiring, Leasing, Quiet, OnWire
<1>3. CASE Local
  BY <1>2, <1>3 DEF Local, Save, Delete, Restore, EndSession, LocalChange, process
<1>4. ASSUME NEW p \in Daemon, Promote(p) PROVE Wiring'
  BY <1>2, <1>4 DEF Promote, process
<1>5. ASSUME NEW p \in Daemon, BeginDrain(p) \/ DrainStep(p) PROVE Wiring'
  BY <1>5, WiringDrains
<1>6. ASSUME NEW p \in Daemon, Fail(p),
             \A r \in wire' : r.from \in Daemon => r.from # p /\ r \in wire
      PROVE  Wiring'
  <2>1. /\ phase' = [phase EXCEPT ![p] = "idle"]
        /\ lease' = [lease EXCEPT ![p] = ""]
        /\ batch' = [batch EXCEPT ![p] = NoBatch]
    BY <1>6 DEF Fail
  <2>2. Moves(p, "idle") BY <1>1, <2>1 DEF Moves
  <2>3. lease'[p] = "" /\ batch'[p] = NoBatch BY <1>1, <2>1
  <2> QED BY <1>6, <2>2, <2>3, WiringEnds
<1>7. ASSUME NEW p \in Daemon, Interrupt(p) PROVE Wiring'
  <2>1. Fail(p) /\ wire' = {Orphaned(p, r) : r \in wire} BY <1>7 DEF Interrupt
  <2>2. Lost \notin Daemon BY ProjectMoveAssumption
  <2>3. \A r \in wire : /\ r.from = p => Orphaned(p, r).from = Lost
                        /\ r.from # p => Orphaned(p, r) = r
    BY <1>1 DEF Orphaned, Request
  <2>4. \A r \in wire' : r.from \in Daemon => r.from # p /\ r \in wire
    BY <2>1, <2>2, <2>3
  <2> QED BY <1>6, <2>1, <2>4
<1>8. ASSUME NEW r \in wire, Serve(r) \/ Reject(r) \/ Drop(r) PROVE Wiring'
  <2>1. wire' = wire \ {r} BY <1>8 DEF Serve, Reject, Drop
  <2>2. CASE Waiting(r)
    <3>1. r.from \in Daemon BY <1>1, <2>2 DEF Waiting, Request
    <3>2. \A s \in wire' : s.from \in Daemon => s.from # r.from /\ s \in wire
      BY <2>1, <3>1 DEF Wiring, OnWire
    <3>3. CASE Serve(r)
      <4>1. phase' = [phase EXCEPT ![r.from] = "ack"] /\ UNCHANGED <<lease, batch>>
        BY <2>2, <3>3 DEF Serve
      <4>2. Moves(r.from, "ack") BY <4>1 DEF Moves
      <4>3. lease'[r.from] # "" BY <3>1, <4>1 DEF Wiring, OnWire, Leasing
      <4> QED BY <3>1, <3>2, <4>2, <4>3, WiringEnds
    <3>4. CASE Reject(r) BY <1>6, <2>2, <3>1, <3>2, <3>4 DEF Reject
    <3> QED BY <1>8, <2>2, <3>3, <3>4 DEF Drop
  <2>3. CASE ~Waiting(r)
    <3>1. UNCHANGED <<phase, lease, batch>>
      BY <1>8, <2>3 DEF Serve, Reject, Drop, process
    <3> QED BY <2>1, <3>1 DEF Wiring, Leasing, Quiet, OnWire
  <2> QED BY <2>2, <2>3
<1>9. CASE UNCHANGED vars BY <1>2, <1>9 DEF vars, process
<1> QED BY <1>3, <1>4, <1>5, <1>7, <1>8, <1>9 DEF Next

LEMMA TypeStep ==
  ASSUME TypeOK, Wiring, [Next]_vars
  PROVE  TypeOK'
<1>1. CASE Local
  <2>1. ASSUME NEW m \in Memory, Save(m) \/ Delete(m) \/ Restore(m) PROVE TypeOK'
    BY <2>1, LocalType
  <2>2. CASE EndSession
    <3>1. CASE Memory = {}
      <4>1. made' = made + 1 /\ made < MaxOps BY <2>2 DEF EndSession, LocalChange
      <4>2. made \in 0 .. MaxOps /\ MaxOps \in Nat BY ProjectMoveAssumption DEF TypeOK
      <4>3. made' \in 0 .. MaxOps BY <4>1, <4>2
      <4>4. session' \in Session BY <2>2 DEF EndSession, TypeOK, Session
      <4>5. UNCHANGED <<home, memories, unsynced, pending, evidence, process, wire,
                        server, faults>>
        BY <2>2 DEF EndSession, LocalChange
      <4> QED BY <4>3, <4>4, <4>5 DEF TypeOK, evidence, process, server
    <3>2. CASE Memory # {} BY <2>2, <3>2, LocalType
    <3> QED BY <3>1, <3>2
  <2> QED BY <1>1, <2>1, <2>2 DEF Local
<1>2. ASSUME NEW p \in Daemon,
             \/ Promote(p) \/ BeginDrain(p) \/ DrainStep(p) \/ Interrupt(p)
      PROVE  TypeOK'
  <2>1. CASE PushSession(p) \/ PushRows(p)
    <3>1. phase[p] \in {"sessions", "mutations"} BY <2>1 DEF PushSession, PushRows
    <3>2. lease[p] # "" BY <3>1 DEF Wiring, Leasing
    <3> QED BY <2>1, <3>2, SendType
  <2> QED BY <1>2, <2>1, PromoteType, DrainType, AnswerType, InterruptType DEF DrainStep
<1>3. ASSUME NEW r \in wire, Serve(r) \/ Reject(r) \/ Drop(r) PROVE TypeOK'
  BY <1>3, ServeType, RejectType
<1>4. CASE UNCHANGED vars
  BY <1>4 DEF TypeOK, vars, device, evidence, process, server
<1> QED BY <1>1, <1>2, <1>3, <1>4 DEF Next

LEMMA TypeInit == Init => TypeOK /\ Wiring
<1> SUFFICES ASSUME Init PROVE TypeOK /\ Wiring OBVIOUS
<1>1. /\ MaxOps \in Nat /\ MaxFaults \in Nat BY ProjectMoveAssumption
<1>2. /\ home = "A" /\ session = NoSession
      /\ memories = [m \in Memory |-> "none"]
      /\ unsynced = {} /\ pending = {} /\ rejected = {} /\ present = {}
      /\ rowMarks = {} /\ sent = {} /\ made = 0
      /\ phase = [p \in Daemon |-> "idle"]
      /\ lease = [p \in Daemon |-> ""]
      /\ batch = [p \in Daemon |-> NoBatch]
      /\ reply = [p \in Daemon |-> NoReply]
      /\ knows = [p \in Daemon |-> FALSE]
      /\ wire = {}
      /\ remoteSession = [state |-> "none", project |-> ""]
      /\ remote = [m \in Memory |-> [state |-> "none", project |-> ""]]
      /\ seen = {}
      /\ faults = 0
  BY DEF Init
<1>3. phase \in [Daemon -> Phase] BY <1>2 DEF Phase
<1>4. remote \in [Memory -> Row] BY <1>2 DEF Row
<1>5. made \in 0 .. MaxOps /\ faults \in 0 .. MaxFaults
  <2>1. 0 \in 0 .. MaxOps /\ 0 \in 0 .. MaxFaults BY <1>1
  <2> QED BY <1>2, <2>1
<1>6. TypeOK
  BY <1>2, <1>3, <1>4, <1>5, NoBatchType, NoReplyType DEF TypeOK, Project
<1>7. Wiring BY <1>2 DEF Wiring, Leasing, Quiet, OnWire
<1> QED BY <1>6, <1>7

(* Every state the device, the requests and the server reach is of its     *)
(* type, whatever the number of daemons, memories, changes and faults:     *)
(* the answer of hive-api to any request included.                         *)
THEOREM TypeCorrect == Spec => []TypeOK
<1>1. Init => TypeOK /\ Wiring BY TypeInit
<1>2. TypeOK /\ Wiring /\ [Next]_vars => TypeOK' /\ Wiring'
  BY TypeStep, WiringStep
<1> QED BY <1>1, <1>2, PTL DEF Spec

-----------------------------------------------------------------------------
(* The session of a device that works in A: what waits for its answer is   *)
(* what the server has, and what is marked shared is not on its way.       *)
AtServer(s) == remoteSession = [state |-> s.state, project |-> "A"]
SharingBy(p) ==
  /\ lease[p] \in {"", "A"}
  /\ batch[p].session # NoSession =>
       /\ batch[p].session.state # "none" /\ batch[p].session.from = ""
       /\ phase[p] = "ack" => AtServer(batch[p].session)
Sharing ==
  faults = 0 /\ home = "A" =>
    /\ session.from = ""
    /\ remoteSession.state = "none" \/ remoteSession.project = "A"
    /\ \A r \in wire : r.from \in Daemon
    /\ session.synced => AtServer(session) /\ \A r \in wire : r.session = NoSession
    /\ \A p \in Daemon : SharingBy(p)

LEMMA SharingStep ==
  ASSUME \A p, q \in Daemon : p = q, TypeOK, Wiring, Sharing, [Next]_vars
  PROVE  Sharing'
<1>1. /\ phase \in [Daemon -> Phase] /\ lease \in [Daemon -> Project \union {""}]
      /\ batch \in [Daemon -> Batch] /\ wire \subseteq Request /\ session \in Session
      /\ remoteSession \in [state : {"none", "open", "ended"}, project : Project \union {""}]
      /\ faults \in 0 .. MaxFaults /\ MaxFaults \in Nat
  BY ProjectMoveAssumption DEF TypeOK
<1>2. SUFFICES ASSUME faults' = 0, home' = "A"
               PROVE  Sharing'
  BY DEF Sharing, SharingBy
<1>3. NoSession.state = "none" BY DEF NoSession
<1>12. ASSUME NEW p \in Daemon, SharingBy(p)' PROVE \A q \in Daemon : SharingBy(q)'
  <2>1. TAKE q \in Daemon
  <2>2. q = p OBVIOUS
  <2> QED BY <1>12, <2>2
<1>4. ASSUME faults = 0, home = "A",
             UNCHANGED <<remoteSession, phase, lease, batch, wire>>,
             session' = session \/ (session'.from = "" /\ ~session'.synced)
      PROVE  Sharing'
  <2>1. \A p \in Daemon : SharingBy(p)' BY <1>4 DEF Sharing, SharingBy, AtServer
  <2> QED BY <1>4, <2>1 DEF Sharing, SharingBy, AtServer
<1>5. ASSUME NEW p \in Daemon, faults = 0, home = "A",
             UNCHANGED <<remoteSession, session, wire>>,
             phase'[p] # "ack", lease'[p] \in {"", "A"},
             batch'[p].session = batch[p].session \/ batch'[p].session = NoSession
      PROVE  Sharing'
  <2>1. SharingBy(p)' BY <1>5 DEF Sharing, SharingBy, AtServer
  <2>2. \A q \in Daemon : SharingBy(q)' BY <1>12, <2>1
  <2> QED BY <1>5, <2>2 DEF Sharing, SharingBy, AtServer
<1>6. ASSUME NEW p \in Daemon, NEW f \in Phase, faults' = faults,
             phase' = [phase EXCEPT ![p] = f], f # "ack", faults = 0, home = "A",
             UNCHANGED <<remoteSession, session, wire, lease>>,
             \/ UNCHANGED batch
             \/ batch' = [batch EXCEPT ![p] = NoBatch]
             \/ \E R : batch' = [batch EXCEPT ![p].rows = R]
      PROVE  Sharing'
  <2>1. phase'[p] = f BY <1>1, <1>6
  <2>2. lease'[p] \in {"", "A"} BY <1>6 DEF Sharing, SharingBy
  <2>3. batch'[p].session = batch[p].session \/ batch'[p].session = NoSession
    <3>1. CASE UNCHANGED batch BY <3>1
    <3>2. CASE batch' = [batch EXCEPT ![p] = NoBatch] BY <1>1, <3>2 DEF NoBatch
    <3>3. CASE \E R : batch' = [batch EXCEPT ![p].rows = R]
      <4>1. PICK R : batch' = [batch EXCEPT ![p].rows = R] BY <3>3
      <4> QED BY <1>1, <4>1 DEF Batch
    <3> QED BY <1>6, <3>1, <3>2, <3>3
  <2> QED BY <1>5, <1>6, <2>1, <2>2, <2>3
<1>7. CASE Local
  <2>1. /\ faults = 0 /\ home = "A"
        /\ UNCHANGED <<remoteSession, phase, lease, batch, wire>>
    BY <1>2, <1>7
    DEF Local, Save, Delete, Restore, EndSession, LocalChange, process, server
  <2>2. \/ session' = session \/ session' = Ensured(session)
        \/ session' = [session EXCEPT !.state = "ended", !.synced = FALSE]
    BY <1>7 DEF Local, Save, Delete, Restore, EndSession
  <2>3. session.from = "" BY <2>1 DEF Sharing, SharingBy
  <2>4. session' = session \/ (session'.from = "" /\ ~session'.synced)
    BY <1>1, <2>2, <2>3 DEF Ensured, Session
  <2> QED BY <1>4, <2>1, <2>4
<1>8. ASSUME NEW p \in Daemon,
             \/ Promote(p) \/ BeginDrain(p) \/ DrainStep(p) \/ Interrupt(p)
      PROVE  Sharing'
  <2>1. ~Promote(p) BY <1>2 DEF Promote
  <2>2. ~Interrupt(p)
    <3>1. faults \in 0 .. MaxFaults /\ MaxFaults \in Nat BY <1>1
    <3>2. faults + 1 # 0 BY <3>1
    <3> QED BY <1>2, <3>2 DEF Interrupt
  <2>3. CASE BeginDrain(p)
    <3>1. /\ faults = 0 /\ home = "A" /\ phase' = [phase EXCEPT ![p] = "sessions"]
          /\ lease' = [lease EXCEPT ![p] = home]
          /\ UNCHANGED <<remoteSession, session, wire, batch>>
      BY <1>2, <2>3 DEF BeginDrain, device, server
    <3>2. phase'[p] = "sessions" /\ lease'[p] = "A" BY <1>1, <3>1
    <3> QED BY <1>5, <3>1, <3>2
  <2>4. CASE PushSession(p)
    <3> DEFINE s == UnsyncedSession(p)
               r == SyncRequest(p, s, {}, {})
    <3>1. /\ faults = 0 /\ home = "A" /\ phase' = [phase EXCEPT ![p] = "wait"]
          /\ s # NoSession /\ batch' = [batch EXCEPT ![p].session = s]
          /\ wire' = wire \union {r}
          /\ UNCHANGED <<remoteSession, session, lease>>
      BY <1>2, <2>4 DEF PushSession, device, server
    <3>2. s = session /\ session.state # "none" /\ ~session.synced
      BY <3>1 DEF UnsyncedSession
    <3>3. r.from = p BY DEF SyncRequest
    <3> HIDE DEF s, r
    <3>4. batch'[p].session = s /\ phase'[p] = "wait" BY <1>1, <3>1 DEF Batch
    <3>5. SharingBy(p)' BY <3>1, <3>2, <3>4 DEF Sharing, SharingBy
    <3>6. \A q \in Daemon : SharingBy(q)' BY <3>5, <1>12
    <3>7. session'.from = "" /\ ~session'.synced BY <3>1, <3>2 DEF Sharing
    <3>8. remoteSession'.state = "none" \/ remoteSession'.project = "A"
      BY <3>1 DEF Sharing
    <3>9. \A t \in wire' : t.from \in Daemon BY <3>1, <3>3 DEF Sharing
    <3> QED BY <3>6, <3>7, <3>8, <3>9 DEF Sharing, SharingBy
  <2>5. CASE PassGate(p)
    <3>1. faults \in 0 .. MaxFaults /\ MaxFaults \in Nat BY <1>1
    <3>2. faults' = faults \/ faults' = faults + 1 BY <2>5 DEF PassGate
    <3>3. faults = 0 /\ faults' = faults BY <1>2, <3>1, <3>2
    <3> QED BY <1>2, <1>6, <2>5, <3>3 DEF PassGate, device, server, Phase
  <2>6. CASE ReadRows(p)
    BY <1>2, <1>6, <2>6 DEF ReadRows, device, server, Phase
  <2>7. CASE PushRows(p)
    <3>1. PICK out : /\ batch' = [batch EXCEPT ![p].muts = out]
                     /\ wire' = wire \union {SyncRequest(p, NoSession, batch[p].rows, out)}
      BY <2>7 DEF PushRows
    <3> DEFINE r == SyncRequest(p, NoSession, batch[p].rows, out)
    <3>2. /\ faults = 0 /\ home = "A" /\ phase' = [phase EXCEPT ![p] = "wait"]
          /\ UNCHANGED <<remoteSession, session, lease>>
      BY <1>2, <2>7 DEF PushRows, server
    <3>3. r.from = p /\ r.session = NoSession BY DEF SyncRequest
    <3>4. wire' = wire \union {r} BY <3>1
    <3> HIDE DEF r
    <3>5. batch'[p].session = batch[p].session /\ phase'[p] = "wait"
      BY <1>1, <3>1, <3>2 DEF Batch
    <3>6. SharingBy(p)' BY <3>2, <3>5 DEF Sharing, SharingBy
    <3>7. \A q \in Daemon : SharingBy(q)' BY <3>6, <1>12
    <3> QED BY <3>2, <3>3, <3>4, <3>7 DEF Sharing, AtServer
  <2>8. CASE AckSession(p)
    <3>1. /\ faults = 0 /\ home = "A" /\ phase[p] = "ack" /\ batch[p].session # NoSession
          /\ session' = IF Unchanged(p) THEN [session EXCEPT !.synced = TRUE, !.from = ""]
                                        ELSE session
          /\ batch' = [batch EXCEPT ![p].session = NoSession]
          /\ UNCHANGED <<phase, lease, wire, remoteSession>>
      BY <1>2, <2>8 DEF AckSession, server
    <3>2. batch'[p].session = NoSession BY <1>1, <3>1 DEF Batch
    <3>3. wire = {} BY <3>1 DEF Sharing, SharingBy, Wiring, OnWire
    <3>4. AtServer(batch[p].session) BY <3>1 DEF Sharing, SharingBy
    <3>7. SharingBy(p)' BY <3>1, <3>2 DEF Sharing, SharingBy
    <3>8. \A q \in Daemon : SharingBy(q)' BY <3>7, <1>12
    <3>5. CASE Unchanged(p)
      <4>1. session'.state = session.state /\ session'.from = ""
        BY <1>1, <3>1, <3>5 DEF Session
      <4>2. AtServer(session)' BY <3>1, <3>4, <3>5, <4>1 DEF Unchanged, AtServer
      <4> QED BY <3>1, <3>3, <3>8, <4>1, <4>2 DEF Sharing
    <3>6. CASE ~Unchanged(p) BY <3>1, <3>3, <3>6, <3>8 DEF Sharing, AtServer
    <3> QED BY <3>5, <3>6
  <2>9. ASSUME faults = 0, home = "A", UNCHANGED <<remoteSession, session, wire, lease, phase>>,
               \E R : batch' = [batch EXCEPT ![p].rows = R]
        PROVE  Sharing'
    <3>1. PICK R : batch' = [batch EXCEPT ![p].rows = R] BY <2>9
    <3>2. batch'[p].session = batch[p].session BY <1>1, <3>1 DEF Batch
    <3>3. SharingBy(p)' BY <2>9, <3>2 DEF Sharing, SharingBy, AtServer
    <3>4. \A q \in Daemon : SharingBy(q)' BY <3>3, <1>12
    <3> QED BY <2>9, <3>4 DEF Sharing, AtServer
  <2>10. CASE ResolveRows(p) BY <1>2, <2>9, <2>10 DEF ResolveRows, server
  <2>11. CASE \E m \in Memory : MarkSynced(p, m)
    <3>1. PICK m \in Memory : MarkSynced(p, m) BY <2>11
    <3>2. batch' = [batch EXCEPT ![p].rows = batch[p].rows \ {m}]
      BY <3>1 DEF MarkSynced
    <3> QED BY <1>2, <2>9, <3>1, <3>2 DEF MarkSynced, server
  <2>12. CASE SavePulled(p)
    <3>1. \/ phase' = [phase EXCEPT ![p] = "reject"] /\ UNCHANGED batch
          \/ phase' = [phase EXCEPT ![p] = "between"] /\ batch' = [batch EXCEPT ![p] = NoBatch]
      BY <2>12 DEF SavePulled, EndBatch
    <3> QED BY <1>2, <1>6, <2>12, <3>1 DEF SavePulled, server, Phase
  <2>13. CASE MarkRejected(p)
    BY <1>2, <1>6, <2>13 DEF MarkRejected, server, Phase
  <2>14. CASE MarkConfirmed(p)
    BY <1>2, <1>6, <2>14 DEF MarkConfirmed, EndBatch, server, Phase
  <2>15. CASE NextBatch(p)
    BY <1>2, <1>6, <2>15 DEF NextBatch, device, server, Phase
  <2>16. CASE EndDrain(p)
    <3>1. /\ faults = 0 /\ home = "A" /\ phase' = [phase EXCEPT ![p] = "idle"]
          /\ lease' = [lease EXCEPT ![p] = ""]
          /\ UNCHANGED <<remoteSession, session, wire, batch>>
      BY <1>2, <2>16 DEF EndDrain, device, server
    <3>2. phase'[p] = "idle" /\ lease'[p] = "" BY <1>1, <3>1
    <3> QED BY <1>5, <3>1, <3>2
  <2> QED BY <1>8, <2>1, <2>2, <2>3, <2>4, <2>5, <2>6, <2>7, <2>8, <2>10, <2>11, <2>12,
             <2>13, <2>14, <2>15, <2>16 DEF DrainStep
<1>9. ASSUME NEW r \in wire, Serve(r) PROVE Sharing'
  <2>1. /\ faults = 0 /\ home = "A" /\ wire' = wire \ {r}
        /\ remoteSession' = Upserted(remoteSession, r)
        /\ UNCHANGED <<session, lease, batch>>
    BY <1>2, <1>9 DEF Serve, device
  <2>2. r.from \in Daemon BY <2>1 DEF Sharing, SharingBy
  <2>3. /\ phase[r.from] = "wait" /\ r.project = lease[r.from] /\ wire = {r}
        /\ r.session = batch[r.from].session
    BY <2>1, <2>2 DEF Sharing, SharingBy, Wiring, OnWire
  <2>4. r.project = "A" BY <2>1, <2>2, <2>3 DEF Sharing, SharingBy, Wiring, Leasing
  <2>5. CASE r.session = NoSession
    <3>1. remoteSession' = remoteSession BY <1>3, <2>1, <2>5 DEF Upserted
    <3> QED BY <2>1, <2>2, <2>3, <2>5, <3>1 DEF Sharing, SharingBy, AtServer
  <2>6. CASE r.session # NoSession
    <3>1. r.session.state # "none" /\ r.session.from = "" BY <2>1, <2>2, <2>3, <2>6 DEF Sharing, SharingBy
    <3>2. ~session.synced BY <2>1, <2>6 DEF Sharing, SharingBy
    <3>3. remoteSession' = [state |-> r.session.state, project |-> "A"]
      BY <1>1, <2>1, <2>4, <3>1 DEF Upserted, Sharing
    <3>4. SharingBy(r.from)'
      BY <2>1, <2>2, <2>3, <3>1, <3>3 DEF Sharing, SharingBy, AtServer
    <3>5. \A q \in Daemon : SharingBy(q)' BY <1>12, <2>2, <3>4
    <3>6. session'.from = "" BY <2>1 DEF Sharing
    <3>7. remoteSession'.project = "A" BY <3>3
    <3> QED BY <2>1, <2>3, <3>2, <3>5, <3>6, <3>7 DEF Sharing, SharingBy
  <2> QED BY <2>5, <2>6
<1>10. ASSUME NEW r \in wire, Reject(r) \/ Drop(r) PROVE Sharing'
  <2>1. /\ faults = 0 /\ home = "A" /\ wire' = wire \ {r} /\ UNCHANGED <<session, remoteSession>>
    BY <1>2, <1>10 DEF Reject, Drop, server, device, Fail
  <2>2. r.from \in Daemon BY <2>1 DEF Sharing, SharingBy
  <2>3. Lost \notin Daemon BY ProjectMoveAssumption
  <2>4. Fail(r.from) BY <1>10, <2>2, <2>3 DEF Reject, Drop, Waiting
  <2>5. /\ phase' = [phase EXCEPT ![r.from] = "idle"]
        /\ lease' = [lease EXCEPT ![r.from] = ""]
        /\ batch' = [batch EXCEPT ![r.from] = NoBatch]
    BY <2>4 DEF Fail
  <2>6. batch'[r.from].session = NoSession /\ lease'[r.from] = ""
    BY <1>1, <2>2, <2>5 DEF NoBatch
  <2> QED BY <2>1, <2>2, <2>6 DEF Sharing, SharingBy, AtServer
<1>11. CASE UNCHANGED vars BY <1>2, <1>4, <1>11 DEF vars, device, process, server
<1> QED BY <1>7, <1>8, <1>9, <1>10, <1>11 DEF Next

(* With one daemon, a session marked shared is at the server as it is on   *)
(* the device, until the first fault or the promotion: an end or a new     *)
(* save while the session is on its way keeps it unshared, for             *)
(* AckSessionSnapshot marks only what it sent.  A second daemon may still  *)
(* hold an older snapshot, which is then served over the newer one.        *)
THEOREM SessionSharedAlone ==
  ASSUME \A p, q \in Daemon : p = q
  PROVE  Spec => []SessionIsShared
<1>1. Init => TypeOK /\ Wiring /\ Sharing
  <2>1. Init => Sharing 
    <3>1. SUFFICES ASSUME Init PROVE Sharing OBVIOUS
    <3>2. /\ session = NoSession /\ wire = {} /\ remoteSession.state = "none"
          /\ lease = [p \in Daemon |-> ""] /\ batch = [p \in Daemon |-> NoBatch]
      BY <3>1 DEF Init
    <3>3. NoBatch.session = NoSession /\ session.from = "" /\ ~session.synced
      BY <3>2 DEF NoBatch, NoSession
    <3>4. \A p \in Daemon : SharingBy(p) BY <3>2, <3>3 DEF SharingBy
    <3> QED BY <3>2, <3>3, <3>4 DEF Sharing
  <2> QED BY <2>1, TypeInit
<1>2. TypeOK /\ Wiring /\ Sharing /\ [Next]_vars => TypeOK' /\ Wiring' /\ Sharing'
  BY TypeStep, WiringStep, SharingStep
<1>3. Sharing => SessionIsShared BY DEF Sharing, SessionIsShared, AtServer
<1> QED BY <1>1, <1>2, <1>3, PTL DEF Spec

-----------------------------------------------------------------------------
(* What is left to do of a memory's changes leads from the row the server  *)
(* has to the memory as it is here: the first starts from the row, each    *)
(* other from what the one before it leaves, and the last ends in the      *)
(* memory's state.                                                         *)
Pre(op) ==
  IF op = "create" THEN "none" ELSE IF op = "delete" THEN "active" ELSE "deleted"
Post(op) == IF op = "delete" THEN "deleted" ELSE "active"
Replays(J, state, final) ==
  /\ J = {} => state = final
  /\ \A k \in J : (\A j \in J : k.n <= j.n) => Pre(k.op) = state
  /\ \A k \in J : (\A j \in J : j.n <= k.n) => Post(k.op) = final
  /\ \A k, j \in J :
       k.n < j.n /\ (\A i \in J : i.n <= k.n \/ j.n <= i.n) => Post(k.op) = Pre(j.op)

(* The first is done.                                                      *)
LEMMA ReplayFirst ==
  ASSUME NEW J \in SUBSET Mutation, NEW state, NEW final, NEW h \in J,
         \A j \in J : h.n <= j.n, \A k, j \in J : k.n = j.n => k = j,
         Replays(J, state, final)
  PROVE  Pre(h.op) = state /\ Replays(J \ {h}, Post(h.op), final)
<1> DEFINE K == J \ {h}
<1>1. MaxOps \in Nat BY ProjectMoveAssumption
<1>2. \A k \in J : k.n \in Nat BY <1>1 DEF Mutation
<1>3. Pre(h.op) = state BY DEF Replays
<1>4. K = {} => Post(h.op) = final
  <2>1. K = {} => \A j \in J : j.n <= h.n BY <1>2
  <2> QED BY <2>1 DEF Replays
<1>5. ASSUME NEW k \in K, \A j \in K : k.n <= j.n PROVE Pre(k.op) = Post(h.op)
  <2>1. h.n < k.n BY <1>2
  <2>2. \A i \in J : i.n <= h.n \/ k.n <= i.n BY <1>2, <1>5
  <2> QED BY <2>1, <2>2 DEF Replays
<1>6. ASSUME NEW k \in K, \A j \in K : j.n <= k.n PROVE Post(k.op) = final
  <2>1. \A j \in J : j.n <= k.n BY <1>6
  <2> QED BY <2>1 DEF Replays
<1>7. ASSUME NEW k \in K, NEW j \in K, k.n < j.n,
             \A i \in K : i.n <= k.n \/ j.n <= i.n
      PROVE  Post(k.op) = Pre(j.op)
  <2>1. \A i \in J : i.n <= k.n \/ j.n <= i.n BY <1>7
  <2> QED BY <1>7, <2>1 DEF Replays
<1>8. Replays(K, Post(h.op), final) BY <1>4, <1>5, <1>6, <1>7 DEF Replays
<1> QED BY <1>3, <1>8

(* One more, after all of them.                                            *)
LEMMA ReplayNext ==
  ASSUME NEW J \in SUBSET Mutation, NEW state, NEW final, NEW e \in Mutation,
         \A j \in J : j.n < e.n, Pre(e.op) = final, Replays(J, state, final)
  PROVE  Replays(J \union {e}, state, Post(e.op))
<1> DEFINE K == J \union {e}
<1>1. MaxOps \in Nat BY ProjectMoveAssumption
<1>2. \A k \in K : k.n \in Nat BY <1>1 DEF Mutation
<1>3. ASSUME NEW k \in K, \A j \in K : k.n <= j.n PROVE Pre(k.op) = state
  <2>1. CASE k = e
    <3>1. J = {} BY <1>2, <1>3, <2>1
    <3> QED BY <2>1, <3>1 DEF Replays
  <2>2. CASE k \in J BY <1>3, <2>2 DEF Replays
  <2> QED BY <2>1, <2>2
<1>4. ASSUME NEW k \in K, \A j \in K : j.n <= k.n PROVE k = e
  <2>1. e.n <= k.n BY <1>4
  <2> QED BY <1>2, <2>1
<1>5. ASSUME NEW k \in K, NEW j \in K, k.n < j.n,
             \A i \in K : i.n <= k.n \/ j.n <= i.n
      PROVE  Post(k.op) = Pre(j.op)
  <2>1. k \in J /\ \A i \in J : i.n <= k.n \/ j.n <= i.n BY <1>2, <1>5
  <2>2. CASE j = e
    <3>1. \A i \in J : i.n <= k.n BY <1>2, <2>1, <2>2
    <3> QED BY <2>1, <2>2, <3>1 DEF Replays
  <2>3. CASE j \in J BY <1>5, <2>1, <2>3 DEF Replays
  <2> QED BY <2>2, <2>3
<1>6. K # {} OBVIOUS
<1> HIDE DEF K
<1>7. Replays(K, state, Post(e.op)) BY <1>3, <1>4, <1>5, <1>6 DEF Replays
<1> QED BY <1>7 DEF K

(* The same changes under another project.                                 *)
LEMMA ReplayRekeyed ==
  ASSUME NEW J, NEW K, NEW state, NEW final, Replays(J, state, final),
         \A k \in K : \E j \in J : j.op = k.op /\ j.n = k.n,
         \A j \in J : \E k \in K : j.op = k.op /\ j.n = k.n
  PROVE  Replays(K, state, final)
<1>1. K = {} => state = final
  <2>1. K = {} => J = {} OBVIOUS
  <2> QED BY <2>1 DEF Replays
<1>2. ASSUME NEW k \in K, \A j \in K : k.n <= j.n PROVE Pre(k.op) = state
  <2>1. PICK i \in J : i.op = k.op /\ i.n = k.n OBVIOUS
  <2>2. \A j \in J : i.n <= j.n BY <1>2, <2>1
  <2> QED BY <2>1, <2>2 DEF Replays
<1>3. ASSUME NEW k \in K, \A j \in K : j.n <= k.n PROVE Post(k.op) = final
  <2>1. PICK i \in J : i.op = k.op /\ i.n = k.n OBVIOUS
  <2>2. \A j \in J : j.n <= i.n BY <1>3, <2>1
  <2> QED BY <2>1, <2>2 DEF Replays
<1>4. ASSUME NEW k \in K, NEW j \in K, k.n < j.n,
             \A i \in K : i.n <= k.n \/ j.n <= i.n
      PROVE  Post(k.op) = Pre(j.op)
  <2>1. PICK a \in J : a.op = k.op /\ a.n = k.n OBVIOUS
  <2>2. PICK b \in J : b.op = j.op /\ b.n = j.n OBVIOUS
  <2>3. \A i \in J : i.n <= a.n \/ b.n <= i.n BY <1>4, <2>1, <2>2
  <2>4. a.n < b.n BY <1>4, <2>1, <2>2
  <2>5. Post(a.op) = Pre(b.op) BY <2>3, <2>4 DEF Replays
  <2> QED BY <2>1, <2>2, <2>5
<1> QED BY <1>1, <1>2, <1>3, <1>4 DEF Replays

-----------------------------------------------------------------------------
(* Where every change is: done at the server, or still pending.            *)
Same(e, f) == e.op = f.op /\ e.mem = f.mem /\ e.n = f.n
Exists(m) == remote[m].state # "none"
Effected(e) == Id(e) \in seen \/ (e.op = "create" /\ Exists(e.mem))
Left(m) == {e \in pending : e.mem = m /\ e.op # "reproject" /\ ~Effected(e)}
Moving(m) == \E e \in pending : e.op = "reproject" /\ e.mem = m

(* The journal: its payloads name the device's project, reprojects come    *)
(* after the promotion and only for what is known to be at the server, and *)
(* a memory's create is its first change.                                  *)
JournaledAs(e) ==
  /\ e.project = home /\ memories[e.mem] # "none"
  /\ e.op = "reproject" => e.n = 0 /\ home = "B" /\ e.mem \in present
  /\ e.op # "reproject" => e.n \in 1 .. made
  /\ \A f \in pending : e.mem = f.mem /\ e.n = f.n => e = f
  /\ \A f \in pending :
       e.op = "create" /\ f.mem = e.mem /\ f.op # "reproject" => e.n <= f.n
Journaled == \A e \in pending : JournaledAs(e)

Placed(m) ==
  Exists(m) => \/ remote[m].project = home
               \/ home = "B" /\ Moving(m) /\ remote[m].project = "A"
Replaying(m) == Replays(Left(m), remote[m].state, memories[m])
Applied ==
  \A e \in Mutation : Id(e) \in seen =>
    /\ Exists(e.mem) /\ e.n <= made
    /\ e.op = "reproject" => remote[e.mem].project = "B" /\ e.n = 0
Evident ==
  \A m \in Memory :
    /\ m \in present => Exists(m)
    /\ Exists(m) \/ m \in unsynced => memories[m] # "none"
    /\ memories[m] # "none" /\ m \notin present =>
         \E e \in pending : e.op = "create" /\ e.mem = m
Agreed ==
  /\ Journaled /\ Applied /\ Evident /\ rejected = {}
  /\ \A m \in Memory : Placed(m) /\ Replaying(m)

(* A Drain works for the device's project, and its answer refuses nothing  *)
(* and confirms what is so.                                                *)
Done(e) ==
  Exists(e.mem) /\ IF e.op = "reproject" THEN remote[e.mem].project = "B" ELSE Effected(e)
AnsweredWell(p) ==
  /\ reply[p].refused = {}
  /\ \A e \in reply[p].confirmed : Done(e)
  /\ \A m \in reply[p].pulled : Exists(m)
  /\ phase[p] = "ack" /\ ~reply[p].v2 => \A m \in batch[p].rows : Exists(m)
WorksFor(p) ==
  /\ lease[p] # "" => lease[p] = home
  /\ \A m \in batch[p].rows : memories[m] # "none"
  /\ phase[p] \in {"ack", "reject", "confirm"} => AnsweredWell(p)

(* A request carries every change that must be applied before one of its   *)
(* own, and under the name its memories have or will have by then.         *)
CarriesIn(e, r) ==
  /\ e.project = r.project /\ memories[e.mem] # "none" /\ e.mem \in present \union sent
  /\ \A f \in r.muts : e.mem = f.mem /\ e.n = f.n => e = f
  /\ e.op = "reproject" => e.n = 0 /\ e.mem \in present /\ r.project = "B"
  /\ e.op # "reproject" =>
       /\ e.n \in 1 .. made
       /\ Effected(e) \/ \E f \in pending : Same(e, f)
       /\ ~Effected(e) =>
            \A k \in Left(e.mem) : k.n < e.n => \E f \in r.muts : Same(f, k)
       /\ r.project = "B" /\ Exists(e.mem) /\ remote[e.mem].project = "A" =>
            \E f \in r.muts : f.op = "reproject" /\ f.mem = e.mem
Carried(r) ==
  /\ \A e \in r.muts : CarriesIn(e, r)
  /\ \A m \in r.rows : memories[m] # "none"
  /\ r.project = "B" => home = "B"
(* One sent before the promotion holds nothing the server may not have.    *)
Outlived(r) ==
  home = "B" /\ r.project = "A" =>
    /\ \A e \in r.muts : e.mem \in present
    /\ r.muts = {} => r.rows \subseteq present
Marked(r) ==
  r.muts = {} => \A m \in r.rows : m \in present \/ <<r.from, m>> \in rowMarks

(* What the server has, the device knows to be there or possibly there.    *)
Suspected(m) ==
  \/ m \in present \union sent \/ <<Lost, m>> \in rowMarks
  \/ \E p \in Daemon : /\ phase[p] = "ack" /\ ~reply[p].v2
                       /\ m \in batch[p].rows /\ <<p, m>> \in rowMarks

Following ==
  /\ Agreed
  /\ \A p \in Daemon : WorksFor(p)
  /\ \A r \in wire : Carried(r) /\ Outlived(r) /\ Marked(r)
  /\ \A m \in Memory : Exists(m) => Suspected(m)

(* Steps that only add to what is known, done or made.                     *)
Grows ==
  /\ present \subseteq present' /\ sent \subseteq sent' /\ seen \subseteq seen'
  /\ made <= made' /\ (home = "B" => home' = "B")
  /\ \A m \in Memory : memories[m] # "none" => memories'[m] # "none"
  /\ \A m \in Memory : Exists(m) => Exists(m)'
  /\ \A m \in Memory : Exists(m) /\ remote[m].project = "B" => remote'[m].project = "B"
  /\ \A m \in Memory : Exists(m)' /\ remote'[m].project = "A" /\ home' = "B" =>
       Exists(m) /\ remote[m].project = "A"
  /\ \A e \in pending : e.op # "reproject" =>
       Effected(e)' \/ \E f \in pending' : Same(e, f)
  /\ \A k \in pending' : k.op # "reproject" =>
       k.n > made \/ \E j \in pending : Same(j, k)

LEMMA SameIs ==
  ASSUME NEW e, NEW f
  PROVE  Same(e, f) <=> Id(e) = Id(f)
BY DEF Same, Id

LEMMA EffectedSame ==
  ASSUME NEW e, NEW f, Same(e, f)
  PROVE  Effected(e) <=> Effected(f)
BY SameIs DEF Effected, Same

LEMMA EffectedStays ==
  ASSUME Grows, NEW e \in Mutation, Effected(e)
  PROVE  Effected(e)'
<1>1. e.mem \in Memory BY DEF Mutation
<1> QED BY <1>1 DEF Grows, Effected, Id

LEMMA CarriedStays ==
  ASSUME TypeOK, TypeOK', Grows, NEW r \in Request, Carried(r)
  PROVE  Carried(r)'
<1>1. /\ made \in Nat /\ made' \in Nat /\ made <= made'
      /\ pending \subseteq Mutation /\ pending' \subseteq Mutation
  <2>1. /\ made \in 0 .. MaxOps /\ made' \in 0 .. MaxOps /\ MaxOps \in Nat
        /\ pending \subseteq Mutation /\ pending' \subseteq Mutation
    BY ProjectMoveAssumption DEF TypeOK
  <2> QED BY <2>1 DEF Grows
<1>2. r.muts \subseteq Mutation /\ r.rows \subseteq Memory BY DEF Request
<1>3. \A e \in Mutation : e.mem \in Memory /\ e.n \in Nat
  BY ProjectMoveAssumption DEF Mutation
<1>4. ASSUME NEW e \in r.muts PROVE CarriesIn(e, r)'
  <2>1. CarriesIn(e, r) /\ e \in Mutation /\ e.mem \in Memory /\ e.n \in Nat
    BY <1>2, <1>3 DEF Carried
  <2>2. /\ e.project = r.project /\ memories'[e.mem] # "none"
        /\ e.mem \in present' \union sent'
        /\ \A f \in r.muts : e.mem = f.mem /\ e.n = f.n => e = f
        /\ e.op = "reproject" => e.n = 0 /\ e.mem \in present' /\ r.project = "B"
    BY <2>1 DEF CarriesIn, Grows
  <2>3. ASSUME e.op # "reproject" PROVE e.n \in 1 .. made'
    <3>1. e.n \in 1 .. made BY <2>1, <2>3 DEF CarriesIn
    <3> QED BY <1>1, <3>1
  <2>4. ASSUME e.op # "reproject"
        PROVE  Effected(e)' \/ \E f \in pending' : Same(e, f)
    <3>1. CASE Effected(e) BY <2>1, <3>1, EffectedStays
    <3>2. CASE ~Effected(e)
      <4>1. PICK f \in pending : Same(e, f) BY <2>1, <2>4, <3>2 DEF CarriesIn
      <4>2. f.op # "reproject" BY <2>4, <4>1 DEF Same
      <4>3. CASE Effected(f)'
        <5>1. Effected(e)' BY <4>1, <4>3 DEF Same, Effected, Id
        <5> QED BY <5>1
      <4>4. CASE \E h \in pending' : Same(f, h) BY <4>1, <4>4 DEF Same
      <4> QED BY <4>2, <4>3, <4>4 DEF Grows
    <3> QED BY <3>1, <3>2
  <2>5. ASSUME e.op # "reproject", ~Effected(e)', NEW k \in Left(e.mem)', k.n < e.n
        PROVE  \E f \in r.muts : Same(f, k)
    <3>1. k \in pending' /\ k.mem = e.mem /\ k.op # "reproject" /\ ~Effected(k)'
      BY <2>5 DEF Left
    <3>2. k.n <= made
      <4>1. e.n \in 1 .. made /\ k.n \in Nat BY <1>1, <1>3, <2>1, <2>5, <3>1 DEF CarriesIn
      <4> QED BY <1>1, <2>5, <4>1
    <3>3. ~(k.n > made) BY <1>1, <1>3, <3>1, <3>2
    <3>4. PICK j \in pending : Same(j, k) BY <3>1, <3>3 DEF Grows
    <3>5. ~Effected(j)
      <4>1. SUFFICES ASSUME Effected(j) PROVE FALSE OBVIOUS
      <4>2. Effected(j)' BY <1>1, <4>1, EffectedStays
      <4> QED BY <3>1, <3>4, <4>2 DEF Same, Effected, Id
    <3>6. j \in Left(e.mem) BY <3>1, <3>4, <3>5 DEF Left, Same
    <3>7. ~Effected(e) BY <2>1, <2>5, EffectedStays
    <3>8. j.n < e.n BY <2>5, <3>4 DEF Same
    <3>9. PICK f \in r.muts : Same(f, j) BY <2>1, <2>5, <3>6, <3>7, <3>8 DEF CarriesIn
    <3> QED BY <3>4, <3>9 DEF Same
  <2>6. ASSUME e.op # "reproject", r.project = "B", Exists(e.mem)', remote'[e.mem].project = "A"
        PROVE  \E f \in r.muts : f.op = "reproject" /\ f.mem = e.mem
    <3>1. home' = "B" BY <2>6 DEF Carried, Grows
    <3>2. Exists(e.mem) /\ remote[e.mem].project = "A" BY <2>1, <2>6, <3>1 DEF Grows
    <3> QED BY <2>1, <2>6, <3>2 DEF CarriesIn
  <2>7. Left(e.mem)' = {k \in pending' : k.mem = e.mem /\ k.op # "reproject" /\ ~Effected(k)'}
    BY DEF Left
  <2>8. ASSUME e.op # "reproject", ~Effected(e)'
        PROVE  \A k \in Left(e.mem)' : k.n < e.n => \E f \in r.muts : Same(f, k)
    BY <2>5, <2>8
  <2> QED BY <2>2, <2>3, <2>4, <2>6, <2>8 DEF CarriesIn, Same
<1>5. \A m \in r.rows : memories'[m] # "none" BY <1>2 DEF Carried, Grows
<1>6. r.project = "B" => home' = "B" BY DEF Carried, Grows
<1> QED BY <1>4, <1>5, <1>6 DEF Carried

LEMMA DoneStays ==
  ASSUME Grows, NEW e \in Mutation, Done(e)
  PROVE  Done(e)'
<1>1. e.mem \in Memory BY DEF Mutation
<1>2. Effected(e) => Effected(e)' BY EffectedStays
<1> QED BY <1>1, <1>2 DEF Done, Grows

(* A daemon that keeps its lease and forgets, at most, part of its batch   *)
(* and its answer.                                                         *)
LEMMA WorksForStays ==
  ASSUME TypeOK, Grows, home' = home, NEW p \in Daemon, WorksFor(p),
         lease'[p] \in {lease[p], ""}, batch'[p].rows \subseteq batch[p].rows,
         phase'[p] \in {"ack", "reject", "confirm"} =>
           /\ phase[p] \in {"ack", "reject", "confirm"} /\ reply'[p] = reply[p]
           /\ phase'[p] = "ack" => phase[p] = "ack"
  PROVE  WorksFor(p)'
<1>1. batch[p].rows \subseteq Memory BY BatchType DEF Batch
<1>2. reply[p].confirmed \subseteq Mutation /\ reply[p].pulled \subseteq Memory
  BY ReplyType DEF Reply
<1>3. \A m \in batch'[p].rows : memories'[m] # "none" BY <1>1 DEF WorksFor, Grows
<1>4. lease'[p] # "" => lease'[p] = home' BY DEF WorksFor
<1>5. ASSUME phase'[p] \in {"ack", "reject", "confirm"} PROVE AnsweredWell(p)'
  <2>1. /\ AnsweredWell(p) /\ reply'[p] = reply[p] /\ (phase'[p] = "ack" => phase[p] = "ack")
    BY <1>5 DEF WorksFor
  <2>2. \A e \in reply[p].confirmed : Done(e)' BY <1>2, <2>1, DoneStays DEF AnsweredWell
  <2>3. \A m \in reply[p].pulled : Exists(m)' BY <1>2, <2>1 DEF AnsweredWell, Grows
  <2>4. phase'[p] = "ack" /\ ~reply'[p].v2 => \A m \in batch'[p].rows : Exists(m)'
    BY <1>1, <2>1 DEF AnsweredWell, Grows
  <2>5. /\ reply'[p].refused = {}
        /\ \A e \in reply'[p].confirmed : Done(e)'
        /\ \A m \in reply'[p].pulled : Exists(m)'
    BY <2>1, <2>2, <2>3 DEF AnsweredWell
  <2> QED BY <2>4, <2>5 DEF AnsweredWell, Done, Effected, Exists
<1> QED BY <1>3, <1>4, <1>5 DEF WorksFor, AnsweredWell, Done, Effected, Exists

LEMMA FollowingOf ==
  ASSUME TypeOK, TypeOK', Following, Grows, home' = home, Agreed',
         \A p \in Daemon : WorksFor(p)',
         \A r \in wire' : /\ Marked(r)'
                          /\ r \in wire \/ (Carried(r)' /\ Outlived(r)'),
         \A m \in Memory : Exists(m)' => Suspected(m)'
  PROVE  Following'
<1>1. wire \subseteq Request BY DEF TypeOK
<1>2. \A r \in wire : Carried(r)' BY <1>1, CarriedStays DEF Following
<1>3. \A r \in wire : Outlived(r)' BY DEF Following, Outlived, Grows
<1>4. \A r \in wire' : Carried(r)' BY <1>2
<1>5. \A r \in wire' : Outlived(r)' BY <1>3
<1>6. \A r \in wire' : Marked(r)' OBVIOUS
<1> DEFINE A == Agreed'
           B(p) == WorksFor(p)'
           C(r) == Carried(r)'
           D(r) == Outlived(r)'
           E(r) == Marked(r)'
           F(m) == Exists(m)'
           G(m) == Suspected(m)'
<1>7. /\ A /\ \A p \in Daemon : B(p)
      /\ \A r \in wire' : C(r) /\ D(r) /\ E(r)
      /\ \A m \in Memory : F(m) => G(m)
  BY <1>4, <1>5, <1>6
<1> QED BY <1>7 DEF Following

(* Neither the changes nor the server's tables are touched.                *)
LEMMA CalmStep ==
  ASSUME TypeOK, TypeOK', Agreed,
         UNCHANGED <<home, memories, pending, remote, seen, rejected>>, made' \in {made, made + 1},
         present \subseteq present', sent \subseteq sent', unsynced' \subseteq unsynced,
         \A m \in present' : Exists(m)
  PROVE  Agreed' /\ Grows
<1>1. made \in Nat
  <2>1. made \in 0 .. MaxOps /\ MaxOps \in Nat BY ProjectMoveAssumption DEF TypeOK
  <2> QED BY <2>1
<1>2. \A e \in pending : Effected(e)' <=> Effected(e) BY DEF Effected, Exists
<1>3. Grows BY <1>1 DEF Grows, Exists, Same
<1>4. Journaled'
  <2>1. ASSUME NEW e \in pending PROVE JournaledAs(e)'
    <3>1. \A n \in 1 .. made : n \in 1 .. made' BY <1>1
    <3> QED BY <3>1 DEF Agreed, Journaled, JournaledAs
  <2> QED BY <2>1 DEF Journaled, JournaledAs
<1>5. Applied'
  <2>1. \A n \in Nat : n <= made => n <= made' BY <1>1
  <2>2. \A e \in Mutation : e.n \in Nat BY ProjectMoveAssumption DEF Mutation
  <2> QED BY <2>1, <2>2 DEF Agreed, Applied, Exists
<1>6. Evident' BY DEF Agreed, Evident, Exists
<1>7. \A m \in Memory : Placed(m)' BY DEF Agreed, Placed, Exists, Moving
<1>8. \A m \in Memory : Replaying(m)'
  <2>1. \A m \in Memory : Left(m)' = Left(m) BY DEF Left, Effected, Exists
  <2> QED BY <2>1 DEF Agreed, Replaying
<1>9. Agreed'
  BY <1>4, <1>5, <1>6, <1>7, <1>8 DEF Agreed, Placed, Replaying, Exists, Moving, Left,
     Effected
<1> QED BY <1>3, <1>9

LEMMA CalmFollowing ==
  ASSUME TypeOK, TypeOK', Following, NEW p \in Daemon,
         UNCHANGED <<home, memories, pending, made, remote, seen, rejected>>,
         present \subseteq present', sent \subseteq sent', unsynced' \subseteq unsynced,
         \A m \in present' : Exists(m),
         \A q \in Daemon \ {p} : /\ lease'[q] = lease[q] /\ batch'[q] = batch[q]
                                 /\ reply'[q] = reply[q] /\ phase'[q] = phase[q],
         WorksFor(p)',
         \A r \in wire' : /\ Marked(r)'
                          /\ r \in wire \/ (Carried(r)' /\ Outlived(r)'),
         \A m \in Memory : Exists(m) /\ Suspected(m) => Suspected(m)'
  PROVE  Following'
<1>1. Agreed' /\ Grows BY CalmStep DEF Following
<1>2. ASSUME NEW q \in Daemon PROVE WorksFor(q)'
  <2>1. CASE q = p BY <2>1
  <2>2. CASE q # p
    <3>1. WorksFor(q) BY DEF Following
    <3>2. /\ lease'[q] = lease[q] /\ batch'[q] = batch[q]
          /\ reply'[q] = reply[q] /\ phase'[q] = phase[q]
      BY <2>2
    <3> QED BY <1>1, <3>1, <3>2, WorksForStays
  <2> QED BY <2>1, <2>2
<1>3. \A m \in Memory : Exists(m)' => Suspected(m)' BY DEF Following, Exists
<1> QED BY <1>1, <1>2, <1>3, FollowingOf

(* Steps of a Drain that change nothing but its phase and its batch.       *)
LEMMA QuietFollows ==
  ASSUME TypeOK, TypeOK', Following, NEW p \in Daemon,
         UNCHANGED <<home, memories, unsynced, pending, evidence, made, remote, seen,
                     reply, wire>>,
         \A q \in Daemon \ {p} :
           lease'[q] = lease[q] /\ batch'[q] = batch[q] /\ phase'[q] = phase[q],
         phase[p] = "ack" => phase'[p] = "ack" /\ batch'[p].rows = batch[p].rows,
         phase'[p] \in {"ack", "reject", "confirm"} => phase[p] = "ack" /\ phase'[p] = "ack",
         lease'[p] # "" => lease'[p] = home,
         \A m \in batch'[p].rows : memories[m] # "none"
  PROVE  Following'
<1>1. UNCHANGED <<rejected, present, rowMarks, sent>> BY DEF evidence
<1>2. \A m \in present' : Exists(m)
  BY <1>1 DEF Following, Agreed, Evident, TypeOK
<1>3. WorksFor(p) BY DEF Following
<1>4. WorksFor(p)'
  <2>1. CASE phase'[p] \in {"ack", "reject", "confirm"}
    <3>1. AnsweredWell(p) /\ phase[p] = "ack" /\ phase'[p] = "ack"
          /\ batch'[p].rows = batch[p].rows
      BY <1>3, <2>1 DEF WorksFor
    <3>2. AnsweredWell(p)' BY <3>1 DEF AnsweredWell, Done, Effected, Exists
    <3> QED BY <3>2 DEF WorksFor, AnsweredWell, Done, Effected, Exists
  <2>2. CASE ~(phase'[p] \in {"ack", "reject", "confirm"}) BY <2>2 DEF WorksFor
  <2> QED BY <2>1, <2>2
<1>5. \A r \in wire' : Marked(r)' /\ r \in wire BY <1>1 DEF Following, Marked
<1>6. ASSUME NEW m \in Memory, Suspected(m) PROVE Suspected(m)'
  <2>1. CASE m \in present \union sent \/ <<Lost, m>> \in rowMarks
    BY <1>1, <2>1 DEF Suspected
  <2>2. ASSUME NEW q \in Daemon, phase[q] = "ack", ~reply[q].v2, m \in batch[q].rows,
               <<q, m>> \in rowMarks
        PROVE  Suspected(m)'
    <3>1. phase'[q] = "ack" /\ m \in batch'[q].rows BY <2>2
    <3> QED BY <1>1, <2>2, <3>1 DEF Suspected
  <2> QED BY <1>6, <2>1, <2>2 DEF Suspected
<1> QED BY <1>1, <1>2, <1>4, <1>5, <1>6, CalmFollowing

LEMMA ReadsFollow ==
  ASSUME TypeOK, TypeOK', Wiring, Following, NEW p \in Daemon,
         \/ BeginDrain(p) \/ PassGate(p) \/ ReadRows(p) \/ AckSession(p)
         \/ NextBatch(p) \/ EndDrain(p)
  PROVE  Following'
<1>1. /\ phase \in [Daemon -> Phase] /\ lease \in [Daemon -> Project \union {""}]
      /\ batch \in [Daemon -> Batch] /\ unsynced \subseteq Memory
  BY DEF TypeOK
<1>2. UNCHANGED <<home, memories, unsynced, pending, evidence, made, remote, seen,
                  reply, wire>>
  BY DEF BeginDrain, PassGate, ReadRows, AckSession, NextBatch, EndDrain, device, server
<1>3. /\ \A m \in batch[p].rows : memories[m] # "none"
      /\ lease[p] # "" => lease[p] = home
  BY DEF Following, WorksFor
<1>4. ASSUME NEW f \in Phase, phase' = [phase EXCEPT ![p] = f],
             f \notin {"ack", "reject", "confirm"}, phase[p] # "ack",
             \A q \in Daemon \ {p} : lease'[q] = lease[q] /\ batch'[q] = batch[q],
             lease'[p] # "" => lease'[p] = home,
             \A m \in batch'[p].rows : memories[m] # "none"
      PROVE  Following'
  <2>1. phase'[p] = f /\ \A q \in Daemon \ {p} : phase'[q] = phase[q] BY <1>4, PhaseOf
  <2> QED BY <1>2, <1>4, <2>1, QuietFollows
<1>5. CASE BeginDrain(p)
  <2>1. /\ phase[p] = "idle" /\ phase' = [phase EXCEPT ![p] = "sessions"]
        /\ lease' = [lease EXCEPT ![p] = home] /\ batch' = batch
    BY <1>5 DEF BeginDrain
  <2>2. lease'[p] = home /\ \A q \in Daemon \ {p} : lease'[q] = lease[q] BY <1>1, <2>1
  <2> QED BY <1>3, <1>4, <2>1, <2>2 DEF Phase
<1>6. CASE PassGate(p) BY <1>3, <1>4, <1>6 DEF PassGate, Phase
<1>7. CASE ReadRows(p)
  <2>1. PICK R \in SUBSET UnsyncedRows(p) : batch' = [batch EXCEPT ![p].rows = R]
    BY <1>7 DEF ReadRows
  <2>2. phase[p] = "rows" /\ phase' = [phase EXCEPT ![p] = "mutations"] /\ lease' = lease
    BY <1>7 DEF ReadRows
  <2>3. UnsyncedRows(p) \subseteq unsynced BY DEF UnsyncedRows
  <2>4. batch'[p].rows = R /\ \A q \in Daemon \ {p} : batch'[q] = batch[q]
    BY <1>1, <2>1 DEF Batch
  <2>5. \A m \in batch'[p].rows : memories[m] # "none"
    BY <1>1, <2>3, <2>4 DEF Following, Agreed, Evident
  <2> QED BY <1>3, <1>4, <2>2, <2>4, <2>5 DEF Phase
<1>8. CASE AckSession(p)
  <2>1. /\ phase[p] = "ack" /\ UNCHANGED <<phase, lease>>
        /\ batch' = [batch EXCEPT ![p].session = NoSession]
    BY <1>8 DEF AckSession
  <2>2. batch'[p].rows = batch[p].rows /\ \A q \in Daemon \ {p} : batch'[q] = batch[q]
    BY <1>1, <2>1 DEF Batch
  <2> QED BY <1>2, <1>3, <2>1, <2>2, QuietFollows
<1>9. CASE NextBatch(p) BY <1>3, <1>4, <1>9 DEF NextBatch, Phase
<1>10. CASE EndDrain(p)
  <2>1. /\ phase[p] = "between" /\ phase' = [phase EXCEPT ![p] = "idle"]
        /\ lease' = [lease EXCEPT ![p] = ""] /\ batch' = batch
    BY <1>10 DEF EndDrain
  <2>2. lease'[p] = "" /\ \A q \in Daemon \ {p} : lease'[q] = lease[q] BY <1>1, <2>1
  <2> QED BY <1>3, <1>4, <2>1, <2>2 DEF Phase
<1> QED BY <1>5, <1>6, <1>7, <1>8, <1>9, <1>10

(* A page of the journal leaves out nothing that must go before.           *)
LEMMA PageCarries ==
  ASSUME TypeOK, Following, NEW p, home = lease[p], NEW P \in SUBSET pending,
         IsPage(P, pending), NEW r, r.muts = Sendable(p, P), r.project = home,
         NEW e \in r.muts
  PROVE  /\ e \in pending
         /\ \A k \in pending : k.op # "reproject" /\ e.op # "reproject"
              /\ k.mem = e.mem /\ k.n < e.n => k \in r.muts
         /\ \A k \in pending : k.op = "reproject" /\ e.op # "reproject"
              /\ k.mem = e.mem => k \in r.muts
<1>1. r.muts = IF knows[p] THEN P
               ELSE {f \in P : \A k \in P : k.op = "reproject" => k.mem # f.mem}
  BY DEF Sendable
<1>2. r.muts \subseteq P BY <1>1
<1>3. \A k \in pending : k \in P \/ ~Precedes(k, e) BY <1>2 DEF IsPage
<1>4. ASSUME NEW k \in pending, k.op # "reproject", e.op # "reproject",
             k.mem = e.mem, k.n < e.n
      PROVE  k \in r.muts
  <2>1. k \in P BY <1>3, <1>4 DEF Precedes
  <2> QED BY <1>1, <1>4, <2>1
<1>5. ASSUME NEW k \in pending, k.op = "reproject", e.op # "reproject", k.mem = e.mem
      PROVE  k \in r.muts
  <2>1. k \in P BY <1>3, <1>5 DEF Precedes
  <2> QED BY <1>1, <1>5, <2>1
<1> QED BY <1>2, <1>4, <1>5

LEMMA PushesFollow ==
  ASSUME TypeOK, TypeOK', Wiring, Following, NEW p \in Daemon,
         PushSession(p) \/ PushRows(p)
  PROVE  Following'
<1>1. /\ phase \in [Daemon -> Phase] /\ batch \in [Daemon -> Batch]
      /\ pending \subseteq Mutation
  BY DEF TypeOK
<1>2. /\ phase[p] \in {"sessions", "mutations"}
      /\ phase' = [phase EXCEPT ![p] = "wait"] /\ UNCHANGED <<lease, reply>>
      /\ UNCHANGED <<home, memories, unsynced, pending, present, made, remote, seen, rejected>>
      /\ rowMarks \subseteq rowMarks' /\ sent \subseteq sent'
  BY DEF PushSession, PushRows, device, evidence, server
<1>3. lease[p] = home
  <2>1. lease[p] # "" BY <1>2 DEF Wiring, Leasing
  <2> QED BY <2>1 DEF Following, WorksFor
<1>4. phase'[p] = "wait" /\ \A q \in Daemon \ {p} : phase'[q] = phase[q]
  BY <1>2, PhaseOf
<1>5. \A m \in batch[p].rows : memories[m] # "none" BY DEF Following, WorksFor
<1>6. \A q \in Daemon \ {p} : batch'[q] = batch[q]
  BY <1>1 DEF PushSession, PushRows
<1>7. batch'[p].rows = batch[p].rows BY <1>1 DEF PushSession, PushRows, Batch
<1>8. WorksFor(p)' BY <1>2, <1>3, <1>4, <1>5, <1>7 DEF WorksFor
<1>9. \A m \in present' : Exists(m) BY <1>2 DEF Following, Agreed, Evident, TypeOK
<1>10. ASSUME NEW m \in Memory, Suspected(m) PROVE Suspected(m)'
  <2>1. CASE m \in present \union sent \/ <<Lost, m>> \in rowMarks
    BY <1>2, <2>1 DEF Suspected
  <2>2. ASSUME NEW q \in Daemon, phase[q] = "ack", ~reply[q].v2, m \in batch[q].rows,
               <<q, m>> \in rowMarks
        PROVE  Suspected(m)'
    <3>1. q # p BY <1>2, <2>2
    <3>2. phase'[q] = "ack" /\ m \in batch'[q].rows BY <1>4, <1>6, <2>2, <3>1
    <3> QED BY <1>2, <2>2, <3>2 DEF Suspected
  <2> QED BY <1>10, <2>1, <2>2 DEF Suspected
<1>11. \A r \in wire : Marked(r)' BY <1>2 DEF Following, Marked
<1>12. ASSUME NEW r, wire' = wire \union {r}, Marked(r)', Carried(r)', Outlived(r)'
       PROVE  Following'
  <2>1. \A s \in wire' : /\ Marked(s)'
                         /\ s \in wire \/ (Carried(s)' /\ Outlived(s)')
    BY <1>11, <1>12
  <2> QED BY <1>2, <1>4, <1>6, <1>8, <1>9, <1>10, <2>1, CalmFollowing
<1>13. CASE PushSession(p)
  <2>0. PICK r : r = SyncRequest(p, UnsyncedSession(p), {}, {}) OBVIOUS
  <2>1. wire' = wire \union {r} BY <1>13, <2>0 DEF PushSession
  <2>2. r.project = home /\ r.rows = {} /\ r.muts = {} BY <1>3, <2>0 DEF SyncRequest
  <2>3. Marked(r)' BY <2>2 DEF Marked
  <2>4. Carried(r)' BY <1>2, <2>2 DEF Carried
  <2>5. Outlived(r)' BY <1>2, <2>2 DEF Outlived
  <2> QED BY <1>12, <2>1, <2>3, <2>4, <2>5
<1>14. CASE PushRows(p)
  <2>1. PendingMutations(p) = pending BY <1>3 DEF PendingMutations
  <2>2. PICK P \in SUBSET pending :
          LET out == Sendable(p, P) IN
          /\ IsPage(P, pending)
          /\ rowMarks' = rowMarks \union ({p} \X batch[p].rows)
          /\ sent' = sent \union {e.mem : e \in {k \in out : k.op = "create"}}
          /\ wire' = wire \union {SyncRequest(p, NoSession, batch[p].rows, out)}
    BY <1>14, <2>1 DEF PushRows
  <2>0. PICK r : r = SyncRequest(p, NoSession, batch[p].rows, Sendable(p, P)) OBVIOUS
  <2>3. /\ r.project = home /\ r.rows = batch[p].rows /\ r.muts = Sendable(p, P)
        /\ r.from = p
    BY <1>3, <2>0 DEF SyncRequest
  <2>4. wire' = wire \union {r} BY <2>2, <2>0
  <2>5. sent' = sent \union {e.mem : e \in {k \in r.muts : k.op = "create"}}
    BY <2>2, <2>3
  <2>6. Marked(r)' BY <2>2, <2>3 DEF Marked
  <2>7. Outlived(r)' BY <1>2, <2>3 DEF Outlived
  <2>8. ASSUME NEW e \in r.muts PROVE CarriesIn(e, r)'
    <3>1. /\ e \in pending
          /\ \A k \in pending : k.op # "reproject" /\ e.op # "reproject"
               /\ k.mem = e.mem /\ k.n < e.n => k \in r.muts
          /\ \A k \in pending : k.op = "reproject" /\ e.op # "reproject"
               /\ k.mem = e.mem => k \in r.muts
      BY <1>3, <2>2, <2>3, PageCarries
    <3>2. JournaledAs(e) /\ e.mem \in Memory
      BY <1>1, <3>1 DEF Following, Agreed, Journaled, Mutation
    <3>3. r.muts \subseteq pending BY <2>3 DEF Sendable
    <3>4. e.mem \in present \union sent'
      <4>1. CASE e.mem \in present BY <4>1
      <4>2. CASE e.mem \notin present
        <5>1. PICK c \in pending : c.op = "create" /\ c.mem = e.mem
          BY <3>2, <4>2 DEF Following, Agreed, Evident, JournaledAs
        <5>2. e.op # "reproject" BY <3>2, <4>2 DEF JournaledAs
        <5>3. c.n <= e.n /\ (c.n = e.n => c = e)
          BY <3>1, <5>1, <5>2 DEF Following, Agreed, Journaled, JournaledAs
        <5>4. c.n \in Nat /\ e.n \in Nat
          BY <1>1, <3>1, ProjectMoveAssumption DEF Mutation
        <5>5. c \in r.muts BY <3>1, <5>1, <5>2, <5>3, <5>4
        <5> QED BY <2>5, <5>1, <5>5
      <4> QED BY <4>1, <4>2
    <3>5. ASSUME e.op # "reproject", r.project = "B", Exists(e.mem),
                 remote[e.mem].project = "A"
          PROVE  \E f \in r.muts : f.op = "reproject" /\ f.mem = e.mem
      <4>1. home = "B" BY <2>3, <3>5
      <4>2. PICK k \in pending : k.op = "reproject" /\ k.mem = e.mem
        BY <3>2, <3>5, <4>1 DEF Following, Agreed, Placed, Moving
      <4> QED BY <3>1, <3>5, <4>2
    <3>6. ASSUME e.op # "reproject", NEW k \in Left(e.mem), k.n < e.n
          PROVE  \E f \in r.muts : Same(f, k)
      BY <3>1, <3>6 DEF Left, Same
    <3>8. /\ e.project = r.project /\ memories'[e.mem] # "none"
          /\ e.mem \in present' \union sent'
          /\ \A f \in r.muts : e.mem = f.mem /\ e.n = f.n => e = f
          /\ e.op = "reproject" => e.n = 0 /\ e.mem \in present' /\ r.project = "B"
          /\ e.op # "reproject" => e.n \in 1 .. made'
      BY <1>2, <2>3, <3>2, <3>3, <3>4 DEF JournaledAs
    <3>9. e \in pending' /\ Same(e, e) BY <1>2, <3>1 DEF Same
    <3>10. Left(e.mem)' = Left(e.mem) BY <1>2 DEF Left, Effected, Exists
    <3>11. ASSUME e.op # "reproject"
           PROVE  \A k \in Left(e.mem)' : k.n < e.n => \E f \in r.muts : Same(f, k)
      BY <3>6, <3>10, <3>11
    <3>12. ASSUME e.op # "reproject", r.project = "B", Exists(e.mem)',
                  remote'[e.mem].project = "A"
           PROVE  \E f \in r.muts : f.op = "reproject" /\ f.mem = e.mem
      BY <1>2, <3>5, <3>12 DEF Exists
    <3>13. \E f \in pending' : Same(e, f) BY <3>9
    <3> QED BY <3>8, <3>11, <3>12, <3>13 DEF CarriesIn, Same
  <2>9. Carried(r)'
    <3>1. \A m \in r.rows : memories'[m] # "none" BY <1>2, <1>5, <2>3
    <3>2. r.project = "B" => home' = "B" BY <1>2, <2>3
    <3> QED BY <2>8, <3>1, <3>2 DEF Carried
  <2> QED BY <1>12, <2>4, <2>6, <2>7, <2>9
<1> QED BY <1>13, <1>14

LEMMA AnswersFollow ==
  ASSUME TypeOK, TypeOK', Wiring, Following, NEW p \in Daemon,
         \/ ResolveRows(p) \/ (\E m \in Memory : MarkSynced(p, m))
         \/ SavePulled(p) \/ MarkRejected(p)
  PROVE  Following'
<1>1. /\ phase \in [Daemon -> Phase] /\ batch \in [Daemon -> Batch]
      /\ reply \in [Daemon -> Reply] /\ present \subseteq Memory
      /\ rowMarks \subseteq (Daemon \union {Lost}) \X Memory
  BY DEF TypeOK
<1>2. /\ phase[p] \in {"ack", "reject"}
      /\ UNCHANGED <<home, memories, made, remote, seen, sent, lease, wire>>
      /\ present \subseteq present' /\ unsynced' \subseteq unsynced
  BY DEF ResolveRows, MarkSynced, SavePulled, MarkRejected, server
<1>3. WorksFor(p) /\ AnsweredWell(p) BY <1>2 DEF Following, WorksFor
<1>4. UNCHANGED <<pending, rejected>>
  <2>1. CASE MarkRejected(p)
    <3>1. reply[p].refused = {} /\ rejected = {} BY <1>3 DEF AnsweredWell, Following, Agreed
    <3>2. \A P : Without(P, {}) = P BY DEF Without
    <3> QED BY <2>1, <3>1, <3>2 DEF MarkRejected
  <2>2. CASE ~MarkRejected(p) BY <2>2 DEF ResolveRows, MarkSynced, SavePulled
  <2> QED BY <2>1, <2>2
<1>5. \A r \in wire : r.from # p BY <1>2 DEF Wiring, OnWire
<1>6. Lost # p BY ProjectMoveAssumption
<1>7. ASSUME \A m \in present' : Exists(m),
             \A q \in Daemon \ {p} : /\ batch'[q] = batch[q]
                                     /\ reply'[q] = reply[q] /\ phase'[q] = phase[q],
             batch'[p].rows \subseteq batch[p].rows,
             phase'[p] \in {"ack", "reject", "confirm"} =>
               reply'[p] = reply[p] /\ (phase'[p] = "ack" => phase[p] = "ack"),
             \A k \in rowMarks : k[1] # p => k \in rowMarks' \/ k[2] \in present',
             \A m \in Memory : phase[p] = "ack" /\ ~reply[p].v2 /\ m \in batch[p].rows
                 /\ <<p, m>> \in rowMarks => Suspected(m)'
      PROVE  Following'
  <2>1. Grows BY <1>2, <1>4, <1>7, CalmStep DEF Following
  <2>2. WorksFor(p)' BY <1>2, <1>3, <1>7, <2>1, WorksForStays
  <2>3. ASSUME NEW r \in wire PROVE Marked(r)'
    <3>1. Marked(r) /\ r.from # p BY <1>5 DEF Following
    <3>2. \A m : <<r.from, m>>[1] # p /\ <<r.from, m>>[2] = m BY <3>1
    <3>3. \A m : <<r.from, m>> \in rowMarks => <<r.from, m>> \in rowMarks' \/ m \in present'
      BY <1>7, <3>2
    <3> QED BY <1>2, <3>1, <3>3 DEF Marked
  <2>4. ASSUME NEW m \in Memory, Suspected(m) PROVE Suspected(m)'
    <3>1. CASE m \in present \union sent BY <1>2, <3>1 DEF Suspected
    <3>2. CASE <<Lost, m>> \in rowMarks
      <4>1. <<Lost, m>>[1] # p /\ <<Lost, m>>[2] = m BY <1>6
      <4>2. <<Lost, m>> \in rowMarks' \/ m \in present' BY <1>7, <3>2, <4>1
      <4> QED BY <4>2 DEF Suspected
    <3>3. ASSUME NEW q \in Daemon, phase[q] = "ack", ~reply[q].v2, m \in batch[q].rows,
                 <<q, m>> \in rowMarks
          PROVE  Suspected(m)'
      <4>1. CASE q = p BY <1>7, <3>3, <4>1
      <4>2. CASE q # p
        <5>1. <<q, m>>[1] # p /\ <<q, m>>[2] = m BY <4>2
        <5>2. <<q, m>> \in rowMarks' \/ m \in present' BY <1>7, <3>3, <5>1
        <5>3. phase'[q] = "ack" /\ ~reply'[q].v2 /\ m \in batch'[q].rows
          BY <1>7, <3>3, <4>2
        <5> QED BY <5>2, <5>3 DEF Suspected
      <4> QED BY <4>1, <4>2
    <3> QED BY <2>4, <3>1, <3>2, <3>3 DEF Suspected
  <2> QED BY <1>2, <1>4, <1>7, <2>2, <2>3, <2>4, CalmFollowing
<1>8. \A m \in present : Exists(m) BY <1>1 DEF Following, Agreed, Evident
<1>9. CASE ResolveRows(p)
  <2>1. /\ reply[p].v2 /\ rowMarks' = {k \in rowMarks : k[1] # p}
        /\ batch' = [batch EXCEPT ![p].rows = {}]
        /\ UNCHANGED <<present, phase, reply>>
    BY <1>9 DEF ResolveRows
  <2>2. batch'[p].rows = {} /\ \A q \in Daemon \ {p} : batch'[q] = batch[q]
    BY <1>1, <2>1 DEF Batch
  <2> QED BY <1>7, <1>8, <2>1, <2>2
<1>10. ASSUME NEW m \in Memory, MarkSynced(p, m) PROVE Following'
  <2>1. /\ phase[p] = "ack" /\ ~reply[p].v2 /\ m \in batch[p].rows
        /\ present' = present \union {m}
        /\ rowMarks' = {k \in rowMarks : k[2] # m}
        /\ batch' = [batch EXCEPT ![p].rows = batch[p].rows \ {m}]
        /\ UNCHANGED <<phase, reply>>
    BY <1>10 DEF MarkSynced
  <2>2. /\ batch'[p].rows = batch[p].rows \ {m}
        /\ \A q \in Daemon \ {p} : batch'[q] = batch[q]
    BY <1>1, <2>1 DEF Batch
  <2>3. Exists(m) BY <1>3, <2>1 DEF AnsweredWell
  <2>4. ASSUME NEW i \in Memory, i \in batch[p].rows, <<p, i>> \in rowMarks
        PROVE  Suspected(i)'
    <3>1. CASE i = m BY <2>1, <3>1 DEF Suspected
    <3>2. CASE i # m
      <4>1. <<p, i>> \in rowMarks' BY <2>1, <2>4, <3>2
      <4>2. i \in batch'[p].rows /\ phase'[p] = "ack" /\ ~reply'[p].v2
        BY <2>1, <2>2, <2>4, <3>2
      <4> QED BY <4>1, <4>2 DEF Suspected
    <3> QED BY <3>1, <3>2
  <2>5. \A k \in rowMarks : k \in rowMarks' \/ k[2] \in present' BY <2>1
  <2>6. \A i \in present' : Exists(i) BY <1>8, <2>1, <2>3
  <2> QED BY <1>7, <2>1, <2>2, <2>4, <2>5, <2>6
<1>11. CASE SavePulled(p)
  <2>1. /\ phase[p] = "ack" /\ batch[p].rows = {} /\ UNCHANGED rowMarks
        /\ present' = present \union reply[p].pulled
    BY <1>11 DEF SavePulled
  <2>2. \A i \in present' : Exists(i) BY <1>3, <1>8, <2>1 DEF AnsweredWell
  <2>3. CASE phase' = [phase EXCEPT ![p] = "reject"] /\ UNCHANGED <<batch, reply>>
    <3>1. phase'[p] = "reject" /\ \A q \in Daemon \ {p} : phase'[q] = phase[q]
      BY <2>3, PhaseOf
    <3> QED BY <1>7, <2>1, <2>2, <2>3, <3>1
  <2>4. CASE EndBatch(p)
    <3>1. /\ phase' = [phase EXCEPT ![p] = "between"]
          /\ batch' = [batch EXCEPT ![p] = NoBatch]
          /\ reply' = [reply EXCEPT ![p] = NoReply]
      BY <2>4 DEF EndBatch
    <3>2. phase'[p] = "between" /\ \A q \in Daemon \ {p} : phase'[q] = phase[q]
      BY <3>1, PhaseOf
    <3>3. /\ batch'[p].rows = {}
          /\ \A q \in Daemon \ {p} : batch'[q] = batch[q] /\ reply'[q] = reply[q]
      BY <1>1, <3>1 DEF NoBatch
    <3> QED BY <1>7, <2>1, <2>2, <3>2, <3>3
  <2> QED BY <1>11, <2>3, <2>4 DEF SavePulled
<1>12. CASE MarkRejected(p)
  <2>1. /\ phase[p] = "reject" /\ phase' = [phase EXCEPT ![p] = "confirm"]
        /\ UNCHANGED <<present, rowMarks, batch, reply>>
    BY <1>12 DEF MarkRejected
  <2>2. phase'[p] = "confirm" /\ \A q \in Daemon \ {p} : phase'[q] = phase[q]
    BY <2>1, PhaseOf
  <2> QED BY <1>7, <1>8, <2>1, <2>2
<1> QED BY <1>9, <1>10, <1>11, <1>12

(* What is confirmed is done, so it may leave the journal.                 *)
LEMMA ConfirmFollows ==
  ASSUME TypeOK, TypeOK', Wiring, Following, NEW p \in Daemon, MarkConfirmed(p)
  PROVE  Following'
<1> DEFINE C == reply[p].confirmed
           created == {e.mem : e \in {k \in C : k.op = "create"}}
<1>1. /\ phase \in [Daemon -> Phase] /\ batch \in [Daemon -> Batch]
      /\ reply \in [Daemon -> Reply] /\ present \subseteq Memory
      /\ pending \subseteq Mutation /\ C \subseteq Mutation
  BY ReplyType DEF TypeOK, Reply
<1>2. /\ phase[p] = "confirm"
      /\ pending' = Without(pending, C) /\ rejected' = Without(rejected, C)
      /\ present' = present \union {e.mem : e \in C}
      /\ unsynced' = unsynced \ created
      /\ rowMarks' = {k \in rowMarks : k[2] \notin created}
      /\ phase' = [phase EXCEPT ![p] = "between"]
      /\ batch' = [batch EXCEPT ![p] = NoBatch]
      /\ reply' = [reply EXCEPT ![p] = NoReply]
      /\ UNCHANGED <<home, memories, sent, made, lease, wire, remote, seen>>
  BY DEF MarkConfirmed, EndBatch, server
<1>3. created \subseteq present' /\ present \subseteq present' BY <1>2
<1>4. ASSUME NEW e \in C PROVE Done(e) /\ e.mem \in Memory
  BY <1>1, <1>2 DEF Following, WorksFor, AnsweredWell, Mutation
<1> HIDE DEF C, created
<1>5. made \in Nat /\ Agreed
  <2>1. made \in 0 .. MaxOps /\ MaxOps \in Nat BY ProjectMoveAssumption DEF TypeOK
  <2> QED BY <2>1 DEF Following
<1>6. pending' \subseteq pending BY <1>2 DEF Without
<1>7. ASSUME NEW e \in pending, e \notin pending'
      PROVE  \E k \in C : Same(k, e)
  BY <1>2, <1>7, SameIs DEF Without
<1>8. ASSUME NEW e \in pending, e \notin pending', e.op # "reproject" PROVE Effected(e)
  <2>1. PICK k \in C : Same(k, e) BY <1>7, <1>8
  <2>2. Done(k) BY <1>4
  <2>3. Effected(k) BY <1>8, <2>1, <2>2 DEF Done, Same
  <2> QED BY <2>1, <2>3, EffectedSame
<1>9. \A e : Effected(e)' <=> Effected(e) BY <1>2 DEF Effected, Exists
<1>10. Grows
  <2>1. \A e \in pending : e.op # "reproject" =>
          Effected(e)' \/ \E f \in pending' : Same(e, f)
    <3>1. ASSUME NEW e \in pending, e.op # "reproject", e \notin pending'
          PROVE  Effected(e)'
      BY <1>8, <1>9, <3>1
    <3>2. \A e : Same(e, e) BY DEF Same
    <3> QED BY <3>1, <3>2
  <2>2. \A k \in pending' : \E j \in pending : Same(j, k) BY <1>6 DEF Same
  <2> QED BY <1>2, <1>3, <1>5, <2>1, <2>2 DEF Grows, Exists
<1>11. Agreed'
  <2>1. Journaled'
    <3>1. ASSUME NEW e \in pending' PROVE JournaledAs(e)'
      <4>1. JournaledAs(e) BY <1>5, <1>6 DEF Agreed, Journaled
      <4> QED BY <1>2, <1>3, <1>6, <4>1 DEF JournaledAs
    <3> QED BY <3>1 DEF Journaled, JournaledAs
  <2>2. Applied' BY <1>2, <1>5 DEF Agreed, Applied, Exists
  <2>3. Evident'
    <3>1. ASSUME NEW m \in Memory, m \in present' PROVE Exists(m)'
      BY <1>2, <1>4, <1>5, <3>1 DEF Agreed, Evident, Done, Exists
    <3>2. ASSUME NEW m \in Memory, Exists(m)' \/ m \in unsynced' PROVE memories'[m] # "none"
      BY <1>2, <1>5, <3>2 DEF Agreed, Evident, Exists
    <3>3. ASSUME NEW m \in Memory, memories'[m] # "none", m \notin present'
          PROVE  \E e \in pending' : e.op = "create" /\ e.mem = m
      <4>1. PICK e \in pending : e.op = "create" /\ e.mem = m
        BY <1>2, <1>3, <1>5, <3>3 DEF Agreed, Evident
      <4>2. CASE e \notin pending'
        <5>1. PICK k \in C : Same(k, e) BY <1>7, <4>2
        <5>2. m \in present' BY <1>2, <4>1, <5>1 DEF Same
        <5> QED BY <3>3, <5>2
      <4> QED BY <4>1, <4>2
    <3> QED BY <3>1, <3>2, <3>3 DEF Evident, Exists
  <2>4. rejected' = {} BY <1>2, <1>5 DEF Agreed, Without
  <2>5. ASSUME NEW m \in Memory PROVE Placed(m)'
    <3>1. SUFFICES ASSUME Exists(m), remote[m].project # home
                   PROVE  Moving(m)' /\ home = "B" /\ remote[m].project = "A"
      BY <1>2 DEF Placed, Exists, Moving
    <3>2. home = "B" /\ Moving(m) /\ remote[m].project = "A"
      BY <1>5, <3>1 DEF Agreed, Placed
    <3>3. PICK e \in pending : e.op = "reproject" /\ e.mem = m BY <3>2 DEF Moving
    <3>4. CASE e \in pending' BY <3>2, <3>3, <3>4 DEF Moving
    <3>5. CASE e \notin pending'
      <4>1. PICK k \in C : Same(k, e) BY <1>7, <3>5
      <4>2. remote[m].project = "B" BY <1>4, <3>3, <4>1 DEF Done, Same
      <4> QED BY <3>1, <3>2, <4>2
    <3> QED BY <3>4, <3>5
  <2>6. ASSUME NEW m \in Memory PROVE Replaying(m)'
    <3>1. Left(m)' = Left(m)
      <4>1. Left(m)' = {e \in pending' : e.mem = m /\ e.op # "reproject" /\ ~Effected(e)}
        BY <1>2 DEF Left, Effected, Exists
      <4> QED BY <1>6, <1>8, <4>1 DEF Left
    <3> QED BY <1>2, <1>5, <3>1 DEF Agreed, Replaying
  <2> QED BY <2>1, <2>2, <2>3, <2>4, <2>5, <2>6
          DEF Agreed, Placed, Replaying, Exists, Moving, Left, Effected
<1>12. phase'[p] = "between" /\ \A q \in Daemon \ {p} : phase'[q] = phase[q]
  BY <1>2, PhaseOf
<1>13. /\ batch'[p].rows = {}
       /\ \A q \in Daemon \ {p} : batch'[q] = batch[q] /\ reply'[q] = reply[q]
  BY <1>1, <1>2 DEF NoBatch
<1>14. ASSUME NEW q \in Daemon PROVE WorksFor(q)'
  <2>1. WorksFor(q) BY DEF Following
  <2>2. CASE q = p BY <1>2, <1>10, <1>12, <1>13, <2>1, <2>2, WorksForStays
  <2>3. CASE q # p BY <1>2, <1>10, <1>12, <1>13, <2>1, <2>3, WorksForStays
  <2> QED BY <2>2, <2>3
<1>15. ASSUME NEW r \in wire PROVE Marked(r)'
  <2>1. \A m : <<r.from, m>>[2] = m OBVIOUS
  <2>2. \A m : <<r.from, m>> \in rowMarks => <<r.from, m>> \in rowMarks' \/ m \in present'
    BY <1>2, <1>3, <2>1
  <2> QED BY <1>3, <2>2 DEF Following, Marked
<1>16. ASSUME NEW m \in Memory, Exists(m)' PROVE Suspected(m)'
  <2>1. Suspected(m) BY <1>2, <1>16 DEF Following, Exists
  <2>2. \A q : <<q, m>>[2] = m OBVIOUS
  <2>3. \A q : <<q, m>> \in rowMarks => <<q, m>> \in rowMarks' \/ m \in present'
    BY <1>2, <1>3, <2>2
  <2>4. ASSUME NEW q \in Daemon, phase[q] = "ack", ~reply[q].v2, m \in batch[q].rows,
               <<q, m>> \in rowMarks
        PROVE  Suspected(m)'
    <3>1. q # p BY <1>2, <2>4
    <3> QED BY <1>12, <1>13, <2>3, <2>4, <3>1 DEF Suspected
  <2> QED BY <1>2, <1>3, <2>1, <2>3, <2>4 DEF Suspected
<1> QED BY <1>2, <1>10, <1>11, <1>14, <1>15, <1>16, FollowingOf

(* A Drain fails: its marks stay, and its request may still be served.     *)
LEMMA FailFollows ==
  ASSUME TypeOK, TypeOK', Following, NEW p \in Daemon, Fail(p),
         UNCHANGED <<remote, seen>>, wire' \subseteq {Orphaned(p, s) : s \in wire}
  PROVE  Following'
<1>1. /\ phase \in [Daemon -> Phase] /\ batch \in [Daemon -> Batch]
      /\ reply \in [Daemon -> Reply] /\ lease \in [Daemon -> Project \union {""}]
      /\ wire \subseteq Request /\ present \subseteq Memory
      /\ rowMarks \subseteq (Daemon \union {Lost}) \X Memory
  BY DEF TypeOK
<1>2. /\ phase' = [phase EXCEPT ![p] = "idle"]
      /\ lease' = [lease EXCEPT ![p] = ""]
      /\ batch' = [batch EXCEPT ![p] = NoBatch]
      /\ reply' = [reply EXCEPT ![p] = NoReply]
      /\ rowMarks' = {IF k[1] = p THEN <<Lost, k[2]>> ELSE k : k \in rowMarks}
      /\ UNCHANGED <<home, session, memories, unsynced, pending, rejected, present,
                     sent, made>>
  BY DEF Fail
<1>3. \A m \in present' : Exists(m)
  BY <1>1, <1>2 DEF Following, Agreed, Evident
<1>4. Grows BY <1>2, <1>3, CalmStep DEF Following
<1>5. phase'[p] = "idle" /\ \A q \in Daemon \ {p} : phase'[q] = phase[q]
  BY <1>2, PhaseOf
<1>6. /\ batch'[p].rows = {} /\ lease'[p] = ""
      /\ \A q \in Daemon \ {p} :
           batch'[q] = batch[q] /\ reply'[q] = reply[q] /\ lease'[q] = lease[q]
  BY <1>1, <1>2 DEF NoBatch
<1>7. WorksFor(p)' BY <1>5, <1>6 DEF WorksFor
<1>8. \A m : /\ <<p, m>> \in rowMarks => <<Lost, m>> \in rowMarks'
             /\ \A q : q # p /\ <<q, m>> \in rowMarks => <<q, m>> \in rowMarks'
  <2>1. \A q, m : <<q, m>>[1] = q /\ <<q, m>>[2] = m OBVIOUS
  <2> QED BY <1>2, <2>1
<1>9. ASSUME NEW t \in wire' PROVE Marked(t)' /\ (t \in wire \/ (Carried(t)' /\ Outlived(t)'))
  <2>1. PICK s \in wire : t = Orphaned(p, s) OBVIOUS
  <2>2. s \in Request /\ Carried(s) /\ Outlived(s) /\ Marked(s) BY <1>1 DEF Following
  <2>3. /\ t.muts = s.muts /\ t.rows = s.rows /\ t.project = s.project
        /\ t.from = IF s.from = p THEN Lost ELSE s.from
    BY <2>1, <2>2 DEF Orphaned, Request
  <2>4. Marked(t)' BY <1>2, <1>8, <2>2, <2>3 DEF Marked
  <2>5. Carried(s)' BY <1>4, <2>2, CarriedStays
  <2>6. Carried(t)'
    <3>1. \A e \in t.muts : CarriesIn(e, t)'
      <4>1. ASSUME NEW e \in s.muts, CarriesIn(e, s)' PROVE CarriesIn(e, t)'
        BY <2>3, <4>1 DEF CarriesIn
      <4> QED BY <2>3, <2>5, <4>1 DEF Carried
    <3> QED BY <2>3, <2>5, <3>1 DEF Carried
  <2>7. Outlived(t)' BY <1>2, <2>2, <2>3 DEF Outlived
  <2> QED BY <2>4, <2>6, <2>7
<1>10. ASSUME NEW m \in Memory, Suspected(m) PROVE Suspected(m)'
  <2>1. Lost # p BY ProjectMoveAssumption
  <2>2. CASE m \in present \union sent \/ <<Lost, m>> \in rowMarks
    BY <1>2, <1>8, <2>1, <2>2 DEF Suspected
  <2>3. ASSUME NEW q \in Daemon, phase[q] = "ack", ~reply[q].v2, m \in batch[q].rows,
               <<q, m>> \in rowMarks
        PROVE  Suspected(m)'
    <3>1. CASE q = p BY <1>8, <2>3, <3>1 DEF Suspected
    <3>2. CASE q # p
      <4>1. /\ phase'[q] = "ack" /\ ~reply'[q].v2 /\ m \in batch'[q].rows
            /\ <<q, m>> \in rowMarks'
        BY <1>5, <1>6, <1>8, <2>3, <3>2
      <4> QED BY <4>1 DEF Suspected
    <3> QED BY <3>1, <3>2
  <2> QED BY <1>10, <2>2, <2>3 DEF Suspected
<1> QED BY <1>2, <1>3, <1>5, <1>6, <1>7, <1>9, <1>10, CalmFollowing

LEMMA InterruptsFollow ==
  ASSUME TypeOK, TypeOK', Wiring, Following, NEW p \in Daemon, Interrupt(p)
  PROVE  Following'
<1>1. /\ Fail(p) /\ wire' = {Orphaned(p, r) : r \in wire} /\ UNCHANGED <<remote, seen>>
  BY DEF Interrupt, server
<1> QED BY <1>1, FailFollows

LEMMA LossesFollow ==
  ASSUME TypeOK, TypeOK', Wiring, Following, NEW r \in wire, Reject(r) \/ Drop(r)
  PROVE  Following'
<1>1. wire' = wire \ {r} /\ UNCHANGED <<remote, seen>> BY DEF Reject, Drop, server
<1>2. CASE Reject(r) /\ Waiting(r)
  <2>1. r.from \in Daemon BY <1>2 DEF TypeOK, Waiting, Request
  <2>2. Fail(r.from) BY <1>2 DEF Reject
  <2>3. \A s \in wire' : s \in wire /\ Orphaned(r.from, s) = s
    BY <1>1, <2>1 DEF Wiring, OnWire, Orphaned
  <2>4. wire' \subseteq {Orphaned(r.from, s) : s \in wire} BY <2>3
  <2> QED BY <1>1, <2>1, <2>2, <2>4, FailFollows
<1>3. CASE ~(Reject(r) /\ Waiting(r))
  <2>1. UNCHANGED <<device, process>> BY <1>3 DEF Reject, Drop
  <2>2. UNCHANGED <<home, memories, unsynced, pending, rejected, present, rowMarks, sent,
                    made, phase, lease, batch, reply>>
    BY <2>1 DEF device, evidence, process
  <2>3. \A m \in present' : Exists(m) BY <2>2 DEF Following, Agreed, Evident, TypeOK
  <2>4. Agreed' /\ Grows BY <1>1, <2>2, <2>3, CalmStep DEF Following
  <2>5. \A q \in Daemon : WorksFor(q)' BY <2>2, <2>4, WorksForStays DEF Following
  <2>6. \A s \in wire' : Marked(s)' BY <1>1, <2>2 DEF Following, Marked
  <2>7. \A m \in Memory : Exists(m)' => Suspected(m)'
    BY <1>1, <2>2 DEF Following, Exists, Suspected
  <2> QED BY <1>1, <2>2, <2>4, <2>5, <2>6, <2>7, FollowingOf
<1> QED BY <1>2, <1>3

(* Steps of the device that leave its processes and their requests alone.  *)
LEMMA DeviceFollows ==
  ASSUME TypeOK, TypeOK', Following, Agreed', Grows,
         UNCHANGED <<home, present, rowMarks, sent, phase, lease, batch, reply, wire, remote>>
  PROVE  Following'
<1>1. \A q \in Daemon : WorksFor(q)' BY WorksForStays DEF Following
<1>2. \A s \in wire' : Marked(s)' BY DEF Following, Marked
<1>3. \A m \in Memory : Exists(m)' => Suspected(m)'
  BY DEF Following, Exists, Suspected
<1> QED BY <1>1, <1>2, <1>3, FollowingOf

(* A new change of m.                                                      *)
LEMMA ChangeFollows ==
  ASSUME TypeOK, TypeOK', Following, NEW m \in Memory,
         NEW op \in {"create", "delete", "restore"}, memories[m] = Pre(op), Journal(op, m),
         LocalChange, memories' = [memories EXCEPT ![m] = Post(op)],
         unsynced' = unsynced \union {m}
  PROVE  Following'
<1>1. PICK e : e = [op |-> op, mem |-> m, n |-> made + 1, project |-> home] OBVIOUS
<1>2. /\ pending' = pending \union {e} /\ made' = made + 1
      /\ UNCHANGED <<home, rejected, present, rowMarks, sent, phase, lease, batch, reply,
                     wire, remote, seen>>
  BY <1>1 DEF Journal, LocalChange, evidence, process, server
<1>3. e.op = op /\ e.mem = m /\ e.n = made + 1 /\ e.project = home BY <1>1
<1>4. /\ pending \subseteq Mutation /\ e \in Mutation /\ made \in Nat
      /\ memories \in [Memory -> {"none", "active", "deleted"}]
  <2>1. /\ made \in 0 .. MaxOps /\ MaxOps \in Nat /\ pending' \subseteq Mutation
        /\ pending \subseteq Mutation
        /\ memories \in [Memory -> {"none", "active", "deleted"}]
    BY ProjectMoveAssumption DEF TypeOK
  <2> QED BY <1>2, <2>1
<1> HIDE <1>1
<1>5. Agreed BY DEF Following
<1>6. \A k \in pending : k.n \in Nat /\ k.n < e.n /\ memories[k.mem] # "none" /\ JournaledAs(k)
  BY <1>3, <1>4, <1>5 DEF Agreed, Journaled, JournaledAs
<1>7. e.n \in Nat BY <1>3, <1>4
<1>8. ~Effected(e)
  <2>1. Id(e) \notin seen
    <3>1. Id(e) \in seen => e.n <= made BY <1>4, <1>5 DEF Agreed, Applied
    <3> QED BY <1>3, <1>4, <3>1
  <2>2. op = "create" => ~Exists(m) BY <1>5 DEF Agreed, Evident, Pre
  <2> QED BY <1>3, <2>1, <2>2 DEF Effected
<1>9. /\ memories'[m] = Post(op) /\ Post(op) # "none"
      /\ \A i \in Memory \ {m} : memories'[i] = memories[i]
  BY <1>4 DEF Post
<1>10. \A k \in Mutation : k.mem \in Memory BY DEF Mutation
<1>11. \A i \in Memory : memories[i] # "none" => memories'[i] # "none" BY <1>9
<1>12. Grows
  <2>1. made <= made' BY <1>2, <1>4
  <2> QED BY <1>2, <1>3, <1>4, <1>11, <2>1 DEF Grows, Exists, Same
<1>13. Journaled'
  <2>1. ASSUME NEW k \in pending PROVE JournaledAs(k)'
    <3>1. k.op # "reproject" => k.n \in 1 .. made'
      BY <1>2, <1>4, <1>6 DEF JournaledAs
    <3>2. memories'[k.mem] # "none" BY <1>4, <1>6, <1>10, <1>11
    <3>3. \A f \in pending' : k.mem = f.mem /\ k.n = f.n => k = f
      BY <1>2, <1>6, <1>7 DEF JournaledAs
    <3>4. \A f \in pending' :
            k.op = "create" /\ f.mem = k.mem /\ f.op # "reproject" => k.n <= f.n
      BY <1>2, <1>6, <1>7 DEF JournaledAs
    <3> QED BY <1>2, <1>6, <3>1, <3>2, <3>3, <3>4 DEF JournaledAs
  <2>2. JournaledAs(e)'
    <3>1. \A f \in pending' : e.mem = f.mem /\ e.n = f.n => e = f
      BY <1>2, <1>6, <1>7
    <3>2. ASSUME e.op = "create", NEW f \in pending', f.mem = e.mem PROVE e.n <= f.n
      <4>1. f = e BY <1>2, <1>3, <1>6, <3>2 DEF Pre
      <4> QED BY <1>7, <4>1
    <3>3. e.n \in 1 .. made' BY <1>2, <1>3, <1>4
    <3> QED BY <1>2, <1>3, <1>9, <3>1, <3>2, <3>3 DEF JournaledAs
  <2> QED BY <1>2, <2>1, <2>2 DEF Journaled, JournaledAs
<1>14. Applied'
  <2>1. \A n \in Nat : n <= made => n <= made' BY <1>2, <1>4
  <2>2. \A k \in Mutation : k.n \in Nat BY ProjectMoveAssumption DEF Mutation
  <2> QED BY <1>2, <1>5, <2>1, <2>2 DEF Agreed, Applied, Exists
<1>15. Evident'
  <2>1. ASSUME NEW i \in Memory, memories'[i] # "none", i \notin present
        PROVE  \E k \in pending' : k.op = "create" /\ k.mem = i
    <3>1. CASE i = m /\ op = "create" BY <1>2, <1>3, <3>1
    <3>2. CASE ~(i = m /\ op = "create")
      <4>1. memories[i] # "none" BY <1>9, <2>1, <3>2 DEF Pre
      <4> QED BY <1>2, <1>5, <2>1, <4>1 DEF Agreed, Evident
    <3> QED BY <3>1, <3>2
  <2>2. \A i \in Memory : i \in present' => Exists(i)'
    BY <1>2, <1>5 DEF Agreed, Evident, Exists
  <2>3. \A i \in Memory : Exists(i)' \/ i \in unsynced' => memories'[i] # "none"
    BY <1>2, <1>5, <1>9, <1>11 DEF Agreed, Evident, Exists
  <2> QED BY <1>2, <2>1, <2>2, <2>3 DEF Evident, Exists
<1>16. \A i \in Memory : Placed(i)'
  <2>1. \A i \in Memory : Moving(i) => Moving(i)' BY <1>2 DEF Moving
  <2> QED BY <1>2, <1>5, <2>1 DEF Agreed, Placed, Exists, Moving
<1>17. ASSUME NEW i \in Memory PROVE Replaying(i)'
  <2>1. Left(i)' = {k \in pending' : k.mem = i /\ k.op # "reproject" /\ ~Effected(k)}
    BY <1>2 DEF Left, Effected, Exists
  <2>2. Replays(Left(i), remote[i].state, memories[i]) BY <1>5 DEF Agreed, Replaying
  <2>3. CASE i = m
    <3>1. Left(m)' = Left(m) \union {e} BY <1>2, <1>3, <1>8, <2>1, <2>3 DEF Left
    <3>2. Left(m) \in SUBSET Mutation /\ \A k \in Left(m) : k.n < e.n
      BY <1>4, <1>6 DEF Left
    <3>3. Pre(e.op) = memories[m] BY <1>3
    <3>4. Replays(Left(m) \union {e}, remote[m].state, Post(e.op))
      BY <1>4, <2>2, <2>3, <3>2, <3>3, ReplayNext
    <3> QED BY <1>2, <1>3, <1>9, <2>3, <3>1, <3>4 DEF Replaying
  <2>4. CASE i # m
    <3>1. Left(i)' = Left(i) BY <1>2, <1>3, <2>1, <2>4 DEF Left
    <3> QED BY <1>2, <1>9, <2>2, <2>4, <3>1 DEF Replaying
  <2> QED BY <2>3, <2>4
<1>18. Agreed'
  BY <1>2, <1>5, <1>13, <1>14, <1>15, <1>16, <1>17
     DEF Agreed, Placed, Replaying, Exists, Moving, Left, Effected
<1> QED BY <1>2, <1>12, <1>18, DeviceFollows

LEMMA LocalFollows ==
  ASSUME TypeOK, TypeOK', Following, Local
  PROVE  Following'
<1>1. ASSUME NEW m \in Memory, Save(m) PROVE Following'
  BY <1>1, ChangeFollows DEF Save, Pre, Post
<1>2. ASSUME NEW m \in Memory, Delete(m) PROVE Following'
  BY <1>2, ChangeFollows DEF Delete, Pre, Post
<1>3. ASSUME NEW m \in Memory, Restore(m) PROVE Following'
  BY <1>3, ChangeFollows DEF Restore, Pre, Post
<1>4. CASE EndSession
  <2>1. /\ made' = made + 1 /\ UNCHANGED <<memories, unsynced, pending>>
        /\ UNCHANGED <<home, rejected, present, rowMarks, sent, phase, lease, batch,
                       reply, wire, remote, seen>>
    BY <1>4 DEF EndSession, LocalChange, evidence, process, server
  <2>2. \A m \in present' : Exists(m) BY <2>1 DEF Following, Agreed, Evident, TypeOK
  <2>3. Agreed' /\ Grows BY <2>1, <2>2, CalmStep DEF Following
  <2> QED BY <2>1, <2>3, DeviceFollows
<1> QED BY <1>1, <1>2, <1>3, <1>4 DEF Local

(* The promotion, while no Drain of the device is under way: it refuses    *)
(* every memory the server may have without the device knowing, so what is *)
(* at the server or on its way there is what gets a reproject.             *)
NoLease == \A q \in Daemon : lease[q] = ""

LEMMA PromoteFollows ==
  ASSUME TypeOK, TypeOK', Wiring, Following, NEW p \in Daemon, Promote(p), NoLease
  PROVE  Following'
<1>1. /\ home = "A" /\ home' = "B"
      /\ pending' = Rekeyed(pending) \union {Reproject(m) : m \in Saved \cap present}
      /\ \A m \in Memory : ~Ambiguous(m)
      /\ UNCHANGED <<memories, unsynced, rejected, present, rowMarks, sent, made,
                     phase, lease, batch, reply, wire, remote, seen>>
  BY DEF Promote, evidence, process, server
<1>2. /\ pending \subseteq Mutation /\ pending' \subseteq Mutation
      /\ wire \subseteq Request /\ present \subseteq Memory /\ made \in Nat
  <2>1. made \in 0 .. MaxOps /\ MaxOps \in Nat BY ProjectMoveAssumption DEF TypeOK
  <2>2. made \in Nat BY <2>1
  <2> QED BY <2>2 DEF TypeOK
<1>3. Agreed BY DEF Following
<1>4. \A q \in Daemon : phase[q] = "idle" BY DEF Wiring, Leasing, NoLease
<1>5. ASSUME NEW m \in Memory, memories[m] # "none", m \notin present
      PROVE  m \notin sent /\ \A q : <<q, m>> \notin rowMarks
  <2>1. m \in Saved \ present BY <1>5 DEF Saved
  <2>2. m \notin Dispatched /\ m \notin sent \ CreateRejected
    BY <1>1, <2>1 DEF Ambiguous
  <2>3. CreateRejected = {} BY <1>3 DEF Agreed, CreateRejected
  <2>4. \A q : <<q, m>>[2] = m OBVIOUS
  <2> QED BY <2>2, <2>3, <2>4 DEF Dispatched
<1>6. ASSUME NEW m \in Memory, Exists(m) PROVE m \in present
  <2>1. memories[m] # "none" BY <1>3, <1>6 DEF Agreed, Evident
  <2>2. Suspected(m) BY <1>6 DEF Following
  <2> QED BY <1>4, <1>5, <2>1, <2>2 DEF Suspected
<1> DEFINE moved(k) == [k EXCEPT !.project = "B"]
<1>7. \A k \in Mutation : /\ moved(k).op = k.op /\ moved(k).mem = k.mem
                          /\ moved(k).n = k.n /\ moved(k).project = "B"
                          /\ k.mem \in Memory /\ k.n \in Nat
  <2>1. \A k \in Mutation : /\ moved(k).op = k.op /\ moved(k).mem = k.mem
                            /\ moved(k).n = k.n /\ moved(k).project = "B"
    BY DEF Mutation
  <2>2. \A k \in Mutation : k.mem \in Memory /\ k.n \in Nat
    BY ProjectMoveAssumption DEF Mutation
  <2> QED BY <2>1, <2>2
<1>8. \A m : /\ Reproject(m).op = "reproject" /\ Reproject(m).mem = m
             /\ Reproject(m).n = 0 /\ Reproject(m).project = "B"
  BY DEF Reproject
<1>9. ASSUME NEW k \in pending PROVE moved(k) \in pending'
  BY <1>1, <1>9 DEF Rekeyed
<1>10. ASSUME NEW k \in pending'
       PROVE  \/ \E j \in pending : k = moved(j)
              \/ \E m \in Saved \cap present : k = Reproject(m)
  BY <1>1, <1>10 DEF Rekeyed
<1> HIDE DEF moved
<1>11. \A k \in pending : k.op # "reproject" /\ JournaledAs(k) /\ k.n \in 1 .. made
  BY <1>1, <1>3 DEF Agreed, Journaled, JournaledAs
<1>12. Grows
  <2>1. \A e \in pending : \E f \in pending' : Same(e, f)
    BY <1>2, <1>7, <1>9 DEF Same
  <2>2. \A k \in pending' : k.op # "reproject" => \E j \in pending : Same(j, k)
    <3>1. ASSUME NEW k \in pending', k.op # "reproject"
          PROVE  \E j \in pending : Same(j, k)
      <4>1. PICK j \in pending : k = moved(j) BY <1>8, <1>10, <3>1
      <4> QED BY <1>2, <1>7, <4>1 DEF Same
    <3> QED BY <3>1
  <2>3. made <= made' /\ (home = "B" => home' = "B") BY <1>1, <1>2
  <2>4. \A e \in pending : Effected(e)' \/ \E f \in pending' : Same(e, f)
    BY <2>1
  <2>5. /\ present \subseteq present' /\ sent \subseteq sent' /\ seen \subseteq seen'
        /\ \A m \in Memory : memories[m] # "none" => memories'[m] # "none"
        /\ \A m \in Memory : Exists(m) => Exists(m)'
        /\ \A m \in Memory : remote[m].project = "B" => remote'[m].project = "B"
        /\ \A m \in Memory : Exists(m)' /\ remote'[m].project = "A" /\ home' = "B" =>
             Exists(m) /\ remote[m].project = "A"
    BY <1>1 DEF Exists
  <2> QED BY <2>2, <2>3, <2>4, <2>5 DEF Grows
<1>13. Journaled'
  <2>1. ASSUME NEW k \in pending', NEW j \in pending, k = moved(j) PROVE JournaledAs(k)'
    <3>1. /\ k.op = j.op /\ k.mem = j.mem /\ k.n = j.n /\ k.project = "B"
          /\ j.op # "reproject" /\ j.n \in 1 .. made /\ JournaledAs(j)
      BY <1>2, <1>7, <1>11, <2>1
    <3>2. k.n # 0
      <4>1. k.n \in 1 .. made BY <3>1
      <4> QED BY <1>2, <4>1
    <3>3. ASSUME NEW f \in pending', k.mem = f.mem, k.n = f.n PROVE k = f
      <4>1. PICK i \in pending : f = moved(i) BY <1>8, <1>10, <3>2, <3>3
      <4>2. i.mem = j.mem /\ i.n = j.n BY <1>2, <1>7, <3>1, <3>3, <4>1
      <4>3. j = i BY <3>1, <4>2 DEF JournaledAs
      <4> QED BY <2>1, <4>1, <4>3
    <3>4. ASSUME NEW f \in pending', k.op = "create", f.mem = k.mem, f.op # "reproject"
          PROVE  k.n <= f.n
      <4>1. PICK i \in pending : f = moved(i) BY <1>8, <1>10, <3>4
      <4>2. i.mem = j.mem /\ i.n = f.n /\ i.op # "reproject"
        BY <1>2, <1>7, <1>11, <3>1, <3>4, <4>1
      <4>3. j.n <= i.n BY <3>1, <3>4, <4>2 DEF JournaledAs
      <4> QED BY <3>1, <4>2, <4>3
    <3>5. memories[k.mem] # "none" BY <3>1 DEF JournaledAs
    <3> QED BY <1>1, <3>1, <3>3, <3>4, <3>5 DEF JournaledAs
  <2>2. ASSUME NEW k \in pending', NEW m \in Saved \cap present, k = Reproject(m)
        PROVE  JournaledAs(k)'
    <3>1. /\ k.op = "reproject" /\ k.mem = m /\ k.n = 0 /\ k.project = "B"
          /\ memories[m] # "none"
      BY <1>8, <2>2 DEF Saved
    <3>2. ASSUME NEW f \in pending', k.mem = f.mem, k.n = f.n PROVE k = f
      <4>1. ASSUME NEW i \in pending, f = moved(i) PROVE FALSE
        <5>1. i.n = 0 BY <1>2, <1>7, <3>1, <3>2, <4>1
        <5>2. i.n \in 1 .. made BY <1>11, <4>1
        <5> QED BY <1>2, <5>1, <5>2
      <4>2. PICK i \in Saved \cap present : f = Reproject(i) BY <1>10, <4>1
      <4>3. i = m BY <1>8, <3>1, <3>2, <4>2
      <4> QED BY <2>2, <4>2, <4>3
    <3> QED BY <1>1, <3>1, <3>2 DEF JournaledAs
  <2>3. \A k \in pending' : JournaledAs(k)' BY <1>10, <2>1, <2>2
  <2> QED BY <2>3 DEF Journaled, JournaledAs
<1>14. Applied' BY <1>1, <1>3 DEF Agreed, Applied, Exists
<1>15. Evident'
  <2>1. ASSUME NEW m \in Memory, memories[m] # "none", m \notin present
        PROVE  \E e \in pending' : e.op = "create" /\ e.mem = m
    <3>1. PICK e \in pending : e.op = "create" /\ e.mem = m
      BY <1>3, <2>1 DEF Agreed, Evident
    <3> QED BY <1>2, <1>7, <1>9, <3>1
  <2> QED BY <1>1, <1>3, <2>1 DEF Agreed, Evident, Exists
<1>16. ASSUME NEW m \in Memory PROVE Placed(m)'
  <2>1. SUFFICES ASSUME Exists(m) PROVE remote[m].project = "A" /\ Moving(m)'
    BY <1>1 DEF Placed, Exists, Moving
  <2>2. m \in present /\ memories[m] # "none" BY <1>3, <1>6, <2>1 DEF Agreed, Evident
  <2>3. Reproject(m) \in pending' BY <1>1, <2>2 DEF Saved
  <2>4. Moving(m)' BY <1>8, <2>3 DEF Moving
  <2>5. remote[m].project = "A" BY <1>1, <1>3, <2>1 DEF Agreed, Placed
  <2> QED BY <2>4, <2>5
<1>17. ASSUME NEW m \in Memory PROVE Replaying(m)'
  <2>1. Left(m)' = {k \in pending' : k.mem = m /\ k.op # "reproject" /\ ~Effected(k)}
    BY <1>1 DEF Left, Effected, Exists
  <2>2. \A k \in Mutation : Effected(moved(k)) <=> Effected(k)
    BY <1>7 DEF Effected, Id
  <2>3. \A k \in Left(m)' : \E j \in Left(m) : j.op = k.op /\ j.n = k.n
    <3>1. ASSUME NEW k \in Left(m)' PROVE \E j \in Left(m) : j.op = k.op /\ j.n = k.n
      <4>1. k \in pending' /\ k.mem = m /\ k.op # "reproject" /\ ~Effected(k)
        BY <2>1
      <4>2. PICK j \in pending : k = moved(j) BY <1>8, <1>10, <4>1
      <4>3. j \in Mutation /\ j.mem = m /\ j.op = k.op /\ j.n = k.n BY <1>2, <1>7, <4>1, <4>2
      <4>4. ~Effected(j) BY <2>2, <4>1, <4>2, <4>3
      <4> QED BY <4>1, <4>3, <4>4 DEF Left
    <3> QED BY <3>1
  <2>4. \A j \in Left(m) : \E k \in Left(m)' : j.op = k.op /\ j.n = k.n
    <3>1. ASSUME NEW j \in Left(m) PROVE \E k \in Left(m)' : j.op = k.op /\ j.n = k.n
      <4>1. /\ j \in pending /\ j \in Mutation /\ j.mem = m /\ j.op # "reproject"
            /\ ~Effected(j)
        BY <1>2 DEF Left
      <4>2. moved(j) \in Left(m)' BY <1>7, <1>9, <2>1, <2>2, <4>1
      <4> QED BY <1>7, <4>1, <4>2
    <3> QED BY <3>1
  <2>5. Replays(Left(m), remote[m].state, memories[m]) BY <1>3 DEF Agreed, Replaying
  <2>6. PICK J : J = Left(m)' OBVIOUS
  <2>7. Replays(J, remote[m].state, memories[m])
    BY <2>3, <2>4, <2>5, <2>6, ReplayRekeyed
  <2> QED BY <1>1, <2>6, <2>7 DEF Replaying
<1>18. Agreed'
  BY <1>1, <1>3, <1>13, <1>14, <1>15, <1>16, <1>17
     DEF Agreed, Placed, Replaying, Exists, Moving, Left, Effected
<1>19. ASSUME NEW q \in Daemon PROVE WorksFor(q)'
  BY <1>1, <1>4 DEF Following, WorksFor, NoLease
<1>20. ASSUME NEW r \in wire PROVE Carried(r)' /\ Outlived(r)' /\ Marked(r)'
  <2>1. /\ r \in Request /\ Carried(r) /\ Marked(r) /\ r.muts \subseteq Mutation
        /\ r.rows \subseteq Memory
    BY <1>2 DEF Following, Request
  <2>2. Carried(r)' BY <1>12, <2>1, CarriedStays
  <2>3. Marked(r)' BY <1>1, <2>1 DEF Marked
  <2>4. \A e \in r.muts : e.mem \in present
    BY <1>5, <1>7, <2>1 DEF Carried, CarriesIn
  <2>5. r.muts = {} => r.rows \subseteq present
    BY <1>5, <2>1 DEF Carried, Marked
  <2>6. Outlived(r)' BY <1>1, <2>4, <2>5 DEF Outlived
  <2> QED BY <2>2, <2>3, <2>6
<1>21. ASSUME NEW m \in Memory, Exists(m) PROVE Suspected(m)'
  BY <1>1, <1>6, <1>21 DEF Suspected
<1>22. \A m \in Memory : Exists(m)' => Suspected(m)' BY <1>1, <1>21 DEF Exists
<1>23. \A r \in wire' : Carried(r)' /\ Outlived(r)' /\ Marked(r)' BY <1>1, <1>20
<1> QED BY <1>18, <1>19, <1>22, <1>23 DEF Following

-----------------------------------------------------------------------------
(* A request served: one change of a memory after the other.               *)

Effd(s, e) ==
  \/ Id(e) \in seen \union {Id(k) : k \in s.applied}
  \/ e.op = "create" /\ s.row.state # "none"
LeftIn(s, m) == {e \in pending : e.mem = m /\ e.op # "reproject" /\ ~Effd(s, e)}

(* Sent before the promotion, and the memory has moved since.              *)
Beside(m, r) ==
  home = "B" /\ r.project = "A" /\ Exists(m) /\ remote[m].project = "B"
Serves(m, r) ==
  /\ TypeOK /\ Agreed /\ r \in Request /\ m \in Memory
  /\ Carried(r) /\ ~Beside(m, r)

(* So far nothing is refused, and what is left still leads to the memory.  *)
Running(s, m, r) ==
  /\ s.applied \subseteq Mine(m, r) /\ s.confirmed \subseteq Mine(m, r) /\ s.refused = {}
  /\ Exists(m) => s.row.state # "none"
  /\ Exists(m) /\ remote[m].project = "B" => s.row.project = "B"
  /\ s.row = remote[m] \/ (s.row.project = r.project /\ s.applied # {})
  /\ \A e \in s.applied :
       s.row.state # "none" /\ (e.op = "reproject" => s.row.project = "B")
  /\ \A e \in s.confirmed :
       s.row.state # "none" /\ IF e.op = "reproject" THEN s.row.project = "B" ELSE Effd(s, e)
  /\ Replays(LeftIn(s, m), s.row.state, memories[m])
InPlace(s, m, r) ==
  s.row.state # "none" /\ (\E e \in Mine(m, r) : e.op # "reproject") =>
    s.row.project = r.project

(* The first change of a memory that is not done is the first that is left.*)
LEMMA FirstLeft ==
  ASSUME NEW m, NEW r, Serves(m, r), NEW s, Running(s, m, r),
         NEW e \in Mine(m, r), e.op # "reproject", ~Effd(s, e),
         \A f \in Mine(m, r) : f.op # "reproject" /\ f.n < e.n => Effd(s, f)
  PROVE  /\ LeftIn(s, m) \in SUBSET Mutation
         /\ \A k, j \in LeftIn(s, m) : k.n = j.n => k = j
         /\ \E f \in LeftIn(s, m) : Same(e, f) /\ \A k \in LeftIn(s, m) : f.n <= k.n
<1>1. pending \subseteq Mutation BY DEF Serves, TypeOK
<1>2. LeftIn(s, m) \in SUBSET Mutation BY <1>1 DEF LeftIn
<1>3. \A k, j \in LeftIn(s, m) : k.n = j.n => k = j
  BY DEF LeftIn, Serves, Agreed, Journaled, JournaledAs
<1>4. \A k \in Mutation : k.n \in Nat BY ProjectMoveAssumption DEF Mutation
<1>5. r.muts \subseteq Mutation BY DEF Serves, Request
<1>6. e \in r.muts /\ e.mem = m /\ e \in Mutation /\ CarriesIn(e, r)
  BY <1>5 DEF Mine, Serves, Carried
<1>7. \A k : Effected(k) /\ k.mem = m => Effd(s, k)
  BY DEF Effected, Effd, Running
<1>8. ~Effected(e) BY <1>6, <1>7
<1>9. PICK f \in pending : Same(e, f) BY <1>6, <1>8 DEF CarriesIn
<1>10. f \in LeftIn(s, m)
  BY <1>6, <1>9, SameIs DEF LeftIn, Same, Effd
<1>11. ASSUME NEW k \in LeftIn(s, m), k.n < e.n PROVE FALSE
  <2>1. k \in Left(m) BY <1>7, <1>11 DEF LeftIn, Left
  <2>2. PICK g \in r.muts : Same(g, k)
    BY <1>6, <1>8, <1>11, <2>1 DEF CarriesIn
  <2>3. g \in Mine(m, r) /\ g.op # "reproject" /\ g.n < e.n
    BY <1>11, <2>2 DEF Mine, LeftIn, Same
  <2>4. Effd(s, g) BY <2>3
  <2>5. Effd(s, k) BY <2>2, <2>4, SameIs DEF Effd, Same
  <2> QED BY <2>5 DEF LeftIn
<1>12. \A k \in LeftIn(s, m) : f.n <= k.n
  <2>1. TAKE k \in LeftIn(s, m)
  <2>2. f.n = e.n /\ k.n \in Nat /\ e.n \in Nat BY <1>2, <1>4, <1>6, <1>9 DEF Same
  <2>3. ~(k.n < e.n) BY <1>11
  <2> QED BY <2>2, <2>3
<1> QED BY <1>2, <1>3, <1>9, <1>10, <1>12

(* A change of the memory is confirmed, for it was done or can be.         *)
LEMMA ChangeRuns ==
  ASSUME NEW m, NEW r, Serves(m, r), NEW s \in Outcomes, Running(s, m, r), InPlace(s, m, r),
         NEW e \in Mine(m, r), e.op # "reproject",
         \A f \in Mine(m, r) : f.op # "reproject" /\ f.n < e.n => Effd(s, f),
         NEW t, t = Handled(s, e, r)
  PROVE  /\ t \in Outcomes /\ Running(t, m, r) /\ InPlace(t, m, r) /\ Effd(t, e)
         /\ \A f \in Mine(m, r) : Effd(s, f) => Effd(t, f)
<1>1. /\ r.muts \subseteq Mutation /\ pending \subseteq Mutation
      /\ m \in Memory /\ remote[m] \in Row
  BY DEF Serves, Request, TypeOK
<1>2. e \in r.muts /\ e.mem = m /\ e \in Mutation /\ CarriesIn(e, r)
  BY <1>1 DEF Mine, Serves, Carried
<1>3. e.op \in {"create", "delete", "restore"} BY <1>2 DEF Mutation
<1>4. t \in Outcomes /\ (Refuses(s, e, r, t) \/ Confirms(s, e, r, t) \/ Applies(s, e, r, t))
  BY <1>2, HandledIs
<1>5. s.row \in Row /\ s.applied \subseteq Mutation BY DEF Outcomes
<1>6. ~Misnamed(e, r) BY <1>2 DEF Misnamed, CarriesIn
<1>7. ~Elsewhere(s, e, r) BY DEF Elsewhere, InPlace
<1>8. Effd(s, e) <=> IsKnown(s, e) \/ IsDone(s, e)
  BY <1>3 DEF Effd, IsKnown, IsDone
<1>9. ASSUME ~Effd(s, e)
      PROVE  /\ Pre(e.op) = s.row.state /\ ~IsImpossible(s, e)
             /\ \E f \in LeftIn(s, m) :
                  /\ Same(e, f)
                  /\ Replays(LeftIn(s, m) \ {f}, Post(e.op), memories[m])
  <2>1. /\ LeftIn(s, m) \in SUBSET Mutation
        /\ \A k, j \in LeftIn(s, m) : k.n = j.n => k = j
    BY <1>9, FirstLeft
  <2>2. PICK f \in LeftIn(s, m) : Same(e, f) /\ \A k \in LeftIn(s, m) : f.n <= k.n
    BY <1>9, FirstLeft
  <2>3. Replays(LeftIn(s, m), s.row.state, memories[m]) BY DEF Running
  <2>4. /\ Pre(f.op) = s.row.state
        /\ Replays(LeftIn(s, m) \ {f}, Post(f.op), memories[m])
    BY <2>1, <2>2, <2>3, ReplayFirst
  <2>5. f.op = e.op BY <2>2 DEF Same
  <2>6. ~IsImpossible(s, e) BY <1>3, <2>4, <2>5 DEF IsImpossible, Pre
  <2> QED BY <2>2, <2>4, <2>5, <2>6
<1>10. CASE Refuses(s, e, r, t)
  BY <1>6, <1>7, <1>8, <1>9, <1>10 DEF Refuses
<1>11. CASE Confirms(s, e, r, t)
  <2>1. /\ t.row = s.row /\ t.refused = s.refused
        /\ t.confirmed = s.confirmed \union {e} /\ t.applied = s.applied
        /\ Effd(s, e)
    BY <1>8, <1>11 DEF Confirms
  <2>2. \A f : Effd(t, f) <=> Effd(s, f) BY <2>1 DEF Effd
  <2>3. s.row.state # "none"
    <3>1. CASE Id(e) \in seen
      <4>1. Exists(m) BY <1>2, <3>1 DEF Serves, Agreed, Applied
      <4> QED BY <4>1 DEF Running
    <3>2. CASE Id(e) \in {Id(k) : k \in s.applied} BY <3>2 DEF Running
    <3> QED BY <2>1, <3>1, <3>2 DEF Effd
  <2>4. LeftIn(t, m) = LeftIn(s, m) BY <2>2 DEF LeftIn
  <2>5. Running(t, m, r) BY <2>1, <2>2, <2>3, <2>4 DEF Running
  <2>6. InPlace(t, m, r) BY <2>1 DEF InPlace
  <2> QED BY <1>4, <2>1, <2>2, <2>5, <2>6
<1>12. CASE Applies(s, e, r, t)
  <2>1. /\ t.row = Move(s.row, e) /\ t.refused = s.refused
        /\ t.confirmed = s.confirmed \union {e} /\ t.applied = s.applied \union {e}
        /\ ~Effd(s, e)
    BY <1>8, <1>12 DEF Applies
  <2>2. PICK f \in LeftIn(s, m) :
          Same(e, f) /\ Replays(LeftIn(s, m) \ {f}, Post(e.op), memories[m])
    BY <1>9, <2>1
  <2>3. Pre(e.op) = s.row.state BY <1>9, <2>1
  <2>4. t.row.state = Post(e.op) /\ t.row.state # "none"
    BY <1>2, <1>3, <1>5, <2>1, MoveType DEF Post
  <2>5. e.op # "create" => s.row.state # "none" BY <1>3, <2>3 DEF Pre
  <2>6. e.op = "create" => s.row.state = "none" BY <2>3 DEF Pre
  <2>7. t.row.project = r.project
    <3>1. CASE e.op = "create"
      <4>1. t.row.project = e.project BY <1>2, <1>5, <2>1, <3>1, MoveType
      <4> QED BY <1>2, <4>1 DEF CarriesIn
    <3>2. CASE e.op # "create"
      <4>1. t.row.project = s.row.project BY <1>2, <1>3, <1>5, <2>1, <3>2, MoveType
      <4>2. s.row.project = r.project BY <2>5, <3>2 DEF InPlace
      <4> QED BY <4>1, <4>2
    <3> QED BY <3>1, <3>2
  <2>8. s.row.state # "none" => t.row.project = s.row.project
    BY <1>2, <1>3, <1>5, <2>1, <2>6, MoveType
  <2>9. \A k : Effd(t, k) <=> \/ Effd(s, k) \/ Id(k) = Id(e) \/ k.op = "create"
    <3>1. TAKE k
    <3>2. {Id(j) : j \in t.applied} = {Id(j) : j \in s.applied} \union {Id(e)}
      BY <2>1
    <3> QED BY <2>4, <3>2 DEF Effd
  <2>10. LeftIn(t, m) = LeftIn(s, m) \ {f}
    <3>1. ASSUME NEW k \in LeftIn(s, m), k.op = "create" PROVE k = f
      <4>1. s.row.state = "none" BY <3>1 DEF LeftIn, Effd
      <4>2. f.op = "create" BY <2>2, <2>5, <4>1 DEF Same
      <4>3. k.n <= f.n /\ f.n <= k.n /\ k.mem = f.mem
        BY <3>1, <4>2 DEF LeftIn, Serves, Agreed, Journaled, JournaledAs
      <4>4. k.n \in Nat /\ f.n \in Nat
        BY <1>1, ProjectMoveAssumption DEF LeftIn, Mutation
      <4>5. k.n = f.n BY <4>3, <4>4
      <4> QED BY <4>3, <4>5 DEF LeftIn, Serves, Agreed, Journaled, JournaledAs
    <3>2. ASSUME NEW k \in LeftIn(s, m), Id(k) = Id(e) PROVE k = f
      <4>1. Same(k, f) BY <2>2, <3>2, SameIs
      <4> QED BY <4>1 DEF Same, LeftIn, Serves, Agreed, Journaled, JournaledAs
    <3>3. Effd(t, f) BY <2>2, <2>9, SameIs
    <3>4. \A k \in LeftIn(s, m) : k # f => ~Effd(t, k)
      BY <2>9, <3>1, <3>2 DEF LeftIn
    <3>5. \A k : Effd(s, k) => Effd(t, k) BY <2>9
    <3> QED BY <3>3, <3>4, <3>5 DEF LeftIn
  <2>11. Effd(t, e) /\ \A k : Effd(s, k) => Effd(t, k) BY <2>9
  <2>12. Running(t, m, r)
    <3>1. /\ t.applied \subseteq Mine(m, r) /\ t.confirmed \subseteq Mine(m, r)
          /\ t.refused = {}
      BY <2>1 DEF Running
    <3>2. Exists(m) /\ remote[m].project = "B" => t.row.project = "B"
      BY <2>8 DEF Running
    <3>3. \A k \in t.applied :
            t.row.state # "none" /\ (k.op = "reproject" => t.row.project = "B")
      BY <2>1, <2>4, <2>8 DEF Running
    <3>4. \A k \in t.confirmed :
            t.row.state # "none"
              /\ IF k.op = "reproject" THEN t.row.project = "B" ELSE Effd(t, k)
      BY <2>1, <2>4, <2>8, <2>11 DEF Running
    <3>5. Replays(LeftIn(t, m), t.row.state, memories[m]) BY <2>2, <2>4, <2>10
    <3> QED BY <2>1, <2>4, <2>7, <3>1, <3>2, <3>3, <3>4, <3>5 DEF Running
  <2>13. InPlace(t, m, r) BY <2>7 DEF InPlace
  <2> QED BY <1>4, <2>11, <2>12, <2>13
<1> QED BY <1>4, <1>10, <1>11, <1>12

LEMMA StartRuns ==
  ASSUME NEW m, NEW r, Serves(m, r)
  PROVE  Start(m) \in Outcomes /\ Running(Start(m), m, r)
<1> DEFINE s == Start(m)
<1>1. s \in Outcomes BY StartType DEF Serves
<1>2. /\ s.row = remote[m] /\ s.confirmed = {} /\ s.refused = {} /\ s.applied = {}
  BY DEF Start
<1> HIDE DEF s
<1>3. \A e : e.mem = m => (Effd(s, e) <=> Effected(e))
  BY <1>2 DEF Effd, Effected, Exists
<1>4. LeftIn(s, m) = Left(m) BY <1>3 DEF LeftIn, Left
<1>5. Replays(LeftIn(s, m), s.row.state, memories[m])
  BY <1>2, <1>4 DEF Serves, Agreed, Replaying
<1>6. Running(s, m, r) BY <1>2, <1>5 DEF Running, Exists
<1> QED BY <1>1, <1>6 DEF s

(* A reproject is confirmed, and the memory is then in B.                  *)
LEMMA ReprojectRuns ==
  ASSUME NEW m, NEW r, Serves(m, r), NEW s \in Outcomes, Running(s, m, r),
         NEW e \in Mine(m, r), e.op = "reproject",
         NEW t, t = Handled(s, e, r)
  PROVE  t \in Outcomes /\ Running(t, m, r) /\ InPlace(t, m, r)
<1>1. /\ r.muts \subseteq Mutation /\ pending \subseteq Mutation
      /\ m \in Memory /\ remote[m] \in Row
  BY DEF Serves, Request, TypeOK
<1>2. e \in r.muts /\ e.mem = m /\ e \in Mutation /\ CarriesIn(e, r)
  BY <1>1 DEF Mine, Serves, Carried
<1>3. m \in present /\ r.project = "B" BY <1>2 DEF CarriesIn
<1>4. Exists(m) BY <1>1, <1>3 DEF Serves, Agreed, Evident
<1>5. s.row \in Row /\ s.row.state # "none" BY <1>4 DEF Running, Outcomes
<1>6. t \in Outcomes /\ (Refuses(s, e, r, t) \/ Confirms(s, e, r, t) \/ Applies(s, e, r, t))
  BY <1>2, HandledIs
<1>7. CASE Refuses(s, e, r, t)
  BY <1>5, <1>7 DEF Refuses, Misnamed, Elsewhere, IsImpossible
<1>8. CASE Confirms(s, e, r, t)
  <2>1. /\ t.row = s.row /\ t.refused = s.refused
        /\ t.confirmed = s.confirmed \union {e} /\ t.applied = s.applied
    BY <1>8 DEF Confirms
  <2>2. s.row.project = "B"
    <3>1. CASE Id(e) \in seen
      <4>1. remote[m].project = "B" BY <1>2, <3>1 DEF Serves, Agreed, Applied
      <4> QED BY <1>4, <4>1 DEF Running
    <3>2. CASE Id(e) \in {Id(k) : k \in s.applied}
      <4>1. PICK k \in s.applied : Id(k) = Id(e) BY <3>2
      <4>2. k.op = "reproject" BY <4>1 DEF Id
      <4> QED BY <4>2 DEF Running
    <3>3. CASE IsDone(s, e) BY <3>3 DEF IsDone
    <3> QED BY <1>8, <3>1, <3>2, <3>3 DEF Confirms, IsKnown
  <2>3. \A f : Effd(t, f) <=> Effd(s, f) BY <2>1 DEF Effd
  <2>4. LeftIn(t, m) = LeftIn(s, m) BY <2>3 DEF LeftIn
  <2>5. \A k \in t.confirmed :
          t.row.state # "none"
            /\ IF k.op = "reproject" THEN t.row.project = "B" ELSE Effd(t, k)
    BY <1>5, <2>1, <2>2, <2>3 DEF Running
  <2>6. Running(t, m, r) BY <1>2, <2>1, <2>4, <2>5 DEF Running
  <2>7. InPlace(t, m, r) BY <1>3, <2>1, <2>2 DEF InPlace
  <2> QED BY <1>6, <2>6, <2>7
<1>9. CASE Applies(s, e, r, t)
  <2>1. /\ t.row = Move(s.row, e) /\ t.refused = s.refused
        /\ t.confirmed = s.confirmed \union {e} /\ t.applied = s.applied \union {e}
    BY <1>9 DEF Applies
  <2>2. t.row.state = s.row.state /\ t.row.project = "B"
    BY <1>2, <1>5, <2>1, MoveType
  <2>3. \A f : f.op # "reproject" => (Effd(t, f) <=> Effd(s, f))
    <3>1. TAKE f
    <3>2. HAVE f.op # "reproject"
    <3>3. Id(f) # Id(e) BY <3>2 DEF Id
    <3>4. {Id(j) : j \in t.applied} = {Id(j) : j \in s.applied} \union {Id(e)}
      BY <2>1
    <3> QED BY <2>2, <3>3, <3>4 DEF Effd
  <2>4. LeftIn(t, m) = LeftIn(s, m) BY <2>3 DEF LeftIn
  <2>5. \A k \in t.confirmed :
          t.row.state # "none"
            /\ IF k.op = "reproject" THEN t.row.project = "B" ELSE Effd(t, k)
    BY <1>5, <2>1, <2>2, <2>3 DEF Running
  <2>6. /\ t.applied \subseteq Mine(m, r) /\ t.confirmed \subseteq Mine(m, r)
        /\ t.refused = {} /\ t.applied # {}
    BY <2>1 DEF Running
  <2>7. \A k \in t.applied :
          t.row.state # "none" /\ (k.op = "reproject" => t.row.project = "B")
    BY <1>5, <2>2
  <2>8. Replays(LeftIn(t, m), t.row.state, memories[m])
    BY <2>2, <2>4 DEF Running
  <2>9. Running(t, m, r)
    BY <1>3, <1>5, <2>2, <2>5, <2>6, <2>7, <2>8 DEF Running
  <2>10. InPlace(t, m, r) BY <1>3, <2>2 DEF InPlace
  <2> QED BY <1>6, <2>9, <2>10
<1> QED BY <1>6, <1>7, <1>8, <1>9

(* Reprojects come first: after them the row is in the request's project.  *)
LEMMA ZeroRuns ==
  ASSUME NEW m, NEW r, Serves(m, r), NEW t, t = After(Start(m), 0, m, r)
  PROVE  t \in Outcomes /\ Running(t, m, r) /\ InPlace(t, m, r)
<1>1. r \in Request /\ m \in Memory /\ r.project \in Project /\ home \in Project
  BY DEF Serves, Request, TypeOK
<1>2. Start(m) \in Outcomes /\ Running(Start(m), m, r) BY StartRuns
<1>3. \A e \in Mine(m, r) : CarriesIn(e, r) /\ e.mem = m
  BY DEF Mine, Serves, Carried
<1>4. CASE {e \in Mine(m, r) : e.n = 0} = {} /\ t = Start(m)
  <2>1. ASSUME Exists(m), NEW e \in Mine(m, r), e.op # "reproject"
        PROVE  remote[m].project = r.project
    <3>1. ~(\E f \in r.muts : f.op = "reproject" /\ f.mem = m)
      BY <1>3, <1>4 DEF Mine, CarriesIn
    <3>2. ~(r.project = "B" /\ remote[m].project = "A")
      BY <1>3, <2>1, <3>1 DEF CarriesIn
    <3>3. Placed(m) /\ (r.project = "B" => home = "B")
      BY <1>1 DEF Serves, Agreed, Carried
    <3>4. ~Beside(m, r) BY DEF Serves
    <3> QED BY <1>1, <2>1, <3>2, <3>3, <3>4 DEF Placed, Beside, Project
  <2>2. Start(m).row = remote[m] BY DEF Start
  <2>3. InPlace(Start(m), m, r) BY <2>1, <2>2 DEF InPlace, Exists
  <2> QED BY <1>2, <1>4, <2>3
<1>5. CASE \E e \in Mine(m, r) : e \in Mutation /\ e.n = 0 /\ t = Handled(Start(m), e, r)
  <2>1. PICK e \in Mine(m, r) : e.n = 0 /\ t = Handled(Start(m), e, r) BY <1>5
  <2>2. e.op = "reproject"
    <3>1. 0 \notin 1 .. made OBVIOUS
    <3> QED BY <1>3, <2>1, <3>1 DEF CarriesIn
  <2> QED BY <1>2, <2>1, <2>2, ReprojectRuns
<1>6. \/ {e \in Mine(m, r) : e.n = 0} = {} /\ t = Start(m)
      \/ \E e \in Mine(m, r) : e \in Mutation /\ e.n = 0 /\ t = Handled(Start(m), e, r)
  BY <1>1, <1>2, AfterType
<1> QED BY <1>4, <1>5, <1>6

LEMMA OutcomeRuns ==
  ASSUME NEW m, NEW r, Serves(m, r)
  PROVE  /\ Outcome(m, r) \in Outcomes
         /\ Running(Outcome(m, r), m, r) /\ InPlace(Outcome(m, r), m, r)
<1>1. PICK g : /\ g[0] = After(Start(m), 0, m, r)
               /\ \A n \in 0 .. MaxOps - 1 : g[n + 1] = After(g[n], n + 1, m, r)
               /\ Outcome(m, r) = g[MaxOps]
  BY OutcomeOfRun
<1>2. MaxOps \in Nat BY ProjectMoveAssumption
<1>3. r \in Request /\ m \in Memory BY DEF Serves
<1>4. \A e \in Mine(m, r) : e \in r.muts /\ CarriesIn(e, r) /\ e.mem = m
  BY DEF Mine, Serves, Carried
<1>5. \A e \in Mine(m, r) : e.n \in Nat
  BY <1>2, <1>3, <1>4 DEF Request, Mutation
<1> DEFINE Until(s, n) == \A f \in Mine(m, r) : f.op # "reproject" /\ f.n <= n => Effd(s, f)
           Good(s, n) == /\ s \in Outcomes /\ Running(s, m, r) /\ InPlace(s, m, r)
                         /\ Until(s, n)
           T == {n \in 0 .. MaxOps : Good(g[n], n)}
<1>6. 0 \in T
  <2>1. Until(g[0], 0)
    <3>1. SUFFICES ASSUME NEW f \in Mine(m, r), f.op # "reproject", f.n <= 0 PROVE FALSE
      OBVIOUS
    <3>2. f.n \in 1 .. made BY <1>4, <3>1 DEF CarriesIn
    <3> QED BY <1>5, <3>1, <3>2
  <2>2. Good(g[0], 0) BY <1>1, <2>1, ZeroRuns
  <2> QED BY <1>2, <2>2
<1>7. ASSUME NEW n \in 0 .. MaxOps - 1, n \in T PROVE n + 1 \in T
  <2>1. /\ Good(g[n], n) /\ g[n + 1] = After(g[n], n + 1, m, r)
        /\ n + 1 \in 0 .. MaxOps
    BY <1>1, <1>2, <1>7
  <2>2. CASE {e \in Mine(m, r) : e.n = n + 1} = {} /\ g[n + 1] = g[n]
    <3>1. ASSUME NEW f \in Mine(m, r), f.n <= n + 1 PROVE f.n <= n
      <4>1. f.n \in Nat /\ f.n # n + 1 BY <1>5, <2>2
      <4> QED BY <3>1, <4>1
    <3>2. Until(g[n + 1], n + 1) BY <2>1, <2>2, <3>1
    <3> QED BY <2>1, <2>2, <3>2
  <2>3. CASE \E e \in Mine(m, r) : /\ e \in Mutation /\ e.n = n + 1
                                   /\ g[n + 1] = Handled(g[n], e, r)
    <3>1. PICK e \in Mine(m, r) : e.n = n + 1 /\ g[n + 1] = Handled(g[n], e, r) BY <2>3
    <3>2. e.op # "reproject"
      <4>1. e.n # 0 BY <3>1
      <4> QED BY <1>4, <4>1 DEF CarriesIn
    <3>3. ASSUME NEW f \in Mine(m, r), f.op # "reproject", f.n < e.n PROVE Effd(g[n], f)
      <4>1. f.n <= n BY <1>5, <3>1, <3>3
      <4> QED BY <2>1, <3>3, <4>1
    <3> DEFINE s == g[n]
               t == g[n + 1]
    <3>4. /\ s \in Outcomes /\ Running(s, m, r) /\ InPlace(s, m, r) /\ t = Handled(s, e, r)
          /\ \A f \in Mine(m, r) : f.op # "reproject" /\ f.n < e.n => Effd(s, f)
      BY <2>1, <3>1, <3>3
    <3> HIDE DEF s, t
    <3>5. /\ t \in Outcomes /\ Running(t, m, r) /\ InPlace(t, m, r) /\ Effd(t, e)
          /\ \A f \in Mine(m, r) : Effd(s, f) => Effd(t, f)
      BY <3>2, <3>4, ChangeRuns
    <3>6. ASSUME NEW f \in Mine(m, r), f.op # "reproject", f.n <= n + 1
          PROVE  Effd(t, f)
      <4>1. CASE f.n = n + 1
        <5>1. f = e BY <1>4, <3>1, <4>1 DEF CarriesIn
        <5> QED BY <3>5, <5>1
      <4>2. CASE f.n # n + 1
        <5>1. f.n <= n BY <1>5, <3>6, <4>2
        <5>2. Effd(g[n], f) BY <2>1, <3>6, <5>1
        <5> QED BY <3>5, <5>2 DEF s
      <4> QED BY <4>1, <4>2
    <3>7. Until(t, n + 1) BY <3>6
    <3>8. Good(t, n + 1) BY <3>5, <3>7
    <3> QED BY <2>1, <3>8 DEF t
  <2>4. g[n] \in Outcomes BY <2>1
  <2> HIDE DEF T, Good
  <2>5. \/ {e \in Mine(m, r) : e.n = n + 1} = {} /\ g[n + 1] = g[n]
        \/ \E e \in Mine(m, r) : /\ e \in Mutation /\ e.n = n + 1
                                 /\ g[n + 1] = Handled(g[n], e, r)
    BY <1>3, <2>1, <2>4, AfterType
  <2> QED BY <2>2, <2>3, <2>5
<1> HIDE DEF T
<1>8. 0 .. MaxOps \subseteq T BY <1>2, <1>6, <1>7, UpTo
<1>9. MaxOps \in 0 .. MaxOps BY <1>2
<1>10. MaxOps \in T BY <1>8, <1>9
<1>11. Good(g[MaxOps], MaxOps) BY <1>10 DEF T
<1> QED BY <1>1, <1>11

(* A request from before the promotion changes nothing of a memory that    *)
(* has moved since.                                                        *)
LEMMA BesideKeeps ==
  ASSUME TypeOK, NEW r \in Request, NEW m \in Memory, Carried(r), Beside(m, r)
  PROVE  Outcome(m, r).row = remote[m] /\ Outcome(m, r).applied = {}
<1>1. PICK g : /\ g[0] = After(Start(m), 0, m, r)
               /\ \A n \in 0 .. MaxOps - 1 : g[n + 1] = After(g[n], n + 1, m, r)
               /\ Outcome(m, r) = g[MaxOps]
  BY OutcomeOfRun
<1>2. MaxOps \in Nat BY ProjectMoveAssumption
<1> DEFINE Kept(s) == s \in Outcomes /\ s.row = remote[m] /\ s.applied = {}
           T == {n \in 0 .. MaxOps : Kept(g[n])}
<1>3. ASSUME NEW n, NEW s, Kept(s) PROVE Kept(After(s, n, m, r))
  <2>1. CASE After(s, n, m, r) = s BY <1>3, <2>1
  <2>2. CASE \E e \in Mine(m, r) : e \in Mutation /\ e.n = n /\ After(s, n, m, r) = Handled(s, e, r)
    <3>1. PICK e \in Mine(m, r) : e \in Mutation /\ After(s, n, m, r) = Handled(s, e, r)
      BY <2>2
    <3>2. e.op # "reproject" BY DEF Mine, Carried, CarriesIn, Beside
    <3>3. Elsewhere(s, e, r) BY <1>3, <3>2 DEF Elsewhere, Beside, Exists
    <3> DEFINE t == Handled(s, e, r)
    <3>4. t \in Outcomes /\ (Refuses(s, e, r, t) \/ Confirms(s, e, r, t) \/ Applies(s, e, r, t))
      BY <1>3, <3>1, HandledIs
    <3> HIDE DEF t
    <3>5. t.row = s.row /\ t.applied = s.applied
      BY <3>3, <3>4 DEF Refuses, Confirms, Applies
    <3>6. Kept(t) BY <1>3, <3>4, <3>5
    <3> QED BY <3>1, <3>6 DEF t
  <2> QED BY <1>3, <2>1, <2>2, AfterType
<1>4. Kept(Start(m)) BY StartType DEF Start
<1> HIDE DEF Kept
<1>5. 0 \in T BY <1>1, <1>2, <1>3, <1>4
<1>6. \A n \in 0 .. MaxOps - 1 : n \in T => n + 1 \in T BY <1>1, <1>2, <1>3
<1> HIDE DEF T
<1>7. 0 .. MaxOps \subseteq T BY <1>2, <1>5, <1>6, UpTo
<1>8. MaxOps \in 0 .. MaxOps BY <1>2
<1>9. MaxOps \in T BY <1>7, <1>8
<1>10. Kept(g[MaxOps]) BY <1>9 DEF T
<1> QED BY <1>1, <1>10 DEF Kept

(* What a request does to a memory, sent before the promotion or not.      *)
Sound(s, m, r) ==
  /\ s \in Outcomes /\ s.applied \subseteq Mine(m, r)
  /\ Exists(m) => s.row.state # "none"
  /\ Exists(m) /\ remote[m].project = "B" => s.row.project = "B"
  /\ s.row = remote[m] \/ (s.row.project = r.project /\ s.applied # {} /\ ~Beside(m, r))
  /\ \A e \in s.applied :
       s.row.state # "none" /\ (e.op = "reproject" => s.row.project = "B")
  /\ Replays(LeftIn(s, m), s.row.state, memories[m])

LEMMA OutcomeSound ==
  ASSUME TypeOK, Agreed, NEW r \in Request, Carried(r), NEW m \in Memory
  PROVE  /\ Sound(Outcome(m, r), m, r)
         /\ ~Beside(m, r) => Running(Outcome(m, r), m, r)
<1> DEFINE s == Outcome(m, r)
<1>1. CASE ~Beside(m, r)
  <2>1. Serves(m, r) BY <1>1 DEF Serves
  <2>2. s \in Outcomes /\ Running(s, m, r) BY <2>1, OutcomeRuns
  <2> HIDE DEF s
  <2>3. Sound(s, m, r) BY <1>1, <2>2 DEF Running, Sound
  <2> QED BY <2>2, <2>3 DEF s
<1>2. CASE Beside(m, r)
  <2>1. s \in Outcomes BY OutcomeType
  <2>2. s.row = remote[m] /\ s.applied = {} BY <1>2, BesideKeeps
  <2> HIDE DEF s
  <2>3. \A e : e.mem = m => (Effd(s, e) <=> Effected(e))
    BY <2>2 DEF Effd, Effected, Exists
  <2>4. LeftIn(s, m) = Left(m) BY <2>3 DEF LeftIn, Left
  <2>5. Replays(LeftIn(s, m), s.row.state, memories[m])
    BY <2>2, <2>4 DEF Agreed, Replaying
  <2>6. Sound(s, m, r) BY <2>1, <2>2, <2>5 DEF Sound, Exists
  <2> QED BY <1>2, <2>6 DEF s
<1> QED BY <1>1, <1>2

LEMMA ServedSeen ==
  ASSUME TypeOK, Agreed, NEW r \in Request, Carried(r), Serve(r), NEW e, e.mem \in Memory
  PROVE  Id(e) \in seen' <=> Id(e) \in seen \union {Id(k) : k \in Outcome(e.mem, r).applied}
<1>1. \A m \in Memory : Outcome(m, r).applied \subseteq Mine(m, r)
  BY OutcomeSound DEF Sound
<1>2. seen' = seen \union UNION {{Id(k) : k \in Outcome(m, r).applied} : m \in Memory}
  BY DEF Serve
<1>3. ASSUME NEW m \in Memory, NEW k \in Outcome(m, r).applied, Id(k) = Id(e)
      PROVE  m = e.mem
  <2>1. k.mem = m BY <1>1, <1>3 DEF Mine
  <2> QED BY <1>3, <2>1 DEF Id
<1> QED BY <1>2, <1>3

LEMMA ServedRow ==
  ASSUME TypeOK, Agreed, NEW r \in Request, Carried(r), Serve(r), NEW m \in Memory
  PROVE  /\ r.muts # {} => /\ remote'[m] = Outcome(m, r).row
                           /\ Left(m)' = LeftIn(Outcome(m, r), m)
                           /\ \A e : e.mem = m => (Effected(e)' <=> Effd(Outcome(m, r), e))
         /\ r.muts = {} => remote'[m] = Inserted(m, r) /\ seen' = seen
<1>1. /\ remote'[m] = IF r.muts # {} THEN Outcome(m, r).row ELSE Inserted(m, r)
      /\ pending' = pending
  BY DEF Serve, device
<1>2. ASSUME r.muts # {}
      PROVE  /\ remote'[m] = Outcome(m, r).row
             /\ Left(m)' = LeftIn(Outcome(m, r), m)
             /\ \A e : e.mem = m => (Effected(e)' <=> Effd(Outcome(m, r), e))
  <2> DEFINE s == Outcome(m, r)
  <2>1. remote'[m] = s.row BY <1>1, <1>2
  <2>2. ASSUME NEW e, e.mem = m PROVE Effected(e)' <=> Effd(s, e)
    <3>1. Id(e) \in seen' <=> Id(e) \in seen \union {Id(k) : k \in s.applied}
      BY <2>2, ServedSeen
    <3> HIDE DEF s
    <3> QED BY <2>1, <2>2, <3>1 DEF Effected, Effd, Exists
  <2> HIDE DEF s
  <2>3. Left(m)' = LeftIn(s, m) BY <1>1, <2>2 DEF Left, LeftIn, Effected, Exists
  <2> QED BY <2>1, <2>2, <2>3 DEF s
<1>3. ASSUME r.muts = {} PROVE seen' = seen
  <2>1. \A k \in Memory : Outcome(k, r).applied = {}
    BY <1>3, OutcomeSound DEF Sound, Mine
  <2> QED BY <2>1 DEF Serve
<1> QED BY <1>1, <1>2, <1>3

(* The rows of a request without mutations: one the server does not have   *)
(* comes in the place of its create.                                       *)
LEMMA InsertedReplays ==
  ASSUME TypeOK, Agreed, NEW r \in Request, Carried(r), Serve(r), r.muts = {},
         NEW m \in Memory, m \in r.rows, ~Exists(m)
  PROVE  /\ remote'[m] = [state |-> "active", project |-> r.project]
         /\ Replaying(m)'
<1>1. remote'[m] = [state |-> "active", project |-> r.project] /\ seen' = seen
  BY ServedRow DEF Inserted, Exists
<1>2. pending' = pending /\ memories' = memories BY DEF Serve, device
<1>3. memories[m] # "none" /\ m \notin present BY DEF Carried, Agreed, Evident
<1>4. PICK c \in pending : c.op = "create" /\ c.mem = m BY <1>3 DEF Agreed, Evident
<1>5. pending \subseteq Mutation BY DEF TypeOK
<1>6. c \in Left(m)
  <2>1. Id(c) \notin seen BY <1>4, <1>5 DEF Agreed, Applied
  <2> QED BY <1>4, <2>1 DEF Left, Effected
<1>7. \A k \in Left(m) : c.n <= k.n
  BY <1>4 DEF Left, Agreed, Journaled, JournaledAs
<1>8. \A k, j \in Left(m) : k.n = j.n => k = j
  BY DEF Left, Agreed, Journaled, JournaledAs
<1>9. Left(m) \in SUBSET Mutation BY <1>5 DEF Left
<1>10. Replays(Left(m), remote[m].state, memories[m]) BY DEF Agreed, Replaying
<1>11. Replays(Left(m) \ {c}, "active", memories[m])
  <2>1. Replays(Left(m) \ {c}, Post(c.op), memories[m])
    BY <1>6, <1>7, <1>8, <1>9, <1>10, ReplayFirst
  <2>2. Post(c.op) = "active" BY <1>4 DEF Post
  <2> QED BY <2>1, <2>2
<1>12. \A k \in Left(m) : k.op = "create" => k = c
  <2>1. SUFFICES ASSUME NEW k \in Left(m), k.op = "create" PROVE k = c OBVIOUS
  <2>2. k.n <= c.n /\ c.n <= k.n
    BY <1>4, <1>7, <2>1 DEF Left, Agreed, Journaled, JournaledAs
  <2>3. k.n \in Nat /\ c.n \in Nat
    BY <1>6, <1>9, ProjectMoveAssumption DEF Mutation
  <2>4. k.n = c.n BY <2>2, <2>3
  <2> QED BY <1>6, <1>8, <2>4
<1>13. \A e : e.mem = m => (Effected(e)' <=> Effected(e) \/ e.op = "create")
  BY <1>1 DEF Effected, Exists
<1>14. Left(m)' = Left(m) \ {c}
  <2>1. Left(m)' = {e \in pending : e.mem = m /\ e.op # "reproject" /\ ~Effected(e)'}
    BY <1>2 DEF Left
  <2> QED BY <1>4, <1>12, <1>13, <2>1 DEF Left
<1>15. Replaying(m)' BY <1>1, <1>2, <1>11, <1>14 DEF Replaying
<1> QED BY <1>1, <1>15

LEMMA ServedMemory ==
  ASSUME TypeOK, Agreed, NEW r \in Request, Carried(r), Outlived(r), Serve(r), NEW m \in Memory
  PROVE  /\ Exists(m) => Exists(m)'
         /\ Exists(m) /\ remote[m].project = "B" => remote'[m].project = "B"
         /\ remote'[m] = remote[m] \/ remote'[m].project = r.project
         /\ Exists(m)' /\ remote'[m].project = "A" /\ home = "B" =>
              Exists(m) /\ remote[m].project = "A"
         /\ Exists(m)' => /\ memories[m] # "none"
                          /\ \/ Exists(m) \/ m \in present \union sent
                             \/ r.muts = {} /\ m \in r.rows
         /\ Replaying(m)'
<1>1. UNCHANGED <<pending, memories, home, present, sent>> BY DEF Serve, device, evidence
<1>2. remote[m] \in Row /\ r.muts \subseteq Mutation /\ r.rows \subseteq Memory
  BY DEF TypeOK, Request
<1>3. Placed(m) /\ home \in Project /\ r.project \in Project
  BY DEF Agreed, TypeOK, Request
<1>4. Exists(m) => memories[m] # "none" BY DEF Agreed, Evident
<1>5. CASE r.muts # {}
  <2> DEFINE s == Outcome(m, r)
  <2>1. remote'[m] = s.row /\ Left(m)' = LeftIn(s, m) BY <1>5, ServedRow
  <2>2. Sound(s, m, r) BY OutcomeSound
  <2> HIDE DEF s
  <2>3. ASSUME s.row # remote[m]
        PROVE  /\ s.row.project = r.project /\ ~Beside(m, r)
               /\ memories[m] # "none" /\ m \in present \union sent
               /\ home = "B" /\ r.project = "A" => Exists(m)
    <3>1. /\ s.row.project = r.project /\ s.applied # {} /\ ~Beside(m, r)
          /\ s.applied \subseteq Mine(m, r)
      BY <2>2, <2>3 DEF Sound
    <3>2. PICK k \in Mine(m, r) : TRUE BY <3>1
    <3>3. k \in r.muts /\ k.mem = m BY <3>2 DEF Mine
    <3>4. CarriesIn(k, r) BY <3>3 DEF Carried
    <3>5. memories[m] # "none" /\ m \in present \union sent BY <3>3, <3>4 DEF CarriesIn
    <3>6. home = "B" /\ r.project = "A" => m \in present BY <3>3 DEF Outlived
    <3>7. m \in present => Exists(m) BY DEF Agreed, Evident
    <3> QED BY <3>1, <3>5, <3>6, <3>7
  <2>4. Exists(m) => Exists(m)' BY <2>1, <2>2 DEF Sound, Exists
  <2>5. Exists(m) /\ remote[m].project = "B" => remote'[m].project = "B"
    BY <2>1, <2>2 DEF Sound
  <2>6. remote'[m] = remote[m] \/ remote'[m].project = r.project BY <2>1, <2>3
  <2>7. ASSUME Exists(m)', remote'[m].project = "A", home = "B"
        PROVE  Exists(m) /\ remote[m].project = "A"
    <3>1. CASE s.row = remote[m] BY <2>1, <2>7, <3>1 DEF Exists
    <3>2. CASE s.row # remote[m]
      <4>1. Exists(m) /\ ~Beside(m, r) /\ r.project = "A" BY <2>1, <2>3, <2>7, <3>2
      <4> QED BY <1>3, <2>7, <4>1 DEF Beside, Placed
    <3> QED BY <3>1, <3>2
  <2>8. Exists(m)' => memories[m] # "none" /\ (Exists(m) \/ m \in present \union sent)
    BY <1>4, <2>1, <2>3 DEF Exists
  <2>9. Replaying(m)' BY <1>1, <2>1, <2>2 DEF Sound, Replaying
  <2> QED BY <2>4, <2>5, <2>6, <2>7, <2>8, <2>9
<1>6. CASE r.muts = {} /\ m \in r.rows /\ ~Exists(m)
  <2>1. remote'[m] = [state |-> "active", project |-> r.project] /\ Replaying(m)'
    BY <1>6, InsertedReplays
  <2>2. memories[m] # "none" BY <1>6 DEF Carried
  <2>3. ~(home = "B" /\ r.project = "A") BY <1>6 DEF Outlived, Agreed, Evident
  <2> QED BY <1>6, <2>1, <2>2, <2>3
<1>7. CASE r.muts = {} /\ ~(m \in r.rows /\ ~Exists(m))
  <2>1. remote'[m] = remote[m] /\ seen' = seen BY <1>7, ServedRow DEF Inserted, Exists
  <2>2. Left(m)' = Left(m) BY <1>1, <2>1 DEF Left, Effected, Exists
  <2>3. Replaying(m)' BY <1>1, <2>1, <2>2 DEF Agreed, Replaying
  <2>4. Exists(m)' <=> Exists(m) BY <2>1 DEF Exists
  <2> QED BY <1>4, <2>1, <2>3, <2>4
<1> QED BY <1>5, <1>6, <1>7

LEMMA ServedAgrees ==
  ASSUME TypeOK, TypeOK', Agreed, NEW r \in Request, Carried(r), Outlived(r), Serve(r)
  PROVE  Agreed' /\ Grows
<1>1. UNCHANGED <<pending, memories, home, present, sent, made, unsynced, rejected>>
  BY DEF Serve, device, evidence
<1>2. seen \subseteq seen' BY DEF Serve
<1>3. made \in Nat
  <2>1. made \in 0 .. MaxOps /\ MaxOps \in Nat BY ProjectMoveAssumption DEF TypeOK
  <2> QED BY <2>1
<1>4. home \in Project /\ r.project \in Project /\ r.muts \subseteq Mutation
  BY DEF TypeOK, Request
<1>5. Grows
  <2>1. \A m \in Memory : Exists(m) => Exists(m)' BY ServedMemory
  <2>2. \A m \in Memory : Exists(m) /\ remote[m].project = "B" => remote'[m].project = "B"
    BY ServedMemory
  <2>3. \A m \in Memory : Exists(m)' /\ remote'[m].project = "A" /\ home' = "B" =>
          Exists(m) /\ remote[m].project = "A"
    BY <1>1, ServedMemory
  <2> QED BY <1>1, <1>2, <1>3, <2>1, <2>2, <2>3 DEF Grows, Same, Exists
<1>6. Journaled' BY <1>1 DEF Agreed, Journaled, JournaledAs
<1>7. Applied'
  <2>1. ASSUME NEW e \in Mutation, Id(e) \in seen'
        PROVE  /\ Exists(e.mem)' /\ e.n <= made
               /\ e.op = "reproject" => remote'[e.mem].project = "B" /\ e.n = 0
    <3> DEFINE m == e.mem
               s == Outcome(m, r)
    <3>1. m \in Memory /\ e.n \in Nat BY ProjectMoveAssumption DEF Mutation
    <3>2. Id(e) \in seen \union {Id(k) : k \in s.applied} BY <2>1, <3>1, ServedSeen
    <3>3. CASE Id(e) \in seen
      <4>1. /\ Exists(m) /\ e.n <= made
            /\ e.op = "reproject" => remote[m].project = "B" /\ e.n = 0
        BY <3>3 DEF Agreed, Applied
      <4> QED BY <3>1, <4>1, ServedMemory
    <3>4. CASE Id(e) \in {Id(k) : k \in s.applied}
      <4>1. PICK k \in s.applied : Id(k) = Id(e) BY <3>4
      <4>2. Sound(s, m, r) BY <3>1, OutcomeSound
      <4>3. k \in r.muts BY <4>1, <4>2 DEF Sound, Mine
      <4>4. remote'[m] = s.row BY <3>1, <4>3, ServedRow
      <4>5. s.row.state # "none" /\ (k.op = "reproject" => s.row.project = "B")
        BY <4>1, <4>2 DEF Sound
      <4>6. k.op = e.op /\ k.n = e.n BY <4>1 DEF Id
      <4>7. CarriesIn(k, r) BY <4>3 DEF Carried
      <4>8. e.n = 0 \/ e.n \in 1 .. made BY <4>6, <4>7 DEF CarriesIn
      <4>9. e.op = "reproject" => e.n = 0 BY <4>6, <4>7 DEF CarriesIn
      <4>10. e.n <= made BY <1>3, <4>8
      <4> QED BY <4>4, <4>5, <4>6, <4>9, <4>10 DEF Exists
    <3> QED BY <3>2, <3>3, <3>4
  <2> QED BY <1>1, <2>1 DEF Applied
<1>8. Evident'
  <2>1. ASSUME NEW m \in Memory
        PROVE  /\ m \in present => Exists(m)'
               /\ Exists(m)' \/ m \in unsynced => memories[m] # "none"
               /\ memories[m] # "none" /\ m \notin present =>
                    \E e \in pending : e.op = "create" /\ e.mem = m
    BY ServedMemory DEF Agreed, Evident
  <2> QED BY <1>1, <2>1 DEF Evident, Exists
<1>9. ASSUME NEW m \in Memory PROVE Placed(m)'
  <2>1. Placed(m) /\ (r.project = "B" => home = "B") BY DEF Agreed, Carried
  <2>2. remote'[m] = remote[m] \/ remote'[m].project = r.project BY ServedMemory
  <2>3. Exists(m)' /\ remote'[m].project = "A" /\ home = "B" =>
          Exists(m) /\ remote[m].project = "A"
    BY ServedMemory
  <2>4. ASSUME Exists(m)'
        PROVE  \/ remote'[m].project = home
               \/ home = "B" /\ Moving(m) /\ remote'[m].project = "A"
    <3>1. CASE remote'[m] = remote[m] BY <2>1, <2>4, <3>1 DEF Placed, Exists
    <3>2. CASE remote'[m].project = r.project
      BY <1>4, <2>1, <2>3, <2>4, <3>2 DEF Placed, Project
    <3> QED BY <2>2, <3>1, <3>2
  <2> QED BY <1>1, <2>4 DEF Placed, Moving, Exists
<1>10. \A m \in Memory : Replaying(m)' BY ServedMemory
<1>11. Agreed'
  BY <1>1, <1>6, <1>7, <1>8, <1>9, <1>10 DEF Agreed, Placed, Replaying, Exists, Moving,
     Left, Effected
<1> QED BY <1>5, <1>11

(* The answer, and who gets it.                                            *)
LEMMA AnswerIs ==
  ASSUME TypeOK, NEW r \in wire, Serve(r)
  PROVE  /\ Waiting(r) =>
              /\ phase'[r.from] = "ack" /\ reply'[r.from].v2 = (r.muts # {})
              /\ \A m \in reply'[r.from].pulled : m \in Memory /\ Exists(m)'
              /\ reply'[r.from].confirmed = UNION {Outcome(m, r).confirmed : m \in Memory}
              /\ reply'[r.from].refused = UNION {Outcome(m, r).refused : m \in Memory}
         /\ \A q \in Daemon : ~(Waiting(r) /\ q = r.from) =>
              phase'[q] = phase[q] /\ reply'[q] = reply[q]
<1> DEFINE out == [m \in Memory |-> Outcome(m, r)]
           Pulled == {m \in Memory \ r.rows :
                        remote'[m] = [state |-> "active", project |-> r.project]}
           Answer(S) == [v2 |-> r.muts # {}, pulled |-> S,
                         confirmed |-> UNION {out[m].confirmed : m \in Memory},
                         refused |-> UNION {out[m].refused : m \in Memory}]
<1>1. IF Waiting(r)
        THEN /\ \E S \in SUBSET Pulled : reply' = [reply EXCEPT ![r.from] = Answer(S)]
             /\ phase' = [phase EXCEPT ![r.from] = "ack"]
             /\ knows' = [knows EXCEPT ![r.from] = TRUE]
        ELSE UNCHANGED <<reply, phase, knows>>
  BY DEF Serve
<1>2. /\ UNION {out[m].confirmed : m \in Memory} = UNION {Outcome(m, r).confirmed : m \in Memory}
      /\ UNION {out[m].refused : m \in Memory} = UNION {Outcome(m, r).refused : m \in Memory}
  OBVIOUS
<1>3. CASE Waiting(r)
  <2>1. r.from \in Daemon BY <1>3 DEF TypeOK, Request, Waiting
  <2>2. \A m \in Pulled : m \in Memory /\ Exists(m)' BY DEF Exists
  <2> HIDE DEF out, Pulled, Answer
  <2>3. PICK S \in SUBSET Pulled : reply' = [reply EXCEPT ![r.from] = Answer(S)]
    BY <1>1, <1>3
  <2>4. phase' = [phase EXCEPT ![r.from] = "ack"] BY <1>1, <1>3
  <2>5. reply'[r.from] = Answer(S) /\ \A q \in Daemon \ {r.from} : reply'[q] = reply[q]
    BY <2>1, <2>3 DEF TypeOK
  <2>6. phase'[r.from] = "ack" /\ \A q \in Daemon \ {r.from} : phase'[q] = phase[q]
    BY <2>1, <2>4, PhaseOf
  <2>7. /\ Answer(S).v2 = (r.muts # {}) /\ Answer(S).pulled = S
        /\ Answer(S).confirmed = UNION {Outcome(m, r).confirmed : m \in Memory}
        /\ Answer(S).refused = UNION {Outcome(m, r).refused : m \in Memory}
    BY <1>2 DEF Answer
  <2> DEFINE a == reply'[r.from]
  <2>8. a = Answer(S) BY <2>5
  <2> HIDE DEF a
  <2>9. \A m \in a.pulled : m \in Memory /\ Exists(m)' BY <2>2, <2>7, <2>8
  <2>10. a.v2 = (r.muts # {}) BY <2>7, <2>8
  <2>11. /\ a.confirmed = UNION {Outcome(m, r).confirmed : m \in Memory}
         /\ a.refused = UNION {Outcome(m, r).refused : m \in Memory}
    BY <2>7, <2>8
  <2>12. \A q \in Daemon : ~(Waiting(r) /\ q = r.from) =>
           phase'[q] = phase[q] /\ reply'[q] = reply[q]
    BY <1>3, <2>5, <2>6
  <2>13. Waiting(r) =>
           /\ phase'[r.from] = "ack" /\ a.v2 = (r.muts # {})
           /\ \A m \in a.pulled : m \in Memory /\ Exists(m)'
           /\ a.confirmed = UNION {Outcome(m, r).confirmed : m \in Memory}
           /\ a.refused = UNION {Outcome(m, r).refused : m \in Memory}
    BY <2>6, <2>9, <2>10, <2>11
  <2> QED BY <2>12, <2>13 DEF a
<1>4. CASE ~Waiting(r) BY <1>1, <1>4
<1> QED BY <1>3, <1>4

(* The answer to a Drain that still waits.                                 *)
LEMMA ServedAnswer ==
  ASSUME TypeOK, TypeOK', Wiring, Following, NEW r \in wire, Serve(r), Waiting(r)
  PROVE  WorksFor(r.from)'
<1> DEFINE p == r.from
<1>1. r \in Request /\ p \in Daemon /\ Carried(r) /\ r.muts \subseteq Mutation
      /\ Agreed /\ WorksFor(p)
  BY DEF TypeOK, Request, Waiting, Following
<1>2. /\ phase[p] = "wait" /\ r.project = lease[p] /\ r.rows = batch[p].rows
      /\ lease[p] # ""
  BY <1>1 DEF Wiring, OnWire, Leasing
<1>3. r.project = home BY <1>1, <1>2 DEF WorksFor
<1>4. \A m \in Memory : ~Beside(m, r) BY <1>3 DEF Beside
<1>5. \A m \in Memory : Running(Outcome(m, r), m, r)
  BY <1>1, <1>4, OutcomeSound
<1>6. UNCHANGED <<home, memories, lease, batch>> BY DEF Serve, device
<1>8. /\ reply'[p].v2 = (r.muts # {})
      /\ reply'[p].confirmed = UNION {Outcome(m, r).confirmed : m \in Memory}
      /\ reply'[p].refused = UNION {Outcome(m, r).refused : m \in Memory}
  BY AnswerIs
<1>9. reply'[p].refused = {} BY <1>5, <1>8 DEF Running
<1>10. ASSUME NEW e \in reply'[p].confirmed PROVE Done(e)'
  <2>1. PICK m \in Memory : e \in Outcome(m, r).confirmed BY <1>8, <1>10
  <2> DEFINE s == Outcome(m, r)
  <2>2. e \in Mine(m, r) BY <1>5, <2>1 DEF Running
  <2>3. e \in r.muts /\ e.mem = m BY <2>2 DEF Mine
  <2>4. remote'[m] = s.row /\ \A k : k.mem = m => (Effected(k)' <=> Effd(s, k))
    BY <1>1, <2>3, ServedRow
  <2>5. s.row.state # "none"
          /\ IF e.op = "reproject" THEN s.row.project = "B" ELSE Effd(s, e)
    BY <1>5, <2>1 DEF Running
  <2> HIDE DEF s
  <2> QED BY <2>3, <2>4, <2>5 DEF Done, Exists
<1>11. \A m \in reply'[p].pulled : Exists(m)' BY AnswerIs
<1>12. ASSUME ~reply'[p].v2, NEW m \in batch'[p].rows PROVE Exists(m)'
  <2>1. r.muts = {} /\ m \in r.rows /\ m \in Memory
    BY <1>1, <1>2, <1>6, <1>8, <1>12 DEF Request
  <2>2. remote'[m] = Inserted(m, r) BY <1>1, <2>1, ServedRow
  <2> QED BY <2>1, <2>2 DEF Inserted, Exists
<1>13. \A m \in batch'[p].rows : memories'[m] # "none" BY <1>1, <1>6 DEF WorksFor
<1>14. lease'[p] = home' BY <1>2, <1>3, <1>6
<1> HIDE DEF p
<1>15. WorksFor(p)'
  BY <1>9, <1>10, <1>11, <1>12, <1>13, <1>14
     DEF WorksFor, AnsweredWell, Done, Effected, Exists
<1> QED BY <1>15 DEF p

LEMMA ServeFollows ==
  ASSUME TypeOK, TypeOK', Wiring, Following, NEW r \in wire, Serve(r)
  PROVE  Following'
<1>1. /\ r \in Request /\ Carried(r) /\ Outlived(r) /\ Marked(r) /\ Agreed
  BY DEF TypeOK, Following
<1>2. Agreed' /\ Grows BY <1>1, ServedAgrees
<1>3. UNCHANGED <<home, present, sent, rowMarks, lease, batch>> /\ wire' = wire \ {r}
  BY DEF Serve, device, evidence
<1>4. Waiting(r) => r.from \in Daemon /\ phase[r.from] = "wait" /\ r.rows = batch[r.from].rows
  BY <1>1 DEF Waiting, Request, Wiring, OnWire
<1>5. ASSUME NEW q \in Daemon, ~(Waiting(r) /\ q = r.from)
      PROVE  phase'[q] = phase[q] /\ reply'[q] = reply[q]
  BY <1>5, AnswerIs
<1>6. ASSUME NEW q \in Daemon PROVE WorksFor(q)'
  <2>1. CASE Waiting(r) /\ q = r.from BY <2>1, ServedAnswer
  <2>2. CASE ~(Waiting(r) /\ q = r.from)
    BY <1>2, <1>3, <1>5, <2>2, WorksForStays DEF Following
  <2> QED BY <2>1, <2>2
<1>7. \A s \in wire' : Marked(s)' /\ s \in wire BY <1>3 DEF Following, Marked
<1>8. ASSUME NEW m \in Memory, Exists(m)' PROVE Suspected(m)'
  <2>1. \/ Exists(m) \/ m \in present \union sent
        \/ r.muts = {} /\ m \in r.rows
    BY <1>1, <1>8, ServedMemory
  <2>2. CASE m \in present \union sent BY <1>3, <2>2 DEF Suspected
  <2>3. CASE Exists(m)
    <3>1. Suspected(m) BY <2>3 DEF Following
    <3>2. CASE m \in present \union sent \/ <<Lost, m>> \in rowMarks
      BY <1>3, <3>2 DEF Suspected
    <3>3. CASE \E q \in Daemon : /\ phase[q] = "ack" /\ ~reply[q].v2
                                 /\ m \in batch[q].rows /\ <<q, m>> \in rowMarks
      <4>1. PICK q \in Daemon : /\ phase[q] = "ack" /\ ~reply[q].v2
                                /\ m \in batch[q].rows /\ <<q, m>> \in rowMarks
        BY <3>3
      <4>2. ~(Waiting(r) /\ q = r.from) BY <1>4, <4>1
      <4> QED BY <1>3, <1>5, <4>1, <4>2 DEF Suspected
    <3> QED BY <3>1, <3>2, <3>3 DEF Suspected
  <2>4. CASE r.muts = {} /\ m \in r.rows
    <3>1. m \in present \/ <<r.from, m>> \in rowMarks BY <1>1, <2>4 DEF Marked
    <3>2. CASE ~Waiting(r) BY <1>3, <3>1, <3>2 DEF Waiting, Suspected
    <3>3. CASE Waiting(r)
      <4>1. phase'[r.from] = "ack" /\ ~reply'[r.from].v2 BY <2>4, <3>3, AnswerIs
      <4> QED BY <1>3, <1>4, <2>4, <3>1, <3>3, <4>1 DEF Suspected
    <3> QED BY <3>2, <3>3
  <2> QED BY <2>1, <2>2, <2>3, <2>4
<1> QED BY <1>2, <1>3, <1>6, <1>7, <1>8, FollowingOf

-----------------------------------------------------------------------------
(* All steps together.                                                     *)

LEMMA FollowingInit == Init => Following
<1> SUFFICES ASSUME Init PROVE Following OBVIOUS
<1>1. /\ home = "A" /\ memories = [m \in Memory |-> "none"]
      /\ unsynced = {} /\ pending = {} /\ rejected = {} /\ present = {}
      /\ phase = [p \in Daemon |-> "idle"] /\ lease = [p \in Daemon |-> ""]
      /\ batch = [p \in Daemon |-> NoBatch] /\ wire = {} /\ seen = {}
      /\ remote = [m \in Memory |-> [state |-> "none", project |-> ""]]
  BY DEF Init
<1>2. \A m \in Memory : ~Exists(m) /\ remote[m].state = "none" BY <1>1 DEF Exists
<1>3. \A m \in Memory : Placed(m) BY <1>2 DEF Placed
<1>4. \A m \in Memory : Replaying(m)
  <2>1. \A m \in Memory : Left(m) = {} BY <1>1 DEF Left
  <2> QED BY <1>1, <1>2, <2>1 DEF Replaying, Replays
<1>5. Journaled /\ Applied BY <1>1 DEF Journaled, Applied
<1>6. Evident BY <1>1, <1>2 DEF Evident
<1>7. Agreed BY <1>1, <1>3, <1>4, <1>5, <1>6 DEF Agreed
<1>8. \A p \in Daemon : WorksFor(p) BY <1>1 DEF WorksFor, NoBatch
<1> QED BY <1>1, <1>2, <1>7, <1>8 DEF Following

LEMMA FollowingStep ==
  ASSUME TypeOK, TypeOK', Wiring, Following, [Next]_vars, ~PromotedOverDrain
  PROVE  Following'
<1>1. CASE Local BY <1>1, LocalFollows
<1>2. ASSUME NEW p \in Daemon, Promote(p) PROVE Following'
  <2>1. NoLease BY <1>2 DEF PromotedOverDrain, NoLease
  <2> QED BY <1>2, <2>1, PromoteFollows
<1>3. ASSUME NEW p \in Daemon, BeginDrain(p) \/ DrainStep(p) PROVE Following'
  <2>1. CASE \/ BeginDrain(p) \/ PassGate(p) \/ ReadRows(p) \/ AckSession(p)
             \/ NextBatch(p) \/ EndDrain(p)
    BY <2>1, ReadsFollow
  <2>2. CASE PushSession(p) \/ PushRows(p) BY <2>2, PushesFollow
  <2>3. CASE \/ ResolveRows(p) \/ (\E m \in Memory : MarkSynced(p, m))
             \/ SavePulled(p) \/ MarkRejected(p)
    BY <2>3, AnswersFollow
  <2>4. CASE MarkConfirmed(p) BY <2>4, ConfirmFollows
  <2> QED BY <1>3, <2>1, <2>2, <2>3, <2>4 DEF DrainStep
<1>4. ASSUME NEW p \in Daemon, Interrupt(p) PROVE Following'
  BY <1>4, InterruptsFollow
<1>5. ASSUME NEW r \in wire, Serve(r) PROVE Following' BY <1>5, ServeFollows
<1>6. ASSUME NEW r \in wire, Reject(r) \/ Drop(r) PROVE Following'
  BY <1>6, LossesFollow
<1>7. CASE UNCHANGED vars
  <2>1. UNCHANGED <<device, process, wire, server>> BY <1>7 DEF vars
  <2>2. UNCHANGED <<home, memories, unsynced, pending, rejected, present, rowMarks, sent,
                    made, phase, lease, batch, reply, wire, remote, seen>>
    BY <2>1 DEF device, evidence, process, server
  <2>3. \A m \in present' : Exists(m) BY <2>2 DEF Following, Agreed, Evident, TypeOK
  <2>4. Agreed' /\ Grows BY <2>2, <2>3, CalmStep DEF Following
  <2> QED BY <2>2, <2>4, DeviceFollows
<1> QED BY <1>1, <1>2, <1>3, <1>4, <1>5, <1>6, <1>7 DEF Next

LEMMA FollowingMeans ==
  ASSUME TypeOK, Following
  PROVE  MemoriesFollow /\ NothingIsDropped
<1>1. NothingIsDropped BY DEF Following, Agreed, NothingIsDropped
<1>2. ASSUME NEW m \in Saved, PendingOf(m) = {} PROVE Arrived(m)
  <2>1. m \in Memory /\ memories[m] # "none" BY <1>2 DEF Saved
  <2>2. Left(m) = {} /\ ~Moving(m) BY <1>2 DEF PendingOf, Left, Moving
  <2>3. Placed(m) /\ Replays(Left(m), remote[m].state, memories[m])
    BY <2>1 DEF Following, Agreed, Replaying
  <2>4. remote[m].state = memories[m] BY <2>2, <2>3 DEF Replays
  <2>5. remote[m].project = home BY <2>1, <2>2, <2>3, <2>4 DEF Placed, Exists
  <2>6. remote[m] \in Row BY <2>1 DEF TypeOK
  <2>7. remote[m] = [state |-> remote[m].state, project |-> remote[m].project]
    BY <2>6 DEF Row
  <2> QED BY <2>4, <2>5, <2>7 DEF Arrived
<1>3. MemoriesFollow BY <1>2 DEF MemoriesFollow
<1> QED BY <1>1, <1>3

LEMMA FollowingHolds ==
  Spec /\ [][~PromotedOverDrain]_vars => [](TypeOK /\ Wiring /\ Following)
<1>1. Init => TypeOK /\ Wiring /\ Following BY TypeInit, FollowingInit
<1>2. TypeOK /\ Wiring /\ Following /\ [Next]_vars /\ [~PromotedOverDrain]_vars =>
        TypeOK' /\ Wiring' /\ Following'
  <2>1. SUFFICES ASSUME TypeOK, Wiring, Following, [Next]_vars,
                        ~PromotedOverDrain \/ UNCHANGED vars
                 PROVE  TypeOK' /\ Wiring' /\ Following'
    OBVIOUS
  <2>2. TypeOK' /\ Wiring' BY <2>1, TypeStep, WiringStep
  <2>3. ~PromotedOverDrain
    <3>1. CASE UNCHANGED vars
      <4>1. UNCHANGED home BY <3>1 DEF vars, device
      <4> QED BY <4>1 DEF PromotedOverDrain, Promote
    <3> QED BY <2>1, <3>1
  <2> QED BY <2>1, <2>2, <2>3, FollowingStep
<1> QED BY <1>1, <1>2, PTL DEF Spec

(* With daemons in any number of processes, as long as no project is       *)
(* promoted while another process is in the middle of a Drain: a saved     *)
(* memory with nothing left to send is at the server in its state and in   *)
(* its project, whatever was sent, lost, applied or orphaned on either     *)
(* side of the promotion (enqueuePromotionMemoryReprojections,             *)
(* rekeyPendingMutationPayloads, hive-api's applyMutation).                *)
THEOREM FollowsAcrossPromotion ==
  Spec /\ [][~PromotedOverDrain]_vars => []MemoriesFollow
<1>1. TypeOK /\ Wiring /\ Following => MemoriesFollow BY FollowingMeans
<1> QED BY <1>1, FollowingHolds, PTL

(* Under the same condition hive-api refuses no mutation: each reaches it  *)
(* after the changes it rests on, under the project its memory is in       *)
(* (GetPendingMutations, withheldUnsupportedMutations,                     *)
(* mutationProjectMismatch).                                               *)
THEOREM NoneDroppedAcrossPromotion ==
  Spec /\ [][~PromotedOverDrain]_vars => []NothingIsDropped
<1>1. TypeOK /\ Wiring /\ Following => NothingIsDropped BY FollowingMeans
<1> QED BY <1>1, FollowingHolds, PTL

LEMMA AloneNeverOverDrain ==
  ASSUME \A p, q \in Daemon : p = q
  PROVE  ~PromotedOverDrain
BY DEF PromotedOverDrain, Promote

(* With one daemon process the condition holds by itself: its promotion    *)
(* waits for its own Drain (beginSyncOperation).                           *)
THEOREM FollowsAlone ==
  ASSUME \A p, q \in Daemon : p = q
  PROVE  Spec => []MemoriesFollow
<1>1. ~PromotedOverDrain BY AloneNeverOverDrain
<1> QED BY <1>1, FollowsAcrossPromotion, PTL

THEOREM NoneDroppedAlone ==
  ASSUME \A p, q \in Daemon : p = q
  PROVE  Spec => []NothingIsDropped
<1>1. ~PromotedOverDrain BY AloneNeverOverDrain
<1> QED BY <1>1, NoneDroppedAcrossPromotion, PTL
=============================================================================
