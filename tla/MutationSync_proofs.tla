------------------------ MODULE MutationSync_proofs ------------------------
(***************************************************************************)
(* Proofs about MutationSync: type correctness, that the journal holds a   *)
(* mutation once, that no cursor passes an entry its device lacks, and     *)
(* that mutation sync implements SharedJournal.                            *)
(***************************************************************************)
EXTENDS MutationSync, FiniteSetTheorems, TLAPS

InFlight == wire \union {t.req : t \in txs}

Staged == UNION {t.staged : t \in txs}

(* Everything on its way is of the sender's journal: requests, what open   *)
(* transactions still hold, and the answers to them.                       *)
SentIsLogged ==
  /\ \A r \in InFlight : r.muts \subseteq Logged(Home[r.from])
  /\ \A t \in txs :
       /\ t.todo \union t.confirmed \union t.refused
            \subseteq Logged(Home[t.req.from])
       /\ Muts(t.staged) \subseteq Logged(Home[t.req.from])
  /\ \A p \in Daemon :
       reply[p].confirmed \union reply[p].refused \subseteq Logged(Home[p])

(* The advisory lock keeps one transaction open, so what it stages comes   *)
(* after everything committed.                                             *)
JournalOrder ==
  /\ \A t, u \in txs : t = u
  /\ \A x \in journal \union Staged : x.seq < nextSeq
  /\ \A x, y \in journal \union Staged :
       x.mut = y.mut \/ x.seq = y.seq => x = y
  /\ \A x \in journal, y \in Staged : x.seq < y.seq

(* Cursors, stored, sent or on their way back, are behind everything       *)
(* staged.                                                                 *)
IsBehind(c) == c < nextSeq /\ \A x \in Staged : c < x.seq

CursorsBehind ==
  /\ \A d \in Device : IsBehind(cursor[d])
  /\ \A p \in Daemon : IsBehind(reply[p].next)
  /\ \A r \in InFlight : IsBehind(r.cursor)

(* The cursor of a request passes nothing its device lacks.  It need not   *)
(* be the device's cursor: another daemon may have moved that since.       *)
RequestCovers ==
  \A r \in InFlight : \A x \in journal :
    x.seq <= r.cursor => x.mut \in Logged(Home[r.from])

(* While an answer is being applied, what the new cursor passes is either  *)
(* held or still on the page.                                              *)
PageCovers ==
  \A p \in Daemon :
    /\ reply[p].page \subseteq journal
    /\ phase[p] \in {"ack", "page"} =>
         \A x \in journal :
           x.seq <= reply[p].next
             => x.mut \in Logged(Home[p]) \/ x \in reply[p].page

(* Numbers identify mutations: nobody holds one its device has not made,   *)
(* and the journal holds none that no device holds.                        *)
Numbered ==
  /\ \A d \in Device : \A m \in Logged(d) : m.n <= made[m.by]
  /\ \A x \in journal : \E d \in Device : x.mut \in Logged(d)

Ordered ==
  /\ SentIsLogged /\ JournalOrder /\ CursorsBehind /\ RequestCovers
  /\ PageCovers /\ Numbered /\ CursorNoGap

IInv == TypeOK /\ Ordered

-----------------------------------------------------------------------------
LEMMA HomeType == \A p \in Daemon : Home[p] \in Device
BY MutationSyncAssumption

LEMMA NoneIsNo == 0 \in RequestNo
<1>1. MaxFaults + Cardinality(Daemon) \in Nat
  BY MutationSyncAssumption, FS_CardinalityType
<1> QED BY <1>1 DEF RequestNo

(* What Insert does to the set of journaled mutations.                     *)
LEMMA InsertLogged ==
  ASSUME NEW l \in Seq(Mutation), NEW m \in Mutation
  PROVE  /\ Insert(l, m) \in Seq(Mutation)
         /\ {Insert(l, m)[i] : i \in DOMAIN Insert(l, m)}
              = {l[i] : i \in DOMAIN l} \union {m}
<1>1. Insert(l, m) \in Seq(Mutation) BY DEF Insert
<1>2. DOMAIN Insert(l, m) = 1 .. Len(l) + 1 /\ DOMAIN l = 1 .. Len(l)
  BY DEF Insert
<1>3. \A i \in 1 .. Len(l) : Insert(l, m)[i] = l[i] BY DEF Insert
<1>4. Insert(l, m)[Len(l) + 1] = m BY DEF Insert
<1> QED BY <1>1, <1>2, <1>3, <1>4

(* A journal that is not touched holds what it held.                       *)
LEMMA SameLogged ==
  ASSUME UNCHANGED log
  PROVE  /\ \A d \in Device : Logged(d)' = Logged(d)
         /\ \A p \in Daemon : Logged(Home[p])' = Logged(Home[p])
BY DEF Logged

LEMMA LoggedType ==
  ASSUME TypeOK, NEW d \in Device
  PROVE  Logged(d) \subseteq Mutation
<1>1. log[d] \in Seq(Mutation) BY DEF TypeOK, StoreType
<1>2. \A i \in DOMAIN log[d] : log[d][i] \in Mutation BY <1>1
<1> QED BY <1>2 DEF Logged

(* Journaling a mutation on d adds it there and touches no other device.   *)
LEMMA InsertedLog ==
  ASSUME log \in [Device -> Seq(Mutation)], NEW d \in Device, NEW m \in Mutation,
         log' = [log EXCEPT ![d] = Insert(@, m)]
  PROVE  /\ log' \in [Device -> Seq(Mutation)]
         /\ Logged(d)' = Logged(d) \union {m}
         /\ \A o \in Device \ {d} : Logged(o)' = Logged(o)
<1>1. log[d] \in Seq(Mutation) OBVIOUS
<1>2. log'[d] = Insert(log[d], m) /\ \A o \in Device \ {d} : log'[o] = log[o]
  OBVIOUS
<1>3. log' \in [Device -> Seq(Mutation)] BY <1>1, InsertLogged
<1>4. Logged(d)' = Logged(d) \union {m}
  <2>1. {Insert(log[d], m)[i] : i \in DOMAIN Insert(log[d], m)}
          = {log[d][i] : i \in DOMAIN log[d]} \union {m}
    BY <1>1, InsertLogged
  <2> QED BY <1>2, <2>1 DEF Logged
<1>5. \A o \in Device \ {d} : Logged(o)' = Logged(o) BY <1>2 DEF Logged
<1> QED BY <1>3, <1>4, <1>5

-----------------------------------------------------------------------------
(* Type correctness, action by action.                                     *)

LEMMA ChangeType ==
  ASSUME TypeOK, NEW d \in Device, NEW e \in Entity, NEW op \in Op,
         Change(d, e, op)
  PROVE  TypeOK'
<1> DEFINE m == [by |-> d, n |-> made[d] + 1, op |-> op, ent |-> e]
<1>1. m \in Mutation BY DEF TypeOK, StoreType, Mutation
<1>2. Effect(m) \in Status BY DEF Effect, Status
<1>3. log' = [log EXCEPT ![d] = Insert(@, m)] BY DEF Change
<1>4. /\ log' \in [Device -> Seq(Mutation)]
      /\ Logged(d)' = Logged(d) \union {m}
      /\ \A o \in Device \ {d} : Logged(o)' = Logged(o)
  BY <1>1, <1>3, InsertedLog DEF TypeOK, StoreType
<1>5. StoreType' BY <1>1, <1>2, <1>4 DEF TypeOK, StoreType, Change
<1>6. ProcessType' BY DEF TypeOK, ProcessType, Change, process
<1>7. ServerType' BY DEF TypeOK, ServerType, Change, server
<1>8. MarksAreLogged'
  <2> HIDE DEF m
  <2>1. \A o \in Device : Logged(o) \subseteq Logged(o)' BY <1>4
  <2>2. /\ UNCHANGED <<accepted, rejected, unsupported, eventMarks, batch>>
        /\ pending' = [pending EXCEPT ![d] = @ \union {m}]
    BY DEF Change, process, m
  <2>3. \A o \in Device : pending'[o] \subseteq Logged(o)'
    <3>1. pending'[d] = pending[d] \union {m}
      BY <2>2 DEF TypeOK, StoreType
    <3>2. \A o \in Device \ {d} : pending'[o] = pending[o]
      BY <2>2 DEF TypeOK, StoreType
    <3>3. \A o \in Device : pending[o] \subseteq Logged(o)
      BY DEF TypeOK, MarksAreLogged
    <3> QED BY <1>4, <2>1, <3>1, <3>2, <3>3
  <2>4. \A q \in Daemon : batch'[q].muts \subseteq Logged(Home[q])'
    BY <2>1, <2>2, HomeType DEF TypeOK, MarksAreLogged
  <2>5. \A o \in Device :
          /\ accepted'[o] \subseteq Logged(o)' /\ rejected'[o] \subseteq Logged(o)'
          /\ unsupported'[o] \subseteq Logged(o)'
          /\ eventMarks'[o] \subseteq Logged(o)'
    BY <2>1, <2>2 DEF TypeOK, MarksAreLogged
  <2> QED BY <2>3, <2>4, <2>5 DEF MarksAreLogged
<1> QED BY <1>5, <1>6, <1>7, <1>8 DEF TypeOK

LEMMA NoBatchType == NoBatch \in Batch /\ NoReply \in Reply
BY NoneIsNo DEF NoBatch, NoReply, Batch, Reply

LEMMA FinishType ==
  ASSUME TypeOK, NEW p \in Daemon, Finish(p)
  PROVE  /\ ProcessType'
         /\ \A o \in Daemon : batch'[o].muts \subseteq batch[o].muts
BY NoBatchType DEF TypeOK, ProcessType, Finish, Phase, NoBatch

LEMMA BatchType ==
  ASSUME TypeOK, SentIsLogged, NEW p \in Daemon, BatchStep(p)
  PROVE  TypeOK'
<1> DEFINE d == Home[p]
<1> d \in Device BY HomeType
<1>1. CASE ReadRows(p)
  <2>1. PICK R \in SUBSET Entity :
          batch' = [batch EXCEPT ![p] = [no |-> 0, rows |-> R, muts |-> {}]]
    BY <1>1 DEF ReadRows, ActiveUnsynced, TypeOK, StoreType
  <2>2. StoreType' BY <1>1 DEF TypeOK, StoreType, ReadRows, store
  <2>3. [no |-> 0, rows |-> R, muts |-> {}] \in Batch
    BY NoneIsNo DEF Batch
  <2>4. ProcessType' BY <1>1, <2>1, <2>3 DEF TypeOK, ProcessType, ReadRows, Phase
  <2>5. ServerType' BY <1>1 DEF TypeOK, ServerType, ReadRows, server
  <2>6. MarksAreLogged'
    BY <1>1, <2>1, SameLogged DEF TypeOK, ProcessType, MarksAreLogged, ReadRows, store
  <2> QED BY <2>2, <2>4, <2>5, <2>6 DEF TypeOK
<1>2. CASE Dispatch(p)
  <2>1. PICK P \in SUBSET pending[d], no \in FreshNo(d) :
       /\ batch' = [batch EXCEPT ![p] = [no |-> no, rows |-> @.rows, muts |-> P]]
       /\ rowMarks' = [rowMarks EXCEPT ![d] = @ \union ({no} \X batch[p].rows)]
       /\ eventMarks' = [eventMarks EXCEPT ![d] = MarkedEvents(d, P)]
       /\ wire' = wire \union {[from |-> p, no |-> no, rows |-> batch[p].rows,
                                muts |-> P, cursor |-> cursor[d]]}
    BY <1>2 DEF Dispatch
  <2>2. no \in RequestNo /\ P \in SUBSET Mutation
    BY DEF FreshNo, TypeOK, StoreType
  <2>3. StoreType'
    <3>1. {no} \X batch[p].rows \subseteq RequestNo \X Entity
      BY <2>2 DEF TypeOK, ProcessType, Batch
    <3>2. rowMarks' \in [Device -> SUBSET (RequestNo \X Entity)]
      BY <2>1, <3>1 DEF TypeOK, StoreType
    <3>3. eventMarks' \in [Device -> SUBSET Mutation]
      BY <2>1, <2>2 DEF TypeOK, StoreType, MarkedEvents
    <3> QED BY <1>2, <3>2, <3>3 DEF TypeOK, StoreType, Dispatch
  <2>4. ProcessType'
    <3>1. [no |-> no, rows |-> batch[p].rows, muts |-> P] \in Batch
      BY <2>2 DEF TypeOK, ProcessType, Batch
    <3>2. batch' \in [Daemon -> Batch] BY <2>1, <3>1 DEF TypeOK, ProcessType
    <3> QED BY <1>2, <3>2 DEF TypeOK, ProcessType, Dispatch, Phase
  <2>5. ServerType'
    <3> DEFINE r == [from |-> p, no |-> no, rows |-> batch[p].rows,
                     muts |-> P, cursor |-> cursor[d]]
    <3>1. batch[p].rows \in SUBSET Entity /\ cursor[d] \in Nat
      BY DEF TypeOK, StoreType, ProcessType, Batch
    <3>2. r \in Request BY <2>2, <3>1 DEF Request
    <3> HIDE DEF r
    <3>3. wire' \subseteq Request BY <2>1, <3>2 DEF TypeOK, ServerType, r
    <3> QED BY <1>2, <3>3 DEF TypeOK, ServerType, Dispatch, server
  <2>6. MarksAreLogged'
    BY <1>2, <2>1, SameLogged DEF TypeOK, StoreType, ProcessType, MarksAreLogged, Dispatch, MarkedEvents
  <2> QED BY <2>3, <2>4, <2>5, <2>6 DEF TypeOK
<1>3. CASE ResolveRows(p)
  <2>1. StoreType' BY <1>3 DEF TypeOK, StoreType, ResolveRows
  <2>2. ProcessType' BY <1>3 DEF TypeOK, ProcessType, ResolveRows, Batch
  <2>3. ServerType' BY <1>3 DEF TypeOK, ServerType, ResolveRows, server
  <2>4. MarksAreLogged'
    BY <1>3, SameLogged DEF TypeOK, ProcessType, MarksAreLogged, ResolveRows, Batch
  <2> QED BY <2>1, <2>2, <2>3, <2>4 DEF TypeOK
<1>4. CASE MarkUnsupported(p)
  <2>1. Guarded(d, batch[p].muts) \subseteq batch[p].muts BY DEF Guarded
  <2>2. batch[p].muts \subseteq Mutation BY DEF TypeOK, ProcessType, Batch
  <2>3. StoreType' BY <1>4, <2>1, <2>2 DEF TypeOK, StoreType, MarkUnsupported
  <2>4. ProcessType' BY <1>4 DEF TypeOK, ProcessType, MarkUnsupported, process
  <2>5. ServerType' BY <1>4 DEF TypeOK, ServerType, MarkUnsupported, server
  <2>6. MarksAreLogged'
    BY <1>4, <2>1, SameLogged
    DEF TypeOK, StoreType, MarksAreLogged, MarkUnsupported, process
  <2> QED BY <2>3, <2>4, <2>5, <2>6 DEF TypeOK
<1>5. ASSUME NEW e \in Entity, MarkSynced(p, e) PROVE TypeOK'
  <2>1. StoreType' BY <1>5 DEF TypeOK, StoreType, MarkSynced
  <2>2. ProcessType' BY <1>5 DEF TypeOK, ProcessType, MarkSynced, Batch
  <2>3. ServerType' BY <1>5 DEF TypeOK, ServerType, MarkSynced, server
  <2>4. MarksAreLogged'
    BY <1>5, SameLogged DEF TypeOK, ProcessType, MarksAreLogged, MarkSynced, Batch
  <2> QED BY <2>1, <2>2, <2>3, <2>4 DEF TypeOK
<1>6. CASE SavePulled(p)
  <2>1. PICK S \in SUBSET reply[p].rows :
          /\ memories' = [memories EXCEPT ![d] =
               [e \in Entity |-> IF e \in S /\ @[e] = "none" THEN "active" ELSE @[e]]]
          /\ present' = [present EXCEPT ![d] = @ \union S]
    BY <1>6 DEF SavePulled
  <2>2. S \subseteq Entity BY DEF TypeOK, ProcessType, Reply
  <2>3. StoreType'
    <3>1. memories' \in [Device -> [Entity -> Status]]
      BY <2>1, <2>2 DEF TypeOK, StoreType, Status
    <3>2. present' \in [Device -> SUBSET Entity]
      BY <2>1, <2>2 DEF TypeOK, StoreType
    <3> QED BY <1>6, <3>1, <3>2 DEF TypeOK, StoreType, SavePulled
  <2>4. /\ ProcessType'
        /\ \A o \in Daemon : batch'[o].muts \subseteq batch[o].muts
    <3>1. CASE reply[p].v2
      BY <1>6, <3>1 DEF SavePulled, TypeOK, ProcessType, Phase
    <3>2. CASE ~reply[p].v2 BY <1>6, <3>2, FinishType DEF SavePulled
    <3> QED BY <3>1, <3>2
  <2>5. ServerType' BY <1>6 DEF TypeOK, ServerType, SavePulled, server
  <2>6. MarksAreLogged' BY <1>6, <2>4, SameLogged DEF TypeOK, MarksAreLogged, SavePulled
  <2> QED BY <2>3, <2>4, <2>5, <2>6 DEF TypeOK
<1>7. CASE SkipKnown(p)
  <2>1. PICK x \in reply[p].page : reply' = [reply EXCEPT ![p].page = @ \ {x}]
    BY <1>7 DEF SkipKnown
  <2>2. StoreType' BY <1>7 DEF TypeOK, StoreType, SkipKnown, store
  <2>3. ProcessType'
    <3>1. [reply[p] EXCEPT !.page = @ \ {x}] \in Reply
      BY DEF TypeOK, ProcessType, Reply
    <3>2. reply' \in [Daemon -> Reply] BY <2>1, <3>1 DEF TypeOK, ProcessType
    <3> QED BY <1>7, <3>2 DEF TypeOK, ProcessType, SkipKnown
  <2>4. ServerType' BY <1>7 DEF TypeOK, ServerType, SkipKnown, server
  <2>5. MarksAreLogged'
    BY <1>7, SameLogged DEF TypeOK, MarksAreLogged, SkipKnown, store
  <2> QED BY <2>2, <2>3, <2>4, <2>5 DEF TypeOK
<1>8. CASE ApplyRemote(p)
  <2>1. PICK x \in reply[p].page :
       /\ memories' = [memories EXCEPT ![d][x.mut.ent] = RemoteStatus(@, x.mut)]
       /\ unsynced' = [unsynced EXCEPT ![d] = @ \ {x.mut.ent}]
       /\ log' = [log EXCEPT ![d] = Insert(@, x.mut)]
       /\ pending' = [pending EXCEPT ![d] = @ \union {x.mut}]
       /\ accepted' = [accepted EXCEPT ![d] = @ \union {x.mut}]
       /\ present' = [present EXCEPT ![d] = @ \union {x.mut.ent}]
       /\ reply' = [reply EXCEPT ![p].page = @ \ {x}]
    BY <1>8 DEF ApplyRemote
  <2>2. x.mut \in Mutation /\ x.mut.ent \in Entity
    BY DEF TypeOK, ProcessType, Reply, Entry, Mutation
  <2>3. memories[d][x.mut.ent] \in Status BY <2>2 DEF TypeOK, StoreType
  <2>4. RemoteStatus(memories[d][x.mut.ent], x.mut) \in Status
    BY <2>3 DEF RemoteStatus, Effect, Status
  <2>5. /\ log' \in [Device -> Seq(Mutation)]
        /\ Logged(d)' = Logged(d) \union {x.mut}
        /\ \A o \in Device \ {d} : Logged(o)' = Logged(o)
    BY <2>1, <2>2, InsertedLog DEF TypeOK, StoreType
  <2>6. StoreType'
    <3>1. memories' \in [Device -> [Entity -> Status]]
      BY <2>1, <2>2, <2>4 DEF TypeOK, StoreType
    <3>2. /\ unsynced' \in [Device -> SUBSET Entity]
          /\ present' \in [Device -> SUBSET Entity]
          /\ pending' \in [Device -> SUBSET Mutation]
          /\ accepted' \in [Device -> SUBSET Mutation]
      BY <2>1, <2>2 DEF TypeOK, StoreType
    <3> QED BY <1>8, <2>5, <3>1, <3>2 DEF TypeOK, StoreType, ApplyRemote
  <2>7. ProcessType'
    <3>1. reply' \in [Daemon -> Reply] BY <2>1 DEF TypeOK, ProcessType, Reply
    <3> QED BY <1>8, <3>1 DEF TypeOK, ProcessType, ApplyRemote
  <2>8. ServerType' BY <1>8 DEF TypeOK, ServerType, ApplyRemote, server
  <2>9. MarksAreLogged'
    <3>1. UNCHANGED <<batch, rejected, unsupported, eventMarks>>
      BY <1>8 DEF ApplyRemote
    <3>2. \A o \in Device : Logged(o) \subseteq Logged(o)' BY <2>5
    <3>3. /\ pending' = [pending EXCEPT ![d] = @ \union {x.mut}]
          /\ accepted' = [accepted EXCEPT ![d] = @ \union {x.mut}]
      BY <2>1
    <3> QED
      BY <2>5, <3>1, <3>2, <3>3, HomeType DEF TypeOK, StoreType, MarksAreLogged
  <2> QED BY <2>6, <2>7, <2>8, <2>9 DEF TypeOK
<1>9. CASE AbortOnRemote(p)
  <2>1. StoreType' BY <1>9 DEF TypeOK, StoreType, AbortOnRemote, store
  <2>2. /\ ProcessType'
        /\ \A o \in Daemon : batch'[o].muts \subseteq batch[o].muts
    BY <1>9, FinishType DEF AbortOnRemote
  <2>3. ServerType' BY <1>9 DEF TypeOK, ServerType, AbortOnRemote, server
  <2>4. MarksAreLogged'
    BY <1>9, <2>2, SameLogged DEF TypeOK, MarksAreLogged, AbortOnRemote, store
  <2> QED BY <2>1, <2>2, <2>3, <2>4 DEF TypeOK
<1>10. CASE SetCursor(p)
  <2>1. reply[p].next \in Nat BY DEF TypeOK, ProcessType, Reply
  <2>2. StoreType' BY <1>10, <2>1 DEF TypeOK, StoreType, SetCursor
  <2>3. ProcessType' BY <1>10 DEF TypeOK, ProcessType, SetCursor, Phase
  <2>4. ServerType' BY <1>10 DEF TypeOK, ServerType, SetCursor, server
  <2>5. MarksAreLogged' BY <1>10, SameLogged DEF TypeOK, MarksAreLogged, SetCursor
  <2> QED BY <2>2, <2>3, <2>4, <2>5 DEF TypeOK
<1>11. CASE MarkRejected(p)
  <2>1. reply[p].refused \subseteq Mutation BY DEF TypeOK, ProcessType, Reply
  <2>2. reply[p].refused \subseteq Logged(d) BY DEF SentIsLogged
  <2>3. StoreType' BY <1>11, <2>1 DEF TypeOK, StoreType, MarkRejected
  <2>4. ProcessType' BY <1>11 DEF TypeOK, ProcessType, MarkRejected, Phase
  <2>5. ServerType' BY <1>11 DEF TypeOK, ServerType, MarkRejected, server
  <2>6. MarksAreLogged'
    BY <1>11, <2>2, SameLogged DEF TypeOK, StoreType, MarksAreLogged, MarkRejected
  <2> QED BY <2>3, <2>4, <2>5, <2>6 DEF TypeOK
<1>12. CASE MarkConfirmed(p)
  <2>1. Confirmed(p) \subseteq Mutation BY DEF TypeOK, ProcessType, Reply, Confirmed
  <2>2. Confirmed(p) \subseteq Logged(d) BY DEF SentIsLogged, Confirmed
  <2>3. {m.ent : m \in Confirmed(p)} \subseteq Entity BY <2>1 DEF Mutation
  <2>4. StoreType' BY <1>12, <2>1, <2>3 DEF TypeOK, StoreType, MarkConfirmed
  <2>5. /\ ProcessType'
        /\ \A o \in Daemon : batch'[o].muts \subseteq batch[o].muts
    BY <1>12, FinishType DEF MarkConfirmed
  <2>6. ServerType' BY <1>12 DEF TypeOK, ServerType, MarkConfirmed, server
  <2>7. MarksAreLogged'
    <3>1. UNCHANGED <<log, unsupported, eventMarks>> BY <1>12 DEF MarkConfirmed
    <3>2. /\ pending' = [pending EXCEPT ![d] = @ \ Confirmed(p)]
          /\ accepted' = [accepted EXCEPT ![d] = @ \union Confirmed(p)]
          /\ rejected' = [rejected EXCEPT ![d] = @ \ Confirmed(p)]
      BY <1>12 DEF MarkConfirmed
    <3>3. ASSUME NEW o \in Device
          PROVE  /\ pending'[o] \subseteq pending[o]
                 /\ accepted'[o] \subseteq Logged(o)
                 /\ rejected'[o] \subseteq rejected[o]
      <4>1. CASE o = d
        BY <2>2, <3>2, <4>1 DEF TypeOK, StoreType, MarksAreLogged
      <4>2. CASE o # d
        BY <3>2, <4>2 DEF TypeOK, StoreType, MarksAreLogged
      <4> QED BY <4>1, <4>2
    <3> QED BY <2>5, <3>1, <3>3, SameLogged DEF TypeOK, MarksAreLogged
  <2> QED BY <2>4, <2>5, <2>6, <2>7 DEF TypeOK
<1> QED
  BY <1>1, <1>2, <1>3, <1>4, <1>5, <1>6, <1>7, <1>8, <1>9, <1>10, <1>11, <1>12
  DEF BatchStep

(* Swapping an open transaction for another record of the same kind.       *)
LEMMA SwapType ==
  ASSUME TypeOK, NEW t \in txs, NEW u \in Tx,
         txs' = (txs \ {t}) \union {u},
         UNCHANGED <<store, process, wire, peer, rows, journal, faults>>,
         nextSeq' \in Nat \ {0}
  PROVE  TypeOK'
<1>1. StoreType' BY DEF TypeOK, StoreType, store
<1>2. ProcessType' BY DEF TypeOK, ProcessType, process
<1>3. ServerType' BY DEF TypeOK, ServerType
<1>4. MarksAreLogged' BY SameLogged DEF TypeOK, MarksAreLogged, store, process
<1> QED BY <1>1, <1>2, <1>3, <1>4 DEF TypeOK

LEMMA TxType ==
  ASSUME TypeOK, NEW t \in txs, TxStep(t)
  PROVE  TypeOK'
<1>1. t \in Tx BY DEF TypeOK, ServerType
<1>2. nextSeq \in Nat \ {0} BY DEF TypeOK, ServerType
<1>3. ASSUME NEW m \in t.todo, Duplicate(t, m) PROVE TypeOK'
  <2> DEFINE u == [t EXCEPT !.todo = @ \ {m}, !.confirmed = @ \union {m}]
  <2>1. u \in Tx BY <1>1 DEF Tx
  <2>2. txs' = (txs \ {t}) \union {u} BY <1>3 DEF Duplicate
  <2> HIDE DEF u
  <2>3. UNCHANGED <<store, process, wire, peer, rows, journal, nextSeq, faults>>
    BY <1>3 DEF Duplicate
  <2> QED BY <1>2, <2>1, <2>2, <2>3, SwapType
<1>4. ASSUME NEW m \in t.todo, Refuse(t, m) PROVE TypeOK'
  <2> DEFINE u == [t EXCEPT !.todo = @ \ {m}, !.refused = @ \union {m}]
  <2>1. u \in Tx BY <1>1 DEF Tx
  <2>2. txs' = (txs \ {t}) \union {u} BY <1>4 DEF Refuse
  <2> HIDE DEF u
  <2>3. UNCHANGED <<store, process, wire, peer, rows, journal, nextSeq, faults>>
    BY <1>4 DEF Refuse
  <2> QED BY <1>2, <2>1, <2>2, <2>3, SwapType
<1>5. ASSUME NEW m \in t.todo, Apply(t, m) PROVE TypeOK'
  <2> DEFINE view == [t.view EXCEPT ![m.ent] = Effect(m)]
             entry == [seq |-> nextSeq, mut |-> m]
             u == [t EXCEPT !.todo = @ \ {m}, !.confirmed = @ \union {m},
                            !.view = view, !.staged = @ \union {entry}]
  <2>1. m \in Mutation BY <1>1 DEF Tx
  <2>2. view \in [Entity -> Status] BY <1>1, <2>1 DEF Tx, Effect, Status
  <2>3. entry \in Entry BY <1>2, <2>1 DEF Entry
  <2>4. txs' = (txs \ {t}) \union {u} BY <1>5 DEF Apply
  <2> HIDE DEF view, entry
  <2>5. u \in Tx BY <1>1, <2>1, <2>2, <2>3 DEF Tx
  <2> HIDE DEF u
  <2>6. /\ UNCHANGED <<store, process, wire, peer, rows, journal, faults>>
        /\ nextSeq' = nextSeq + 1
    BY <1>5 DEF Apply
  <2> QED BY <1>2, <2>4, <2>5, <2>6, SwapType
<1>6. CASE Commit(t)
  <2> DEFINE listed == IF t.v2 THEN journal \union t.staged ELSE {}
             seen == {e \in Entity : t.view[e] = "active"}
  <2>1. PICK page \in SUBSET After(listed, t.req.cursor),
             next \in {0, t.req.cursor} \union {x.seq : x \in listed} :
          Respond(t.req, [v2 |-> t.v2, rows |-> seen \ t.req.rows, page |-> page,
                          next |-> next, confirmed |-> t.confirmed,
                          refused |-> t.refused])
    BY <1>6 DEF Commit
  <2> DEFINE answer == [v2 |-> t.v2, rows |-> seen \ t.req.rows, page |-> page,
                        next |-> next, confirmed |-> t.confirmed,
                        refused |-> t.refused]
  <2>2. listed \subseteq Entry BY <1>1 DEF Tx, TypeOK, ServerType
  <2>3. page \subseteq Entry BY <2>2 DEF After
  <2>4. next \in Nat BY <1>1, <2>2 DEF Tx, Request, Entry
  <2>5. seen \subseteq Entity OBVIOUS
  <2> HIDE DEF listed, seen
  <2>6. answer \in Reply BY <1>1, <2>3, <2>4, <2>5 DEF Tx, Reply
  <2>7. Respond(t.req, answer) BY <2>1
  <2> HIDE DEF answer
  <2>8. ProcessType'
    BY <1>6, <2>6, <2>7 DEF Commit, Respond, TypeOK, ProcessType, Phase
  <2>9. StoreType' BY <1>6 DEF TypeOK, StoreType, Commit, store
  <2>10. ServerType' BY <1>1, <1>6 DEF TypeOK, ServerType, Commit, Tx
  <2>11. MarksAreLogged'
    BY <1>6, SameLogged DEF TypeOK, MarksAreLogged, Commit, store
  <2> QED BY <2>8, <2>9, <2>10, <2>11 DEF TypeOK
<1> QED BY <1>3, <1>4, <1>5, <1>6 DEF TxStep

LEMMA NextType ==
  ASSUME TypeOK, SentIsLogged, Next
  PROVE  TypeOK'
<1>1. ASSUME NEW d \in Device, NEW e \in Entity,
             Save(d, e) \/ Delete(d, e) \/ Restore(d, e)
      PROVE  TypeOK'
  BY <1>1, ChangeType DEF Save, Delete, Restore, Op
<1>2. ASSUME NEW p \in Daemon, BatchStep(p) PROVE TypeOK'
  BY <1>2, BatchType
<1>3. ASSUME NEW p \in Daemon, Interrupt(p) PROVE TypeOK'
  <2>1. /\ ProcessType'
        /\ \A o \in Daemon : batch'[o].muts \subseteq batch[o].muts
    BY <1>3, FinishType DEF Interrupt
  <2>2. StoreType' BY <1>3 DEF TypeOK, StoreType, Interrupt, store
  <2>3. ServerType'
    BY <1>3, MutationSyncAssumption DEF TypeOK, ServerType, Interrupt, server
  <2>4. MarksAreLogged'
    BY <1>3, <2>1, SameLogged DEF TypeOK, MarksAreLogged, Interrupt, store
  <2> QED BY <2>1, <2>2, <2>3, <2>4 DEF TypeOK
<1>4. ASSUME NEW r \in wire, Begin(r) PROVE TypeOK'
  <2>1. r \in Request BY DEF TypeOK, ServerType
  <2>2. /\ rows \in [Entity -> Status]
        /\ Upserted(rows, r.rows) \in [Entity -> Status]
    BY DEF TypeOK, ServerType, Upserted, Status
  <2> DEFINE u == [req |-> r, v2 |-> Authoritative(r),
                   todo |-> IF Authoritative(r) THEN r.muts ELSE {},
                   view |-> IF Authoritative(r) THEN rows ELSE Upserted(rows, r.rows),
                   staged |-> {}, confirmed |-> {}, refused |-> {}]
  <2>3. Authoritative(r) \in BOOLEAN BY DEF Authoritative
  <2>4. u \in Tx BY <2>1, <2>2, <2>3 DEF Tx, Request
  <2>5. txs' = txs \union {u} BY <1>4 DEF Begin
  <2> HIDE DEF u
  <2>6. StoreType' BY <1>4 DEF TypeOK, StoreType, Begin, store
  <2>7. ProcessType' BY <1>4 DEF TypeOK, ProcessType, Begin, process
  <2>8. ServerType' BY <1>4, <2>4, <2>5 DEF TypeOK, ServerType, Begin
  <2>9. MarksAreLogged'
    BY <1>4, SameLogged DEF TypeOK, MarksAreLogged, Begin, store, process
  <2> QED BY <2>6, <2>7, <2>8, <2>9 DEF TypeOK
<1>5. ASSUME NEW r \in wire, Drop(r) PROVE TypeOK'
  <2>1. StoreType' BY <1>5 DEF TypeOK, StoreType, Drop, store
  <2>2. ProcessType' BY <1>5 DEF TypeOK, ProcessType, Drop, process
  <2>3. ServerType' BY <1>5 DEF TypeOK, ServerType, Drop, server
  <2>4. MarksAreLogged'
    BY <1>5, SameLogged DEF TypeOK, MarksAreLogged, Drop, store, process
  <2> QED BY <2>1, <2>2, <2>3, <2>4 DEF TypeOK
<1>6. ASSUME NEW t \in txs, TxStep(t) PROVE TypeOK'
  BY <1>6, TxType
<1>7. ASSUME NEW t \in txs, Abort(t) PROVE TypeOK'
  <2>1. t.req.from \in Daemon BY DEF TypeOK, ServerType, Tx, Request
  <2>2. /\ ProcessType'
        /\ \A o \in Daemon : batch'[o].muts \subseteq batch[o].muts
    <3>1. CASE Awaited(t.req) BY <1>7, <2>1, <3>1, FinishType DEF Abort
    <3>2. CASE ~Awaited(t.req)
      BY <1>7, <3>2 DEF Abort, process, TypeOK, ProcessType
    <3> QED BY <3>1, <3>2
  <2>3. StoreType' BY <1>7 DEF TypeOK, StoreType, Abort, store
  <2>4. ServerType'
    BY <1>7, MutationSyncAssumption DEF TypeOK, ServerType, Abort
  <2>5. MarksAreLogged'
    BY <1>7, <2>2, SameLogged DEF TypeOK, MarksAreLogged, Abort, store
  <2> QED BY <2>2, <2>3, <2>4, <2>5 DEF TypeOK
<1>8. CASE Upgrade
  <2>1. StoreType' BY <1>8 DEF TypeOK, StoreType, Upgrade, store
  <2>2. ProcessType' BY <1>8 DEF TypeOK, ProcessType, Upgrade, process
  <2>3. ServerType' BY <1>8 DEF TypeOK, ServerType, Upgrade
  <2>4. MarksAreLogged'
    BY <1>8, SameLogged DEF TypeOK, MarksAreLogged, Upgrade, store, process
  <2> QED BY <2>1, <2>2, <2>3, <2>4 DEF TypeOK
<1> QED
  BY <1>1, <1>2, <1>3, <1>4, <1>5, <1>6, <1>7, <1>8 DEF Next

-----------------------------------------------------------------------------
(* What a step of a device leaves to the other invariants.                 *)

(* An answer only loses what was used of it.                               *)
ReplyShrinks(o) ==
  /\ reply'[o].confirmed \subseteq reply[o].confirmed
  /\ reply'[o].refused \subseteq reply[o].refused
  /\ reply'[o].page \subseteq reply[o].page
  /\ reply'[o].next \in {0, reply[o].next}

(* A device does not start to wait for, or to use, an answer.              *)
PhaseKept(o) ==
  /\ phase'[o] = "wait" => phase[o] = "wait" /\ batch'[o].no = batch[o].no
  /\ phase'[o] \in {"ack", "page"} =>
       phase[o] \in {"ack", "page"} /\ reply'[o].next = reply[o].next

LEMMA FinishFrame ==
  ASSUME TypeOK, NEW p \in Daemon, Finish(p)
  PROVE  \A o \in Daemon : ReplyShrinks(o) /\ PhaseKept(o)
BY DEF TypeOK, ProcessType, Finish, NoReply, ReplyShrinks, PhaseKept

LEMMA LocalFrame ==
  ASSUME TypeOK, NEW p \in Daemon, BatchStep(p) \/ Interrupt(p),
         ~Dispatch(p), ~SetCursor(p), ~SkipKnown(p), ~ApplyRemote(p)
  PROVE  /\ UNCHANGED <<log, cursor, made, wire, peer, rows, journal, nextSeq, txs>>
         /\ \A o \in Daemon : ReplyShrinks(o) /\ PhaseKept(o)
         /\ \A o \in Daemon : phase'[o] \in {"ack", "page"} => reply'[o] = reply[o]
<1> DEFINE d == Home[p]
<1> d \in Device BY HomeType
<1> USE DEF ReplyShrinks, PhaseKept, TypeOK, ProcessType
<1>1. CASE ReadRows(p) BY <1>1 DEF ReadRows, store, server
<1>2. CASE ResolveRows(p) BY <1>2 DEF ResolveRows, server, Batch
<1>3. CASE MarkUnsupported(p) BY <1>3 DEF MarkUnsupported, process, server
<1>4. ASSUME NEW e \in Entity, MarkSynced(p, e)
      PROVE  /\ UNCHANGED <<log, cursor, made, wire, peer, rows, journal, nextSeq, txs>>
             /\ \A o \in Daemon : ReplyShrinks(o) /\ PhaseKept(o)
             /\ \A o \in Daemon : phase'[o] \in {"ack", "page"} => reply'[o] = reply[o]
  BY <1>4 DEF MarkSynced, server, Batch
<1>5. CASE SavePulled(p)
  <2>1. UNCHANGED <<log, cursor, made, wire, peer, rows, journal, nextSeq, txs>>
    BY <1>5 DEF SavePulled, server
  <2>2. CASE reply[p].v2 BY <1>5, <2>1, <2>2 DEF SavePulled
  <2>3. CASE ~reply[p].v2
    <3>1. Finish(p) BY <1>5, <2>3 DEF SavePulled
    <3> QED BY <2>1, <3>1, FinishFrame DEF Finish
  <2> QED BY <2>2, <2>3
<1>6. CASE AbortOnRemote(p)
  <2>1. Finish(p) BY <1>6 DEF AbortOnRemote
  <2> QED BY <1>6, <2>1, FinishFrame DEF AbortOnRemote, Finish, store, server
<1>7. CASE MarkRejected(p) BY <1>7 DEF MarkRejected, server
<1>8. CASE MarkConfirmed(p)
  <2>1. Finish(p) BY <1>8 DEF MarkConfirmed
  <2> QED BY <1>8, <2>1, FinishFrame DEF MarkConfirmed, Finish, server
<1>9. CASE Interrupt(p)
  <2>1. Finish(p) BY <1>9 DEF Interrupt
  <2> QED BY <1>9, <2>1, FinishFrame DEF Interrupt, Finish, store, server
<1> QED
  BY <1>1, <1>2, <1>3, <1>4, <1>5, <1>6, <1>7, <1>8, <1>9 DEF BatchStep

-----------------------------------------------------------------------------
(* Each kind of step keeps the rest of the inductive invariant.            *)

LEMMA LocalOrdered ==
  ASSUME TypeOK, Ordered, NEW p \in Daemon, BatchStep(p) \/ Interrupt(p),
         ~Dispatch(p), ~SetCursor(p), ~SkipKnown(p), ~ApplyRemote(p)
  PROVE  Ordered'
<1>1. /\ UNCHANGED <<log, cursor, made, wire, peer, rows, journal, nextSeq, txs>>
      /\ \A o \in Daemon : ReplyShrinks(o) /\ PhaseKept(o)
      /\ \A o \in Daemon : phase'[o] \in {"ack", "page"} => reply'[o] = reply[o]
  BY LocalFrame
<1>2. \A o \in Device : Logged(o)' = Logged(o) BY <1>1, SameLogged
<1>3. InFlight' = InFlight /\ Staged' = Staged BY <1>1 DEF InFlight, Staged
<1>4. \A r \in InFlight : r.from \in Daemon
  BY DEF InFlight, TypeOK, ServerType, Request, Tx
<1>5. SentIsLogged'
  <2>1. \A q \in Daemon : Logged(Home[q])' = Logged(Home[q])
    BY <1>2, HomeType
  <2>2. \A t \in txs : t.req.from \in Daemon
    BY <1>4 DEF InFlight
  <2>3. \A r \in InFlight' : r.muts \subseteq Logged(Home[r.from])'
    BY <1>3, <1>4, <2>1 DEF Ordered, SentIsLogged
  <2>4. \A t \in txs' :
          /\ t.todo \union t.confirmed \union t.refused
               \subseteq Logged(Home[t.req.from])'
          /\ Muts(t.staged) \subseteq Logged(Home[t.req.from])'
    BY <1>1, <2>1, <2>2 DEF Ordered, SentIsLogged
  <2>5. \A q \in Daemon :
          reply'[q].confirmed \union reply'[q].refused \subseteq Logged(Home[q])'
    BY <1>1, <2>1 DEF Ordered, SentIsLogged, ReplyShrinks
  <2> QED BY <2>3, <2>4, <2>5 DEF SentIsLogged
<1>6. JournalOrder' BY <1>1, <1>3 DEF Ordered, JournalOrder
<1>7. CursorsBehind'
  <2>1. nextSeq \in Nat \ {0} /\ \A x \in Staged : x.seq \in Nat \ {0}
    BY DEF TypeOK, ServerType, Tx, Staged, Entry
  <2> QED BY <1>1, <1>3, <2>1 DEF Ordered, CursorsBehind, IsBehind, ReplyShrinks
<1>8. RequestCovers'
  BY <1>1, <1>2, <1>3, <1>4, HomeType DEF Ordered, RequestCovers
<1>9. PageCovers'
  BY <1>1, <1>2, HomeType DEF Ordered, PageCovers, ReplyShrinks, PhaseKept
<1>10. Numbered' BY <1>1, <1>2 DEF Ordered, Numbered
<1>11. CursorNoGap' BY <1>1, <1>2 DEF Ordered, CursorNoGap
<1> QED BY <1>5, <1>6, <1>7, <1>8, <1>9, <1>10, <1>11 DEF Ordered

LEMMA ChangeOrdered ==
  ASSUME TypeOK, Ordered, NEW d \in Device, NEW e \in Entity, NEW op \in Op,
         Change(d, e, op)
  PROVE  Ordered'
<1> DEFINE m == [by |-> d, n |-> made[d] + 1, op |-> op, ent |-> e]
<1>1. m \in Mutation BY DEF TypeOK, StoreType, Mutation
<1>2. /\ Logged(d)' = Logged(d) \union {m}
      /\ \A o \in Device \ {d} : Logged(o)' = Logged(o)
  BY <1>1, InsertedLog DEF Change, TypeOK, StoreType
<1>3. \A o \in Device : Logged(o) \subseteq Logged(o)' BY <1>2
<1>4. /\ UNCHANGED <<cursor, phase, batch, reply, wire, journal, nextSeq, txs>>
      /\ made' = [made EXCEPT ![d] = @ + 1]
  BY DEF Change, process, server
<1>5. InFlight' = InFlight /\ Staged' = Staged BY <1>4 DEF InFlight, Staged
<1>6. \A r \in InFlight : r.from \in Daemon
  BY DEF InFlight, TypeOK, ServerType, Request, Tx
<1>7. \A t \in txs : t.req.from \in Daemon
  BY DEF TypeOK, ServerType, Request, Tx
<1>8. SentIsLogged'
  BY <1>3, <1>4, <1>5, <1>6, <1>7, HomeType DEF Ordered, SentIsLogged
<1>9. JournalOrder' BY <1>4, <1>5 DEF Ordered, JournalOrder
<1>10. CursorsBehind' BY <1>4, <1>5 DEF Ordered, CursorsBehind, IsBehind
<1>11. RequestCovers'
  BY <1>3, <1>4, <1>5, <1>6, HomeType DEF Ordered, RequestCovers
<1>12. PageCovers' BY <1>3, <1>4, HomeType DEF Ordered, PageCovers
<1>13. Numbered'
  <2>1. \A o \in Device : made[o] \in Nat /\ made[o] <= made'[o]
    BY <1>4 DEF TypeOK, StoreType
  <2>2. \A o \in Device : \A k \in Logged(o) : k.by \in Device /\ k.n \in Nat
    BY LoggedType DEF Mutation
  <2>3. m.by = d /\ m.n <= made'[d] BY <1>4 DEF TypeOK, StoreType
  <2> HIDE DEF m
  <2>4. \A o \in Device : \A k \in Logged(o) : k.n <= made[k.by]
    BY DEF Ordered, Numbered
  <2>5. \A o \in Device : \A k \in Logged(o) : k.n <= made'[k.by]
    BY <1>4, <2>1, <2>2, <2>4 DEF TypeOK, StoreType
  <2>6. \A o \in Device : \A k \in Logged(o)' : k.n <= made'[k.by]
    BY <1>2, <2>3, <2>5
  <2>7. \A x \in journal' : \E o \in Device : x.mut \in Logged(o)'
    BY <1>3, <1>4 DEF Ordered, Numbered
  <2> QED BY <2>6, <2>7 DEF Numbered
<1>14. CursorNoGap' BY <1>3, <1>4 DEF Ordered, CursorNoGap
<1> QED
  BY <1>8, <1>9, <1>10, <1>11, <1>12, <1>13, <1>14 DEF Ordered

LEMMA DispatchOrdered ==
  ASSUME TypeOK, Ordered, NEW p \in Daemon, Dispatch(p)
  PROVE  Ordered'
<1> DEFINE d == Home[p]
<1> d \in Device BY HomeType
<1>1. PICK P \in SUBSET pending[d], no \in FreshNo(d) :
       /\ batch' = [batch EXCEPT ![p] = [no |-> no, rows |-> @.rows, muts |-> P]]
       /\ wire' = wire \union {[from |-> p, no |-> no, rows |-> batch[p].rows,
                                muts |-> P, cursor |-> cursor[d]]}
  BY DEF Dispatch
<1> DEFINE q == [from |-> p, no |-> no, rows |-> batch[p].rows,
                 muts |-> P, cursor |-> cursor[d]]
<1>2. q.from = p /\ q.no = no /\ q.muts = P /\ q.cursor = cursor[d] OBVIOUS
<1>3. wire' = wire \union {q} BY <1>1
<1> HIDE DEF q
<1>4. /\ UNCHANGED <<log, cursor, made, reply, journal, nextSeq, txs>>
      /\ phase' = [phase EXCEPT ![p] = "wait"]
  BY DEF Dispatch, server
<1>5. \A o \in Device : Logged(o)' = Logged(o) BY <1>4, SameLogged
<1>6. InFlight' = InFlight \union {q} /\ Staged' = Staged
  BY <1>3, <1>4 DEF InFlight, Staged
<1>7. \A r \in InFlight : r.from \in Daemon
  BY DEF InFlight, TypeOK, ServerType, Request, Tx
<1>8. \A t \in txs : t.req.from \in Daemon
  BY DEF TypeOK, ServerType, Request, Tx
<1>9. P \subseteq Logged(d) BY DEF TypeOK, MarksAreLogged
<1>10. SentIsLogged'
  BY <1>2, <1>4, <1>5, <1>6, <1>7, <1>8, <1>9, HomeType
  DEF Ordered, SentIsLogged
<1>11. JournalOrder' BY <1>4, <1>6 DEF Ordered, JournalOrder
<1>12. CursorsBehind' BY <1>2, <1>4, <1>6 DEF Ordered, CursorsBehind, IsBehind
<1>13. RequestCovers'
  <2>1. \A x \in journal : x.seq <= cursor[d] => x.mut \in Logged(d)
    BY DEF Ordered, CursorNoGap
  <2>2. \A r \in InFlight : Home[r.from] \in Device BY <1>7, HomeType
  <2> QED
    BY <1>2, <1>4, <1>5, <1>6, <2>1, <2>2 DEF Ordered, RequestCovers
<1>14. PageCovers'
  BY <1>4, <1>5, HomeType DEF Ordered, PageCovers, TypeOK, ProcessType
<1>15. Numbered' BY <1>4, <1>5 DEF Ordered, Numbered
<1>16. CursorNoGap' BY <1>4, <1>5 DEF Ordered, CursorNoGap
<1> QED
  BY <1>10, <1>11, <1>12, <1>13, <1>14, <1>15, <1>16 DEF Ordered

LEMMA SkipOrdered ==
  ASSUME TypeOK, Ordered, NEW p \in Daemon, SkipKnown(p)
  PROVE  Ordered'
<1> DEFINE d == Home[p]
<1> d \in Device BY HomeType
<1>1. PICK x \in reply[p].page :
        x.mut \in Logged(d) /\ reply' = [reply EXCEPT ![p].page = @ \ {x}]
  BY DEF SkipKnown
<1>2. UNCHANGED <<log, cursor, made, phase, batch, wire, journal, nextSeq, txs>>
  BY DEF SkipKnown, store, server
<1>3. \A o \in Device : Logged(o)' = Logged(o) BY <1>2, SameLogged
<1>4. InFlight' = InFlight /\ Staged' = Staged BY <1>2 DEF InFlight, Staged
<1>5. \A r \in InFlight : r.from \in Daemon
  BY DEF InFlight, TypeOK, ServerType, Request, Tx
<1>6. \A t \in txs : t.req.from \in Daemon
  BY DEF TypeOK, ServerType, Request, Tx
<1>7. /\ \A o \in Daemon :
           /\ reply'[o].confirmed = reply[o].confirmed
           /\ reply'[o].refused = reply[o].refused
           /\ reply'[o].next = reply[o].next
      /\ reply'[p].page = reply[p].page \ {x}
      /\ \A o \in Daemon \ {p} : reply'[o] = reply[o]
  BY <1>1 DEF TypeOK, ProcessType, Reply
<1>8. SentIsLogged'
  BY <1>2, <1>3, <1>4, <1>5, <1>6, <1>7, HomeType DEF Ordered, SentIsLogged
<1>9. JournalOrder' BY <1>2, <1>4 DEF Ordered, JournalOrder
<1>10. CursorsBehind' BY <1>2, <1>4, <1>7 DEF Ordered, CursorsBehind, IsBehind
<1>11. RequestCovers'
  BY <1>2, <1>3, <1>4, <1>5, HomeType DEF Ordered, RequestCovers
<1>12. PageCovers' BY <1>1, <1>2, <1>3, <1>7, HomeType DEF Ordered, PageCovers
<1>13. Numbered' BY <1>2, <1>3 DEF Ordered, Numbered
<1>14. CursorNoGap' BY <1>2, <1>3 DEF Ordered, CursorNoGap
<1> QED
  BY <1>8, <1>9, <1>10, <1>11, <1>12, <1>13, <1>14 DEF Ordered

LEMMA ApplyRemoteOrdered ==
  ASSUME TypeOK, Ordered, NEW p \in Daemon, ApplyRemote(p)
  PROVE  Ordered'
<1> DEFINE d == Home[p]
<1> d \in Device BY HomeType
<1>1. PICK x \in reply[p].page :
        /\ log' = [log EXCEPT ![d] = Insert(@, x.mut)]
        /\ reply' = [reply EXCEPT ![p].page = @ \ {x}]
  BY DEF ApplyRemote
<1>2. UNCHANGED <<cursor, made, phase, batch, wire, journal, nextSeq, txs>>
  BY DEF ApplyRemote, server
<1>3. x.mut \in Mutation BY DEF TypeOK, ProcessType, Reply, Entry
<1>4. /\ Logged(d)' = Logged(d) \union {x.mut}
      /\ \A o \in Device \ {d} : Logged(o)' = Logged(o)
  BY <1>1, <1>3, InsertedLog DEF TypeOK, StoreType
<1>5. \A o \in Device : Logged(o) \subseteq Logged(o)' BY <1>4
<1>6. InFlight' = InFlight /\ Staged' = Staged BY <1>2 DEF InFlight, Staged
<1>7. \A r \in InFlight : r.from \in Daemon
  BY DEF InFlight, TypeOK, ServerType, Request, Tx
<1>8. \A t \in txs : t.req.from \in Daemon
  BY DEF TypeOK, ServerType, Request, Tx
<1>9. /\ \A o \in Daemon :
           /\ reply'[o].confirmed = reply[o].confirmed
           /\ reply'[o].refused = reply[o].refused
           /\ reply'[o].next = reply[o].next
      /\ reply'[p].page = reply[p].page \ {x}
      /\ \A o \in Daemon \ {p} : reply'[o] = reply[o]
  BY <1>1 DEF TypeOK, ProcessType, Reply
<1>10. SentIsLogged'
  BY <1>2, <1>5, <1>6, <1>7, <1>8, <1>9, HomeType DEF Ordered, SentIsLogged
<1>11. JournalOrder' BY <1>2, <1>6 DEF Ordered, JournalOrder
<1>12. CursorsBehind' BY <1>2, <1>6, <1>9 DEF Ordered, CursorsBehind, IsBehind
<1>13. RequestCovers'
  BY <1>2, <1>5, <1>6, <1>7, HomeType DEF Ordered, RequestCovers
<1>14. PageCovers' BY <1>2, <1>4, <1>5, <1>9, HomeType DEF Ordered, PageCovers
<1>15. Numbered'
  <2>1. PICK o \in Device : x.mut \in Logged(o)
    BY DEF Ordered, PageCovers, Numbered
  <2>2. x.mut.n <= made[x.mut.by] BY <2>1 DEF Ordered, Numbered
  <2> QED BY <1>2, <1>4, <1>5, <2>2 DEF Ordered, Numbered
<1>16. CursorNoGap' BY <1>2, <1>5 DEF Ordered, CursorNoGap
<1> QED
  BY <1>10, <1>11, <1>12, <1>13, <1>14, <1>15, <1>16 DEF Ordered

LEMMA SetCursorOrdered ==
  ASSUME TypeOK, Ordered, NEW p \in Daemon, SetCursor(p)
  PROVE  Ordered'
<1> DEFINE d == Home[p]
<1> d \in Device BY HomeType
<1>1. /\ phase[p] = "page" /\ reply[p].page = {}
      /\ cursor' = [cursor EXCEPT ![d] = reply[p].next]
      /\ phase' = [phase EXCEPT ![p] = "reject"]
      /\ UNCHANGED <<log, made, reply, batch, wire, journal, nextSeq, txs>>
  BY DEF SetCursor, server
<1>2. \A o \in Device : Logged(o)' = Logged(o) BY <1>1, SameLogged
<1>3. InFlight' = InFlight /\ Staged' = Staged BY <1>1 DEF InFlight, Staged
<1>4. \A r \in InFlight : r.from \in Daemon /\ r.cursor \in Nat
  BY DEF InFlight, TypeOK, ServerType, Request, Tx
<1>5. \A x \in journal : x.seq <= reply[p].next => x.mut \in Logged(d)
  BY <1>1 DEF Ordered, PageCovers
<1>6. /\ cursor'[d] = reply[p].next
      /\ \A o \in Device \ {d} : cursor'[o] = cursor[o]
  BY <1>1 DEF TypeOK, StoreType
<1>7. /\ phase'[p] = "reject"
      /\ \A o \in Daemon \ {p} : phase'[o] = phase[o]
  BY <1>1 DEF TypeOK, ProcessType
<1>8. SentIsLogged'
  <2>1. \A t \in txs : t.req.from \in Daemon
    BY DEF TypeOK, ServerType, Request, Tx
  <2> QED BY <1>1, <1>2, <1>3, <1>4, <2>1, HomeType DEF Ordered, SentIsLogged
<1>9. JournalOrder' BY <1>1, <1>3 DEF Ordered, JournalOrder
<1>10. CursorsBehind' BY <1>1, <1>3, <1>6 DEF Ordered, CursorsBehind, IsBehind
<1>11. RequestCovers'
  BY <1>1, <1>2, <1>3, <1>4, HomeType DEF Ordered, RequestCovers
<1>12. PageCovers' BY <1>1, <1>2, <1>6, <1>7, HomeType DEF Ordered, PageCovers
<1>13. Numbered' BY <1>1, <1>2 DEF Ordered, Numbered
<1>14. CursorNoGap'
  BY <1>1, <1>2, <1>5, <1>6 DEF Ordered, CursorNoGap
<1> QED
  BY <1>8, <1>9, <1>10, <1>11, <1>12, <1>13, <1>14 DEF Ordered

(* One transaction is open: nothing else is staged.                        *)
LEMMA OneTx ==
  ASSUME Ordered, NEW t \in txs
  PROVE  txs = {t} /\ Staged = t.staged
<1>1. txs = {t} BY DEF Ordered, JournalOrder
<1> QED BY <1>1 DEF Staged

LEMMA KeepTxOrdered ==
  ASSUME TypeOK, Ordered, NEW t \in txs, NEW u,
         u.req = t.req, u.staged = t.staged,
         u.todo \union u.confirmed \union u.refused
           \subseteq t.todo \union t.confirmed \union t.refused,
         txs' = (txs \ {t}) \union {u},
         UNCHANGED <<store, process, wire, journal, nextSeq>>
  PROVE  Ordered'
<1>1. txs = {t} /\ txs' = {u} BY OneTx
<1>2. UNCHANGED <<log, cursor, made, phase, batch, reply, wire, journal, nextSeq>>
  BY DEF store, process
<1>3. \A o \in Device : Logged(o)' = Logged(o) BY <1>2, SameLogged
<1>4. InFlight' = InFlight /\ Staged' = Staged
  BY <1>1, <1>2 DEF InFlight, Staged
<1>5. \A r \in InFlight : r.from \in Daemon
  BY DEF InFlight, TypeOK, ServerType, Request, Tx
<1>6. SentIsLogged'
  <2>1. t.req.from \in Daemon BY DEF TypeOK, ServerType, Request, Tx
  <2>2. /\ u.todo \union u.confirmed \union u.refused \subseteq Logged(Home[u.req.from])'
        /\ Muts(u.staged) \subseteq Logged(Home[u.req.from])'
    BY <1>3, <2>1, HomeType DEF Ordered, SentIsLogged
  <2>3. \A r \in InFlight' : r.muts \subseteq Logged(Home[r.from])'
    BY <1>3, <1>4, <1>5, HomeType DEF Ordered, SentIsLogged
  <2>4. \A p \in Daemon :
          reply'[p].confirmed \union reply'[p].refused \subseteq Logged(Home[p])'
    BY <1>2, <1>3, HomeType DEF Ordered, SentIsLogged
  <2> QED BY <1>1, <2>2, <2>3, <2>4 DEF SentIsLogged, Muts
<1>7. JournalOrder' BY <1>1, <1>2, <1>4 DEF Ordered, JournalOrder
<1>8. CursorsBehind' BY <1>2, <1>4 DEF Ordered, CursorsBehind, IsBehind
<1>9. RequestCovers' 
  BY <1>2, <1>3, <1>4, <1>5, HomeType DEF Ordered, RequestCovers
<1>10. PageCovers' BY <1>2, <1>3, HomeType DEF Ordered, PageCovers
<1>11. Numbered' BY <1>2, <1>3 DEF Ordered, Numbered
<1>12. CursorNoGap' BY <1>2, <1>3 DEF Ordered, CursorNoGap
<1> QED
  BY <1>6, <1>7, <1>8, <1>9, <1>10, <1>11, <1>12 DEF Ordered

LEMMA ApplyOrdered ==
  ASSUME TypeOK, Ordered, NEW t \in txs, NEW m \in t.todo, Apply(t, m)
  PROVE  Ordered'
<1>e. PICK entry : entry = [seq |-> nextSeq, mut |-> m] OBVIOUS
<1>u. PICK u :
        u = [t EXCEPT !.todo = @ \ {m}, !.confirmed = @ \union {m},
                      !.view = [@ EXCEPT ![m.ent] = Effect(m)],
                      !.staged = @ \union {entry}]
  OBVIOUS
<1>1. t \in Tx BY DEF TypeOK, ServerType
<1>2. txs = {t} /\ Staged = t.staged BY OneTx
<1>3. txs' = {u} BY <1>2, <1>e, <1>u DEF Apply
<1>4. /\ u.req = t.req /\ u.staged = t.staged \union {entry}
      /\ u.todo = t.todo \ {m} /\ u.confirmed = t.confirmed \union {m}
      /\ u.refused = t.refused
  BY <1>1, <1>u DEF Tx
<1>5. entry.seq = nextSeq /\ entry.mut = m BY <1>e
<1>6. /\ UNCHANGED <<log, cursor, made, phase, batch, reply, wire, journal>>
      /\ nextSeq' = nextSeq + 1
  BY DEF Apply, store, process
<1>7. \A o \in Device : Logged(o)' = Logged(o) BY <1>6, SameLogged
<1>8. InFlight' = InFlight /\ Staged' = Staged \union {entry}
  BY <1>2, <1>3, <1>4, <1>6 DEF InFlight, Staged
<1>9. \A r \in InFlight : r.from \in Daemon
  BY DEF InFlight, TypeOK, ServerType, Request, Tx
<1>10. nextSeq \in Nat /\ \A x \in journal \union Staged : x.seq \in Nat
  BY <1>1, <1>2 DEF TypeOK, ServerType, Tx, Entry
<1>11. \A x \in journal \union Staged : x.mut # m /\ x.seq < nextSeq
  BY <1>2 DEF Apply, IsDuplicate, Muts, Ordered, JournalOrder
<1>12. SentIsLogged'
  <2>1. t.req.from \in Daemon BY <1>1 DEF Request, Tx
  <2>2. u.todo \union u.confirmed \union u.refused \subseteq Logged(Home[u.req.from])'
    BY <1>4, <1>7, <2>1, HomeType DEF Ordered, SentIsLogged
  <2>3. Muts(u.staged) \subseteq Logged(Home[u.req.from])'
    BY <1>4, <1>5, <1>7, <2>1, HomeType DEF Ordered, SentIsLogged, Muts
  <2>4. \A r \in InFlight' : r.muts \subseteq Logged(Home[r.from])'
    BY <1>7, <1>8, <1>9, HomeType DEF Ordered, SentIsLogged
  <2>5. \A p \in Daemon :
          reply'[p].confirmed \union reply'[p].refused \subseteq Logged(Home[p])'
    BY <1>6, <1>7, HomeType DEF Ordered, SentIsLogged
  <2> QED BY <1>3, <2>2, <2>3, <2>4, <2>5 DEF SentIsLogged, Muts
<1>13. JournalOrder'
  BY <1>3, <1>5, <1>6, <1>8, <1>10, <1>11 DEF Ordered, JournalOrder
<1>14. CursorsBehind'
  <2>1. /\ \A d \in Device : cursor[d] \in Nat
        /\ \A p \in Daemon : reply[p].next \in Nat
        /\ \A r \in InFlight : r.cursor \in Nat
    BY DEF TypeOK, StoreType, ProcessType, ServerType, Reply, InFlight, Tx, Request
  <2> QED BY <1>5, <1>6, <1>8, <1>10, <2>1 DEF Ordered, CursorsBehind, IsBehind
<1>15. RequestCovers' 
  BY <1>6, <1>7, <1>8, <1>9, HomeType DEF Ordered, RequestCovers
<1>16. PageCovers' BY <1>6, <1>7, HomeType DEF Ordered, PageCovers
<1>17. Numbered' BY <1>6, <1>7 DEF Ordered, Numbered
<1>18. CursorNoGap' BY <1>6, <1>7 DEF Ordered, CursorNoGap
<1> QED
  BY <1>12, <1>13, <1>14, <1>15, <1>16, <1>17, <1>18 DEF Ordered

LEMMA CommitOrdered ==
  ASSUME TypeOK, Ordered, NEW t \in txs, Commit(t)
  PROVE  Ordered'
<1> DEFINE p == t.req.from
           d == Home[p]
           c == t.req.cursor
           listed == IF t.v2 THEN journal \union t.staged ELSE {}
           seen == {e \in Entity : t.view[e] = "active"}
<1>1. PICK page \in SUBSET After(listed, c),
           next \in {0, c} \union {x.seq : x \in listed} :
        /\ IsJournalPage(page, listed, c)
        /\ IsNextCursor(next, page, c)
        /\ Respond(t.req, [v2 |-> t.v2, rows |-> seen \ t.req.rows, page |-> page,
                           next |-> next, confirmed |-> t.confirmed,
                           refused |-> t.refused])
  BY DEF Commit
<1> DEFINE answer == [v2 |-> t.v2, rows |-> seen \ t.req.rows, page |-> page,
                      next |-> next, confirmed |-> t.confirmed,
                      refused |-> t.refused]
<1>2. /\ answer.page = page /\ answer.next = next
      /\ answer.confirmed = t.confirmed /\ answer.refused = t.refused
  OBVIOUS
<1>3. Respond(t.req, answer) BY <1>1
<1> HIDE DEF answer
<1>4. t \in Tx /\ p \in Daemon /\ d \in Device /\ c \in Nat /\ t.req \in InFlight
  BY HomeType DEF TypeOK, ServerType, Tx, Request, InFlight
<1>5. txs = {t} /\ Staged = t.staged BY OneTx
<1>6. /\ txs' = {} /\ journal' = journal \union t.staged
      /\ UNCHANGED <<log, cursor, made, batch, wire, nextSeq>>
  BY <1>5 DEF Commit, store
<1>7. \A o \in Device : Logged(o)' = Logged(o) BY <1>6, SameLogged
<1>8. InFlight' = wire /\ Staged' = {} BY <1>6 DEF InFlight, Staged
<1>9. /\ Awaited(t.req) => /\ reply' = [reply EXCEPT ![p] = answer]
                           /\ phase' = [phase EXCEPT ![p] = "ack"]
      /\ ~Awaited(t.req) => UNCHANGED <<reply, phase>>
  BY <1>3 DEF Respond
<1>10. /\ \A o \in Daemon \ {p} : reply'[o] = reply[o] /\ phase'[o] = phase[o]
       /\ \/ reply'[p] = answer /\ phase'[p] = "ack"
          \/ reply'[p] = reply[p] /\ phase'[p] = phase[p]
  BY <1>4, <1>9 DEF TypeOK, ProcessType
<1>11. \A x \in journal \union t.staged : x.seq \in Nat \ {0} /\ x.seq < nextSeq
  BY <1>4, <1>5 DEF TypeOK, ServerType, Tx, Entry, Ordered, JournalOrder
<1>12. listed \subseteq journal' /\ page \subseteq journal'
  BY <1>6 DEF After
<1>13. /\ c < nextSeq /\ \A x \in t.staged : c < x.seq
       /\ \A x \in journal : x.seq <= c => x.mut \in Logged(d)
  BY <1>4, <1>5 DEF Ordered, CursorsBehind, IsBehind, RequestCovers
<1>14. /\ next \in Nat /\ next < nextSeq
       /\ \A x \in journal' : c < x.seq /\ x.seq <= next => x \in page
  <2>1. CASE page = {} BY <1>1, <1>4, <1>6, <1>11, <1>13, <2>1 DEF IsNextCursor
  <2>2. CASE page # {}
    <3>1. PICK x \in page : next = x.seq /\ \A y \in page : y.seq <= x.seq
      BY <1>1, <2>2 DEF IsNextCursor
    <3>2. c < x.seq /\ x \in listed BY DEF After
    <3>3. listed = journal' BY <1>6, <3>2
    <3>4. \A y \in journal' : c < y.seq /\ y \notin page => x.seq < y.seq
      BY <1>1, <3>3 DEF IsJournalPage, After
    <3>5. x.seq \in Nat /\ x.seq < nextSeq /\ \A y \in journal' : y.seq \in Nat
      BY <1>6, <1>11, <1>12
    <3> QED BY <1>4, <3>1, <3>2, <3>4, <3>5
  <2> QED BY <2>1, <2>2
<1> HIDE DEF listed, seen
<1>15. SentIsLogged'
  <2>1. t.confirmed \union t.refused \subseteq Logged(d)
    BY DEF Ordered, SentIsLogged
  <2>2. \A o \in Daemon :
          reply'[o].confirmed \union reply'[o].refused \subseteq Logged(Home[o])'
    BY <1>2, <1>4, <1>7, <1>10, <2>1, HomeType DEF Ordered, SentIsLogged
  <2>3. \A r \in wire : r.from \in Daemon /\ r.muts \subseteq Logged(Home[r.from])
    BY DEF TypeOK, ServerType, Request, Ordered, SentIsLogged, InFlight
  <2> QED BY <1>6, <1>7, <1>8, <2>2, <2>3, HomeType DEF SentIsLogged
<1>16. JournalOrder' BY <1>5, <1>6, <1>8 DEF Ordered, JournalOrder
<1>17. CursorsBehind'
  <2>1. \A r \in wire : r \in InFlight BY DEF InFlight
  <2> QED
    BY <1>2, <1>6, <1>8, <1>10, <1>14, <2>1 DEF Ordered, CursorsBehind, IsBehind
<1>18. RequestCovers'
  <2>1. \A r \in wire :
          r \in InFlight /\ Home[r.from] \in Device /\ r.cursor \in Nat
    BY HomeType DEF InFlight, TypeOK, ServerType, Request
  <2>2. \A r \in wire, x \in t.staged : ~(x.seq <= r.cursor)
    BY <1>5, <1>11, <2>1 DEF Ordered, CursorsBehind, IsBehind
  <2> QED BY <1>6, <1>7, <1>8, <2>1, <2>2 DEF Ordered, RequestCovers
<1>19. PageCovers'
  <2>1. \A o \in Daemon : reply[o].page \subseteq journal'
    BY <1>6 DEF Ordered, PageCovers
  <2>2. \A o \in Daemon : reply[o].next \in Nat
    BY DEF TypeOK, ProcessType, Reply
  <2>3. \A o \in Daemon, x \in t.staged : ~(x.seq <= reply[o].next)
    BY <1>5, <1>11, <2>2 DEF Ordered, CursorsBehind, IsBehind
  <2>4. \A o \in Daemon : phase[o] \in {"ack", "page"} =>
          \A x \in journal' :
            x.seq <= reply[o].next
              => x.mut \in Logged(Home[o]) \/ x \in reply[o].page
    BY <1>6, <2>3 DEF Ordered, PageCovers
  <2>5. \A x \in journal' : x.seq <= next => x.mut \in Logged(d) \/ x \in page
    <3>1. \A x \in journal' : x.seq \in Nat BY <1>6, <1>11
    <3>2. \A x \in journal' : x.seq <= c => x.mut \in Logged(d)
      BY <1>4, <1>6, <1>11, <1>13
    <3> QED BY <1>4, <1>14, <3>1, <3>2
  <2>6. ASSUME NEW o \in Daemon
        PROVE  /\ reply'[o].page \subseteq journal'
               /\ phase'[o] \in {"ack", "page"} =>
                    \A x \in journal' :
                      x.seq <= reply'[o].next
                        => x.mut \in Logged(Home[o])' \/ x \in reply'[o].page
    <3>1. CASE reply'[o] = reply[o] /\ phase'[o] = phase[o]
      BY <1>6, <1>7, <2>1, <2>4, <3>1, HomeType
    <3>2. CASE o = p /\ reply'[p] = answer
      BY <1>2, <1>4, <1>6, <1>7, <1>12, <2>5, <3>2
    <3> QED BY <1>10, <3>1, <3>2
  <2> QED BY <2>6 DEF PageCovers
<1>20. Numbered'
  <2>1. \A x \in t.staged : x.mut \in Logged(d)
    BY DEF Ordered, SentIsLogged, Muts
  <2> QED BY <1>4, <1>6, <1>7, <2>1 DEF Ordered, Numbered
<1>21. CursorNoGap'
  <2>1. \A o \in Device, x \in t.staged : ~(x.seq <= cursor[o])
    BY <1>5, <1>11 DEF Ordered, CursorsBehind, IsBehind, TypeOK, StoreType
  <2> QED BY <1>6, <1>7, <2>1 DEF Ordered, CursorNoGap
<1> QED
  BY <1>15, <1>16, <1>17, <1>18, <1>19, <1>20, <1>21 DEF Ordered

(* Requests and transactions that only move on or vanish, with the process *)
(* of a device that may give up.                                           *)
LEMMA FewerOrdered ==
  ASSUME TypeOK, Ordered,
         InFlight' \subseteq InFlight, Staged' = {},
         \A t, u \in txs' : t = u,
         \A t \in txs' :
           /\ t.todo \union t.confirmed \union t.refused \subseteq t.req.muts
           /\ t.staged = {} /\ t.req \in InFlight,
         UNCHANGED <<log, cursor, made, journal, nextSeq>>,
         \A o \in Daemon : ReplyShrinks(o) /\ PhaseKept(o),
         \A o \in Daemon : phase'[o] \in {"ack", "page"} => reply'[o] = reply[o]
  PROVE  Ordered'
<1>1. \A o \in Device : Logged(o)' = Logged(o) BY SameLogged
<1>2. \A r \in InFlight : r.from \in Daemon
  BY DEF InFlight, TypeOK, ServerType, Request, Tx
<1>3. SentIsLogged'
  <2>1. \A r \in InFlight : r.muts \subseteq Logged(Home[r.from])'
    BY <1>1, <1>2, HomeType DEF Ordered, SentIsLogged
  <2>2. \A t \in txs' :
          /\ t.todo \union t.confirmed \union t.refused \subseteq Logged(Home[t.req.from])'
          /\ Muts(t.staged) \subseteq Logged(Home[t.req.from])'
    BY <2>1 DEF Muts
  <2>3. \A o \in Daemon :
          reply'[o].confirmed \union reply'[o].refused \subseteq Logged(Home[o])'
    BY <1>1, HomeType DEF Ordered, SentIsLogged, ReplyShrinks
  <2> QED BY <2>1, <2>2, <2>3 DEF SentIsLogged, Muts
<1>4. JournalOrder' BY DEF Ordered, JournalOrder
<1>5. CursorsBehind'
  <2>1. nextSeq \in Nat \ {0} BY DEF TypeOK, ServerType
  <2> QED BY <2>1 DEF Ordered, CursorsBehind, IsBehind, ReplyShrinks
<1>6. RequestCovers'
  BY <1>1, <1>2, HomeType DEF Ordered, RequestCovers
<1>7. PageCovers' BY <1>1, HomeType DEF Ordered, PageCovers, ReplyShrinks, PhaseKept
<1>8. Numbered' BY <1>1 DEF Ordered, Numbered
<1>9. CursorNoGap' BY <1>1 DEF Ordered, CursorNoGap
<1> QED BY <1>3, <1>4, <1>5, <1>6, <1>7, <1>8, <1>9 DEF Ordered

LEMMA SameProcess ==
  ASSUME UNCHANGED process
  PROVE  /\ \A o \in Daemon : ReplyShrinks(o) /\ PhaseKept(o)
         /\ \A o \in Daemon : phase'[o] \in {"ack", "page"} => reply'[o] = reply[o]
BY DEF process, ReplyShrinks, PhaseKept

LEMMA BeginOrdered ==
  ASSUME TypeOK, Ordered, NEW r \in wire, Begin(r)
  PROVE  Ordered'
<1> DEFINE u == [req |-> r, v2 |-> Authoritative(r),
                 todo |-> IF Authoritative(r) THEN r.muts ELSE {},
                 view |-> IF Authoritative(r) THEN rows ELSE Upserted(rows, r.rows),
                 staged |-> {}, confirmed |-> {}, refused |-> {}]
<1>1. /\ txs' = {u} /\ wire' = wire \ {r}
      /\ UNCHANGED <<log, cursor, made, process, journal, nextSeq>>
  BY DEF Begin, KeyLockFree, store
<1>2. /\ u.req = r /\ u.staged = {}
      /\ u.todo \union u.confirmed \union u.refused \subseteq r.muts
  OBVIOUS
<1> HIDE DEF u
<1>3. \A t \in txs' : /\ t.req = r /\ t.staged = {}
                      /\ t.todo \union t.confirmed \union t.refused \subseteq r.muts
  BY <1>1, <1>2
<1>4. r \in InFlight BY DEF InFlight
<1>5. InFlight' \subseteq InFlight BY <1>1, <1>3, <1>4 DEF InFlight
<1>6. Staged' = {} BY <1>3 DEF Staged
<1>7. \A t, v \in txs' : t = v BY <1>1
<1> QED
  BY <1>1, <1>3, <1>4, <1>5, <1>6, <1>7, SameProcess, FewerOrdered

LEMMA DropOrdered ==
  ASSUME TypeOK, Ordered, NEW r \in wire, Drop(r)
  PROVE  Ordered'
<1>1. /\ wire' = wire \ {r}
      /\ UNCHANGED <<log, cursor, made, phase, batch, reply, txs, journal, nextSeq>>
  BY DEF Drop, store, process, server
<1>2. \A o \in Device : Logged(o)' = Logged(o) BY <1>1, SameLogged
<1>3. InFlight' \subseteq InFlight /\ Staged' = Staged
  BY <1>1 DEF InFlight, Staged
<1>4. \A q \in InFlight : q.from \in Daemon
  BY DEF InFlight, TypeOK, ServerType, Request, Tx
<1>5. \A t \in txs : t.req.from \in Daemon
  BY DEF TypeOK, ServerType, Request, Tx
<1>6. SentIsLogged'
  BY <1>1, <1>2, <1>3, <1>4, <1>5, HomeType DEF Ordered, SentIsLogged
<1>7. JournalOrder' BY <1>1, <1>3 DEF Ordered, JournalOrder
<1>8. CursorsBehind' BY <1>1, <1>3 DEF Ordered, CursorsBehind, IsBehind
<1>9. RequestCovers'
  BY <1>1, <1>2, <1>3, <1>4, HomeType DEF Ordered, RequestCovers
<1>10. PageCovers' BY <1>1, <1>2, HomeType DEF Ordered, PageCovers
<1>11. Numbered' BY <1>1, <1>2 DEF Ordered, Numbered
<1>12. CursorNoGap' BY <1>1, <1>2 DEF Ordered, CursorNoGap
<1> QED
  BY <1>6, <1>7, <1>8, <1>9, <1>10, <1>11, <1>12 DEF Ordered

LEMMA AbortOrdered ==
  ASSUME TypeOK, Ordered, NEW t \in txs, Abort(t)
  PROVE  Ordered'
<1>1. /\ txs' = {}
      /\ UNCHANGED <<log, cursor, made, wire, journal, nextSeq>>
  BY OneTx DEF Abort, store
<1>2. InFlight' \subseteq InFlight /\ Staged' = {}
  BY <1>1 DEF InFlight, Staged
<1>3. t.req.from \in Daemon BY DEF TypeOK, ServerType, Tx, Request
<1>4. /\ \A o \in Daemon : ReplyShrinks(o) /\ PhaseKept(o)
      /\ \A o \in Daemon : phase'[o] \in {"ack", "page"} => reply'[o] = reply[o]
  <2>1. CASE UNCHANGED process BY <2>1, SameProcess
  <2>2. CASE Finish(t.req.from)
    BY <1>3, <2>2, FinishFrame DEF Finish, TypeOK, ProcessType
  <2> QED BY <2>1, <2>2 DEF Abort
<1> QED BY <1>1, <1>2, <1>4, FewerOrdered

LEMMA NextOrdered ==
  ASSUME TypeOK, Ordered, Next
  PROVE  Ordered'
<1>1. ASSUME NEW d \in Device, NEW e \in Entity,
             Save(d, e) \/ Delete(d, e) \/ Restore(d, e)
      PROVE  Ordered'
  BY <1>1, ChangeOrdered DEF Save, Delete, Restore, Op
<1>2. ASSUME NEW p \in Daemon, BatchStep(p) \/ Interrupt(p) PROVE Ordered'
  <2>1. CASE Dispatch(p) BY <2>1, DispatchOrdered
  <2>2. CASE SetCursor(p) BY <2>2, SetCursorOrdered
  <2>3. CASE SkipKnown(p) BY <2>3, SkipOrdered
  <2>4. CASE ApplyRemote(p) BY <2>4, ApplyRemoteOrdered
  <2> QED BY <1>2, <2>1, <2>2, <2>3, <2>4, LocalOrdered
<1>3. ASSUME NEW r \in wire, Begin(r) \/ Drop(r) PROVE Ordered'
  BY <1>3, BeginOrdered, DropOrdered
<1>4. ASSUME NEW t \in txs, TxStep(t) PROVE Ordered'
  <2>1. t \in Tx BY DEF TypeOK, ServerType
  <2>2. ASSUME NEW m \in t.todo, Duplicate(t, m) PROVE Ordered'
    <3> DEFINE u == [t EXCEPT !.todo = @ \ {m}, !.confirmed = @ \union {m}]
    <3>1. /\ u.req = t.req /\ u.staged = t.staged
          /\ u.todo \union u.confirmed \union u.refused
               \subseteq t.todo \union t.confirmed \union t.refused
      BY <2>1 DEF Tx
    <3>2. txs' = (txs \ {t}) \union {u} BY <2>2 DEF Duplicate
    <3> HIDE DEF u
    <3>3. UNCHANGED <<store, process, wire, journal, nextSeq>>
      BY <2>2 DEF Duplicate
    <3> QED BY <3>1, <3>2, <3>3, KeepTxOrdered
  <2>3. ASSUME NEW m \in t.todo, Refuse(t, m) PROVE Ordered'
    <3> DEFINE u == [t EXCEPT !.todo = @ \ {m}, !.refused = @ \union {m}]
    <3>1. /\ u.req = t.req /\ u.staged = t.staged
          /\ u.todo \union u.confirmed \union u.refused
               \subseteq t.todo \union t.confirmed \union t.refused
      BY <2>1 DEF Tx
    <3>2. txs' = (txs \ {t}) \union {u} BY <2>3 DEF Refuse
    <3> HIDE DEF u
    <3>3. UNCHANGED <<store, process, wire, journal, nextSeq>>
      BY <2>3 DEF Refuse
    <3> QED BY <3>1, <3>2, <3>3, KeepTxOrdered
  <2> QED BY <1>4, <2>2, <2>3, ApplyOrdered, CommitOrdered DEF TxStep
<1>5. ASSUME NEW t \in txs, Abort(t) PROVE Ordered'
  BY <1>5, AbortOrdered
<1>6. CASE Upgrade
  <2>1. /\ txs = {} /\ txs' = {}
        /\ UNCHANGED <<log, cursor, made, process, wire, journal, nextSeq>>
    BY <1>6 DEF Upgrade, store
  <2>2. InFlight' \subseteq InFlight /\ Staged' = {}
    BY <2>1 DEF InFlight, Staged
  <2> QED BY <2>1, <2>2, SameProcess, FewerOrdered
<1> QED BY <1>1, <1>2, <1>3, <1>4, <1>5, <1>6 DEF Next

-----------------------------------------------------------------------------
LEMMA InitIInv == Init => IInv
<1> SUFFICES ASSUME Init PROVE TypeOK /\ Ordered BY DEF IInv
<1>1. \A d \in Device : Logged(d) = {} BY DEF Init, Logged
<1>2. InFlight = {} /\ Staged = {} BY DEF Init, InFlight, Staged
<1>3. StoreType
  <2>1. <<>> \in Seq(Mutation) OBVIOUS
  <2> QED BY <2>1 DEF Init, StoreType, Status
<1>4. ProcessType BY NoBatchType DEF Init, ProcessType, Phase
<1>5. ServerType BY MutationSyncAssumption DEF Init, ServerType, Status
<1>6. MarksAreLogged BY <1>1, HomeType DEF Init, MarksAreLogged, NoBatch
<1>7. SentIsLogged BY <1>1, <1>2, HomeType DEF Init, SentIsLogged, NoReply
<1>8. JournalOrder BY <1>2 DEF Init, JournalOrder
<1>9. CursorsBehind BY <1>2 DEF Init, CursorsBehind, IsBehind, NoReply
<1>10. RequestCovers BY <1>2 DEF RequestCovers
<1>11. PageCovers BY DEF Init, PageCovers, NoReply
<1>12. Numbered BY <1>1 DEF Init, Numbered
<1>13. CursorNoGap BY DEF Init, CursorNoGap
<1> QED
  BY <1>3, <1>4, <1>5, <1>6, <1>7, <1>8, <1>9, <1>10, <1>11, <1>12, <1>13
  DEF TypeOK, Ordered

LEMMA StutterIInv ==
  ASSUME TypeOK, Ordered, UNCHANGED vars
  PROVE  TypeOK' /\ Ordered'
<1>1. /\ UNCHANGED <<store, process, wire, server, faults>>
      /\ UNCHANGED <<log, cursor, made, phase, batch, reply, wire, peer, rows,
                     journal, nextSeq, txs>>
  BY DEF vars, store, process, server
<1>2. \A d \in Device : Logged(d)' = Logged(d) BY <1>1, SameLogged
<1>3. InFlight' = InFlight /\ Staged' = Staged BY <1>1 DEF InFlight, Staged
<1>4. \A r \in InFlight : r.from \in Daemon
  BY DEF InFlight, TypeOK, ServerType, Request, Tx
<1>5. \A t \in txs : t.req.from \in Daemon
  BY DEF TypeOK, ServerType, Request, Tx
<1>6. StoreType' BY <1>1 DEF TypeOK, StoreType, store
<1>7. ProcessType' BY <1>1 DEF TypeOK, ProcessType
<1>8. ServerType' BY <1>1 DEF TypeOK, ServerType
<1>9. MarksAreLogged' BY <1>1, <1>2, HomeType DEF TypeOK, MarksAreLogged, store
<1>10. SentIsLogged'
  BY <1>1, <1>2, <1>3, <1>4, <1>5, HomeType DEF Ordered, SentIsLogged
<1>11. JournalOrder' BY <1>1, <1>3 DEF Ordered, JournalOrder
<1>12. CursorsBehind' BY <1>1, <1>3 DEF Ordered, CursorsBehind, IsBehind
<1>13. RequestCovers'
  BY <1>1, <1>2, <1>3, <1>4, HomeType DEF Ordered, RequestCovers
<1>14. PageCovers' BY <1>1, <1>2, HomeType DEF Ordered, PageCovers
<1>15. Numbered' BY <1>1, <1>2 DEF Ordered, Numbered
<1>16. CursorNoGap' BY <1>1, <1>2 DEF Ordered, CursorNoGap
<1> QED
  BY <1>6, <1>7, <1>8, <1>9, <1>10, <1>11, <1>12, <1>13, <1>14, <1>15, <1>16
  DEF TypeOK, Ordered

LEMMA Inductive == Spec => []IInv
<1>1. Init => IInv BY InitIInv
<1>2. IInv /\ [Next]_vars => IInv'
  <2> SUFFICES ASSUME TypeOK, Ordered, [Next]_vars PROVE TypeOK' /\ Ordered'
    BY DEF IInv
  <2>1. CASE Next
    <3>1. SentIsLogged BY DEF Ordered
    <3> QED BY <2>1, <3>1, NextType, NextOrdered
  <2>2. CASE UNCHANGED vars BY <2>2, StutterIInv
  <2> QED BY <2>1, <2>2
<1> QED BY <1>1, <1>2, PTL DEF Spec

(* Every reachable state has its type, and a device marks and sends only   *)
(* what is in its own journal.                                             *)
THEOREM TypeCorrect == Spec => []TypeOK
<1>1. IInv => TypeOK BY DEF IInv
<1> QED BY <1>1, Inductive, PTL

(* A mutation is journaled once, however often it is sent.                 *)
THEOREM JournaledOnce == Spec => []JournalOnce
<1>1. IInv => JournalOnce BY DEF IInv, Ordered, JournalOrder, JournalOnce
<1> QED BY <1>1, Inductive, PTL

(* No cursor passes an entry its device does not hold.                     *)
THEOREM NoGap == Spec => []CursorNoGap
<1>1. IInv => CursorNoGap BY DEF IInv, Ordered
<1> QED BY <1>1, Inductive, PTL

-----------------------------------------------------------------------------
(* Refinement.  Steps that leave the journal, the cursors and the local    *)
(* journals alone are stutters of the shared journal.                      *)

LEMMA Stutters ==
  ASSUME UNCHANGED <<journal, cursor, log>>
  PROVE  UNCHANGED SJ!vars
<1>1. \A d \in Device : Logged(d)' = Logged(d) BY SameLogged
<1>2. [d \in Device |-> Logged(d)]' = [d \in Device |-> Logged(d)] BY <1>1
<1> QED BY <1>2 DEF SJ!vars

LEMMA ChangeAuthors ==
  ASSUME TypeOK, Ordered, NEW d \in Device, NEW e \in Entity, NEW op \in Op,
         Change(d, e, op)
  PROVE  SJ!Next
<1>1. PICK m : m = [by |-> d, n |-> made[d] + 1, op |-> op, ent |-> e] OBVIOUS
<1>2. m \in Mutation BY <1>1 DEF TypeOK, StoreType, Mutation
<1>3. /\ Logged(d)' = Logged(d) \union {m}
      /\ \A o \in Device \ {d} : Logged(o)' = Logged(o)
  BY <1>1, <1>2, InsertedLog DEF Change, TypeOK, StoreType
<1>4. UNCHANGED <<journal, cursor>> BY DEF Change, server
<1>5. \A o \in Device : m \notin Logged(o)
  <2>1. m.by = d /\ m.n = made[d] + 1 /\ made[d] \in Nat
    BY <1>1 DEF TypeOK, StoreType
  <2> QED BY <2>1 DEF Ordered, Numbered
<1>6. \A x \in journal : x.mut # m BY <1>5 DEF Ordered, Numbered
<1> DEFINE known == [o \in Device |-> Logged(o)]
<1>7. known' = [known EXCEPT ![d] = @ \union {m}] BY <1>3
<1>8. SJ!Author(d, m)
  BY <1>2, <1>4, <1>5, <1>6, <1>7 DEF SJ!Author, SJ!Published
<1>9. m \in known'[d] \ known[d] BY <1>3, <1>5
<1> QED BY <1>8, <1>9 DEF SJ!Next

LEMMA ApplyRemoteLearns ==
  ASSUME TypeOK, Ordered, NEW p \in Daemon, ApplyRemote(p)
  PROVE  SJ!Next
<1> DEFINE d == Home[p]
<1> d \in Device BY HomeType
<1>1. PICK x \in reply[p].page : log' = [log EXCEPT ![d] = Insert(@, x.mut)]
  BY DEF ApplyRemote
<1>2. x.mut \in Mutation BY DEF TypeOK, ProcessType, Reply, Entry
<1>3. /\ Logged(d)' = Logged(d) \union {x.mut}
      /\ \A o \in Device \ {d} : Logged(o)' = Logged(o)
  BY <1>1, <1>2, InsertedLog DEF TypeOK, StoreType
<1>4. UNCHANGED <<journal, cursor>> BY DEF ApplyRemote, server
<1>5. x \in journal BY DEF Ordered, PageCovers
<1> DEFINE known == [o \in Device |-> Logged(o)]
<1>6. known' = [known EXCEPT ![d] = @ \union {x.mut}] BY <1>3
<1>7. SJ!Learn(d, x) BY <1>4, <1>6 DEF SJ!Learn
<1> QED BY <1>5, <1>7 DEF SJ!Next

LEMMA SetCursorMoves ==
  ASSUME TypeOK, Ordered, Ordered', NEW p \in Daemon, SetCursor(p)
  PROVE  SJ!Next
<1> DEFINE d == Home[p]
<1> d \in Device BY HomeType
<1>1. /\ phase[p] = "page" /\ cursor' = [cursor EXCEPT ![d] = reply[p].next]
      /\ UNCHANGED <<journal, log>>
  BY DEF SetCursor, server
<1>2. cursor'[d] = reply[p].next BY <1>1 DEF TypeOK, StoreType
<1>3. cursor'[d] \in Nat BY <1>2 DEF TypeOK, ProcessType, Reply
<1>4. \A o \in Device : Logged(o)' = Logged(o) BY <1>1, SameLogged
<1>5. \A x \in journal : x.seq <= cursor'[d] => x.mut \in Logged(d)
  BY <1>1, <1>4 DEF Ordered, CursorNoGap
<1> DEFINE known == [o \in Device |-> Logged(o)]
<1>6. known' = known BY <1>4
<1>7. SJ!Move(d, cursor'[d])
  BY <1>1, <1>2, <1>3, <1>5, <1>6 DEF SJ!Move
<1> QED BY <1>7 DEF SJ!Next

LEMMA CommitPublishes ==
  ASSUME TypeOK, Ordered, NEW t \in txs, Commit(t)
  PROVE  SJ!Next \/ UNCHANGED SJ!vars
<1>1. journal' = journal \union t.staged /\ UNCHANGED <<cursor, log>>
  BY DEF Commit, store
<1>2. txs = {t} /\ Staged = t.staged BY OneTx
<1>3. t \in Tx /\ Home[t.req.from] \in Device
  BY HomeType DEF TypeOK, ServerType, Tx, Request
<1>4. CASE t.staged = {} BY <1>1, <1>4, Stutters
<1>5. CASE t.staged # {}
  <2>1. \A x \in t.staged, y \in journal : y.seq < x.seq /\ y.seq \in Nat
    BY <1>2 DEF Ordered, JournalOrder, TypeOK, ServerType, Entry
  <2>2. journal' \ journal = t.staged BY <1>1, <2>1
  <2>3. \A x \in t.staged :
          /\ x \in Entry
          /\ \A y \in journal : y.mut # x.mut /\ y.seq < x.seq
          /\ x.mut \in Logged(Home[t.req.from])
          /\ \A d \in Device : cursor[d] < x.seq
          /\ \A y \in t.staged : (y.seq = x.seq \/ y.mut = x.mut) => y = x
    BY <1>2, <1>3, <2>1
    DEF Tx, Ordered, JournalOrder, SentIsLogged, Muts, CursorsBehind, IsBehind
  <2>4. \A d \in Device : Logged(d)' = Logged(d) BY <1>1, SameLogged
  <2> DEFINE known == [o \in Device |-> Logged(o)]
  <2>5. known' = known BY <2>4
  <2>6. SJ!Publish(t.staged)
    BY <1>1, <1>3, <1>5, <2>3, <2>5 DEF SJ!Publish, SJ!Published, SJ!Entry, Entry
  <2> QED BY <2>2, <2>6 DEF SJ!Next
<1> QED BY <1>4, <1>5

(* Mutation sync implements the shared journal: what a device records is   *)
(* authored once, published after everything anyone has read, and learned  *)
(* by the others without a gap.                                            *)
THEOREM Refinement == Spec => ImplementsSharedJournal
<1>1. Init => SJ!Init
  <2> SUFFICES ASSUME Init PROVE SJ!Init OBVIOUS
  <2>1. \A d \in Device : Logged(d) = {} BY DEF Init, Logged
  <2> QED BY <2>1 DEF Init, SJ!Init
<1>2. IInv /\ IInv' /\ [Next]_vars => [SJ!Next]_(SJ!vars)
  <2> SUFFICES ASSUME TypeOK, Ordered, Ordered', [Next]_vars
               PROVE  SJ!Next \/ UNCHANGED SJ!vars
    BY DEF IInv
  <2>1. ASSUME NEW d \in Device, NEW e \in Entity,
               Save(d, e) \/ Delete(d, e) \/ Restore(d, e)
        PROVE  SJ!Next
    BY <2>1, ChangeAuthors DEF Save, Delete, Restore, Op
  <2>2. ASSUME NEW p \in Daemon, BatchStep(p) \/ Interrupt(p)
        PROVE  SJ!Next \/ UNCHANGED SJ!vars
    <3>1. CASE Dispatch(p) BY <3>1, Stutters DEF Dispatch, server
    <3>2. CASE SetCursor(p) BY <3>2, SetCursorMoves
    <3>3. CASE SkipKnown(p) BY <3>3, Stutters DEF SkipKnown, store, server
    <3>4. CASE ApplyRemote(p) BY <3>4, ApplyRemoteLearns
    <3> QED BY <2>2, <3>1, <3>2, <3>3, <3>4, LocalFrame, Stutters
  <2>3. ASSUME NEW r \in wire, Begin(r) \/ Drop(r) PROVE UNCHANGED SJ!vars
    BY <2>3, Stutters DEF Begin, Drop, store, server
  <2>4. ASSUME NEW t \in txs, TxStep(t) PROVE SJ!Next \/ UNCHANGED SJ!vars
    <3>1. CASE \E m \in t.todo : Duplicate(t, m) \/ Refuse(t, m) \/ Apply(t, m)
      BY <3>1, Stutters DEF Duplicate, Refuse, Apply, store
    <3> QED BY <2>4, <3>1, CommitPublishes DEF TxStep
  <2>5. ASSUME NEW t \in txs, Abort(t) PROVE UNCHANGED SJ!vars
    BY <2>5, Stutters DEF Abort, store
  <2>6. CASE Upgrade BY <2>6, Stutters DEF Upgrade, store
  <2>7. CASE UNCHANGED vars BY <2>7, Stutters DEF vars, store, server
  <2> QED BY <2>1, <2>2, <2>3, <2>4, <2>5, <2>6, <2>7 DEF Next
<1>3. SJ!Init /\ [][SJ!Next]_(SJ!vars) => ImplementsSharedJournal
  BY DEF ImplementsSharedJournal, SJ!Spec
<1> QED BY <1>1, <1>2, <1>3, Inductive, PTL DEF Spec
=============================================================================
