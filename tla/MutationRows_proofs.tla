------------------------- MODULE MutationRows_proofs -------------------------
(***************************************************************************)
(* Proofs about what MutationSync's devices believe of the server's rows:  *)
(* that rows follow the journal, that what is marked synced or completed   *)
(* is there, and that the evidence a promotion asks for never denies it.   *)
(*                                                                         *)
(* The argument: a row of the server never goes back to "none", and an     *)
(* answer says only what its transaction saw, so what a device derives     *)
(* from it stays true.  The evidence is written before a request leaves    *)
(* and only taken back, under the request's own number, once the answer    *)
(* has shown that the server did not look at the rows.                     *)
(***************************************************************************)
EXTENDS MutationSync_proofs

IsThere(e) == rows[e] # "none"
MaybeThere(e) == IsThere(e) \/ \E t \in txs : t.view[e] # "none"

(* A set of journal entries and the rows that replaying it gives.          *)
Replays(J, view) ==
  \A x \in J :
    /\ view[x.mut.ent] # "none"
    /\ (\A y \in J : y.mut.ent = x.mut.ent => y.seq <= x.seq)
         => view[x.mut.ent] = Effect(x.mut)

(* What an answer may claim of its mutations: creates have their row, and  *)
(* the others are journaled.                                               *)
Shown(M, J, view) ==
  \A m \in M : IF m.op = "create" THEN view[m.ent] # "none" ELSE m \in Muts(J)

TxSound ==
  \A t \in txs :
    /\ Replays(journal \union t.staged, t.view)
    /\ \A e \in Entity : IsThere(e) => t.view[e] # "none"
    /\ ~t.v2 => \A e \in t.req.rows : t.view[e] # "none"
    /\ Shown(t.confirmed, journal \union t.staged, t.view)

(* A request that is awaited is the batch's own.                           *)
AwaitedIsOwn ==
  \A r \in InFlight : Awaited(r) => batch[r.from].rows = r.rows

AnswerSound ==
  \A p \in Daemon :
    /\ phase[p] = "ack" /\ ~reply[p].v2 => \A e \in batch[p].rows : IsThere(e)
    /\ \A e \in reply[p].rows : IsThere(e)
    /\ Shown(reply[p].confirmed, journal, rows)

RInv ==
  /\ IInv /\ Replays(journal, rows) /\ TxSound /\ AwaitedIsOwn /\ AnswerSound
  /\ SyncedRowsAreShared /\ CompletedMeansShared

(* Where memories come from: one device saved each, and whatever another   *)
(* one knows of it, it has from the server.                                *)
HasOrigin(e) == \E d \in Device : e \in LocalOrigin(d)

Origins ==
  /\ \A c, d \in Device : LocalOrigin(c) \intersect LocalOrigin(d) # {} => c = d
  /\ \A d \in Device : \A m \in Logged(d) : m \in Logged(m.by) /\ HasOrigin(m.ent)
  /\ \A d \in Device, e \in Entity : memories[d][e] # "none" => HasOrigin(e)
  /\ \A e \in Entity : MaybeThere(e) => HasOrigin(e)

FromServer ==
  \A d \in Device :
    /\ \A e \in Entity \ LocalOrigin(d) : memories[d][e] # "none" => IsThere(e)
    /\ \A m \in Logged(d) : m.ent \notin LocalOrigin(d) => IsThere(m.ent)

(* Numbers of requests, of the batches that sent them and of their marks.  *)
OwnNumbers ==
  /\ \A r, q \in InFlight : Home[r.from] = Home[q.from] /\ r.no = q.no => r = q
  /\ \A t \in txs : t.req \notin wire
  /\ \A p \in Daemon : phase[p] \notin {"idle", "read"} =>
       /\ \A r \in InFlight :
            Home[r.from] = Home[p] /\ r.no = batch[p].no
              => r.from = p /\ phase[p] = "wait"
       /\ \A q \in Dispatched(Home[p]) : batch[q].no = batch[p].no => q = p

(* What a request says is marked before it leaves.                         *)
RowMarked(d, n, e) == <<n, e>> \in rowMarks[d] \/ e \in present[d]

Marked ==
  /\ \A r \in InFlight :
       /\ r.muts \subseteq eventMarks[Home[r.from]]
       /\ \A e \in r.rows : /\ RowMarked(Home[r.from], r.no, e)
                            /\ memories[Home[r.from]][e] # "none"
  /\ \A t \in txs : t.todo \subseteq t.req.muts
  /\ \A p \in Daemon : \A e \in batch[p].rows : memories[Home[p]][e] # "none"

(* The server refuses no create.                                           *)
NoCreate(M) == \A m \in M : m.op # "create"

CreatesPass ==
  /\ \A t \in txs : NoCreate(t.refused)
  /\ \A p \in Daemon : NoCreate(reply[p].refused)
  /\ \A d \in Device : NoCreate(rejected[d])

(* A mark is spent when its request may have put the row on the server: it *)
(* is over, or was answered for its rows.                                  *)
Unspent(d, n) ==
  \/ \E r \in wire : Home[r.from] = d /\ r.no = n
  \/ \E t \in txs : Home[t.req.from] = d /\ t.req.no = n /\ t.v2
  \/ \E p \in Daemon :
       Home[p] = d /\ phase[p] = "ack" /\ reply[p].v2 /\ batch[p].no = n

Evidence(d, e) ==
  \/ e \in present[d]
  \/ \E k \in rowMarks[d] : k[2] = e /\ ~Unspent(d, k[1])
  \/ \E m \in eventMarks[d] : m.op = "create" /\ m.ent = e

Evident ==
  \A d \in Device : \A e \in LocalOrigin(d) : MaybeThere(e) => Evidence(d, e)

EInv ==
  RInv /\ Origins /\ FromServer /\ OwnNumbers /\ Marked /\ CreatesPass /\ Evident

-----------------------------------------------------------------------------
(* Frames.                                                                 *)

(* A device's step leaves the server's tables and transactions alone.      *)
LEMMA DeviceFrame ==
  /\ \A d \in Device, e \in Entity :
       Save(d, e) \/ Delete(d, e) \/ Restore(d, e)
         => UNCHANGED <<rows, journal, txs, wire, phase, batch, reply>>
  /\ \A p \in Daemon :
       BatchStep(p) \/ Interrupt(p) => UNCHANGED <<rows, journal, txs>>
<1>1. ASSUME NEW d \in Device, NEW e \in Entity,
             Save(d, e) \/ Delete(d, e) \/ Restore(d, e)
      PROVE  UNCHANGED <<rows, journal, txs, wire, phase, batch, reply>>
  BY <1>1 DEF Save, Delete, Restore, Change, server, process
<1>2. ASSUME NEW p \in Daemon, BatchStep(p) \/ Interrupt(p)
      PROVE  UNCHANGED <<rows, journal, txs>>
  BY <1>2 DEF BatchStep, Interrupt, ReadRows, Dispatch, ResolveRows,
     MarkUnsupported, MarkSynced, SavePulled, SkipKnown, ApplyRemote,
     AbortOnRemote, SetCursor, MarkRejected, MarkConfirmed, server
<1> QED BY <1>1, <1>2

(* A batch goes on: what is left of its answer and of its rows was there,  *)
(* and it does not begin to wait, or to read an answer.                    *)
BatchEased(o) ==
  /\ reply'[o].rows \subseteq reply[o].rows
  /\ reply'[o].confirmed \subseteq reply[o].confirmed
  /\ phase'[o] = "ack" => /\ phase[o] = "ack" /\ reply'[o].v2 = reply[o].v2
                          /\ batch'[o].rows \subseteq batch[o].rows
  /\ phase'[o] = "wait" => phase[o] = "wait" /\ batch'[o] = batch[o]

LEMMA FinishEased ==
  ASSUME TypeOK, NEW p \in Daemon, Finish(p)
  PROVE  \A o \in Daemon : BatchEased(o)
BY DEF TypeOK, ProcessType, Finish, NoReply, BatchEased

LEMMA StepEased ==
  ASSUME TypeOK, NEW p \in Daemon, BatchStep(p) \/ Interrupt(p), ~Dispatch(p)
  PROVE  \A o \in Daemon : BatchEased(o)
<1> USE DEF BatchEased, TypeOK, ProcessType
<1>1. CASE ReadRows(p) BY <1>1 DEF ReadRows
<1>2. CASE ResolveRows(p) BY <1>2 DEF ResolveRows, Batch
<1>3. CASE MarkUnsupported(p) BY <1>3 DEF MarkUnsupported, process
<1>4. ASSUME NEW e \in Entity, MarkSynced(p, e)
      PROVE  \A o \in Daemon : BatchEased(o)
  BY <1>4 DEF MarkSynced, Batch
<1>5. CASE SavePulled(p)
  <2>1. CASE reply[p].v2 BY <1>5, <2>1 DEF SavePulled
  <2>2. CASE ~reply[p].v2 BY <1>5, <2>2, FinishEased DEF SavePulled
  <2> QED BY <2>1, <2>2
<1>6. CASE SkipKnown(p) BY <1>6 DEF SkipKnown, Reply
<1>7. CASE ApplyRemote(p) BY <1>7 DEF ApplyRemote, Reply
<1>8. CASE AbortOnRemote(p) BY <1>8, FinishEased DEF AbortOnRemote
<1>9. CASE SetCursor(p) BY <1>9 DEF SetCursor
<1>10. CASE MarkRejected(p) BY <1>10 DEF MarkRejected
<1>11. CASE MarkConfirmed(p) BY <1>11, FinishEased DEF MarkConfirmed
<1>12. CASE Interrupt(p) BY <1>12, FinishEased DEF Interrupt
<1> QED
  BY <1>1, <1>2, <1>3, <1>4, <1>5, <1>6, <1>7, <1>8, <1>9, <1>10, <1>11, <1>12
  DEF BatchStep

LEMMA InFlightType ==
  ASSUME TypeOK
  PROVE  /\ InFlight \subseteq Request
         /\ \A r \in InFlight : r.from \in Daemon /\ Home[r.from] \in Device
         /\ \A t \in txs : /\ t \in Tx /\ t.req \in InFlight /\ t.req.from \in Daemon
                           /\ Home[t.req.from] \in Device
BY HomeType DEF TypeOK, ServerType, InFlight, Tx, Request

(* What was shown stays shown as the tables grow.                          *)
LEMMA ShownGrows ==
  ASSUME NEW M \in SUBSET Mutation, NEW N \in SUBSET M, NEW J, NEW K, J \subseteq K,
         NEW v, NEW w, \A e \in Entity : v[e] # "none" => w[e] # "none",
         Shown(M, J, v)
  PROVE  Shown(N, K, w)
BY DEF Shown, Muts, Mutation

-----------------------------------------------------------------------------
(* The rows follow the journal.                                            *)

LEMMA BeginReplays ==
  ASSUME TypeOK, Ordered, Replays(journal, rows), NEW r \in wire, Begin(r)
  PROVE  Replays(journal, rows)' /\ TxSound'
<1>t. PICK t :
        t = [req |-> r, v2 |-> Authoritative(r),
             todo |-> IF Authoritative(r) THEN r.muts ELSE {},
             view |-> IF Authoritative(r) THEN rows ELSE Upserted(rows, r.rows),
             staged |-> {}, confirmed |-> {}, refused |-> {}]
  OBVIOUS
<1>1. txs' = {t} /\ UNCHANGED <<rows, journal>>
  BY <1>t DEF Begin, KeyLockFree
<1>2. /\ t.req = r /\ t.v2 = Authoritative(r) /\ t.staged = {} /\ t.confirmed = {}
      /\ t.view = IF Authoritative(r) THEN rows ELSE Upserted(rows, r.rows)
  BY <1>t
<1>3. \A e \in Entity :
        /\ rows[e] # "none" => t.view[e] = rows[e]
        /\ ~t.v2 /\ e \in r.rows => t.view[e] # "none"
  BY <1>2 DEF Upserted
<1>4. Replays(journal, t.view)
  <2>1. \A x \in journal : x.mut.ent \in Entity
    BY DEF TypeOK, ServerType, Entry, Mutation
  <2> QED BY <1>3, <2>1 DEF Replays
<1>5. r.rows \subseteq Entity BY DEF TypeOK, ServerType, Request
<1> QED BY <1>1, <1>2, <1>3, <1>4, <1>5 DEF TxSound, IsThere, Shown, Replays

(* An answer of the transaction to one mutation, without a row.            *)
LEMMA AnswerTxSound ==
  ASSUME TxSound, NEW t \in txs, NEW u, txs' = (txs \ {t}) \union {u},
         u.req = t.req, u.v2 = t.v2, u.view = t.view, u.staged = t.staged,
         Shown(u.confirmed, journal \union t.staged, t.view),
         UNCHANGED <<rows, journal>>
  PROVE  TxSound'
BY DEF TxSound, IsThere, Replays, Shown, Muts

LEMMA ApplyTxSound ==
  ASSUME TypeOK, Ordered, TxSound, NEW t \in txs, NEW m \in t.todo, Apply(t, m)
  PROVE  TxSound'
<1>e. PICK entry : entry = [seq |-> nextSeq, mut |-> m] OBVIOUS
<1>u. PICK u :
        u = [t EXCEPT !.todo = @ \ {m}, !.confirmed = @ \union {m},
                      !.view = [@ EXCEPT ![m.ent] = Effect(m)],
                      !.staged = @ \union {entry}]
  OBVIOUS
<1>1. t \in Tx /\ m \in Mutation /\ m.ent \in Entity
  BY DEF TypeOK, ServerType, Tx, Mutation
<1>2. txs' = {u} /\ UNCHANGED <<rows, journal>> BY OneTx, <1>e, <1>u DEF Apply
<1>3. /\ u.req = t.req /\ u.v2 = t.v2 /\ u.staged = t.staged \union {entry}
      /\ u.confirmed = t.confirmed \union {m}
      /\ u.view = [t.view EXCEPT ![m.ent] = Effect(m)]
  BY <1>1, <1>u DEF Tx
<1>4. entry.seq = nextSeq /\ entry.mut = m BY <1>e
<1> DEFINE J == journal \union t.staged
<1>5. \A x \in J : x.mut.ent \in Entity /\ x.seq \in Nat /\ x.seq < nextSeq
  BY <1>1, OneTx DEF TypeOK, ServerType, Tx, Entry, Mutation, Ordered, JournalOrder
<1>6. /\ \A e \in Entity \ {m.ent} : u.view[e] = t.view[e]
      /\ u.view[m.ent] = Effect(m) /\ Effect(m) # "none"
  BY <1>1, <1>3 DEF Tx, Effect
<1>7. /\ Replays(J, t.view) /\ Shown(t.confirmed, J, t.view)
      /\ \A e \in Entity : rows[e] # "none" => t.view[e] # "none"
      /\ ~t.v2 => \A e \in t.req.rows : t.view[e] # "none"
  BY DEF TxSound, IsThere
<1>8. journal \union u.staged = J \union {entry} BY <1>3
<1> HIDE DEF J
<1>9. \A e \in Entity : t.view[e] # "none" => u.view[e] # "none" BY <1>6
<1>10. nextSeq \in Nat BY DEF TypeOK, ServerType
<1>11. Replays(J \union {entry}, u.view)
  <2> SUFFICES ASSUME NEW x \in J \union {entry}
               PROVE  /\ u.view[x.mut.ent] # "none"
                      /\ (\A y \in J \union {entry} :
                            y.mut.ent = x.mut.ent => y.seq <= x.seq)
                           => u.view[x.mut.ent] = Effect(x.mut)
    BY DEF Replays
  <2>1. CASE x = entry BY <1>4, <1>6, <2>1
  <2>2. CASE x \in J /\ x.mut.ent = m.ent
    <3>1. ~(entry.seq <= x.seq) BY <1>4, <1>5, <1>10, <2>2
    <3> QED BY <1>4, <1>6, <2>2, <3>1
  <2>3. CASE x \in J /\ x.mut.ent # m.ent
    <3>1. u.view[x.mut.ent] = t.view[x.mut.ent] BY <1>5, <1>6, <2>3
    <3> QED BY <1>7, <2>3, <3>1 DEF Replays
  <2> QED BY <2>1, <2>2, <2>3
<1>12. Shown(u.confirmed, J \union {entry}, u.view)
  <2>1. t.confirmed \subseteq Mutation BY <1>1 DEF Tx
  <2>2. Shown(t.confirmed, J \union {entry}, u.view) BY <1>7, <1>9, <2>1, ShownGrows
  <2>3. m \in Muts(J \union {entry}) BY <1>4 DEF Muts
  <2> QED BY <1>3, <1>6, <2>2, <2>3 DEF Shown
<1>13. t.req.rows \subseteq Entity BY <1>1 DEF Tx, Request
<1> QED BY <1>2, <1>3, <1>7, <1>8, <1>9, <1>11, <1>12, <1>13 DEF TxSound, IsThere

LEMMA ServerSound ==
  ASSUME TypeOK, Ordered, Replays(journal, rows), TxSound, [Next]_vars
  PROVE  /\ Replays(journal, rows)' /\ TxSound'
         /\ \A e \in Entity : rows[e] # "none" => rows'[e] # "none"
         /\ journal \subseteq journal'
<1> DEFINE G == /\ Replays(journal, rows)' /\ TxSound'
                /\ \A e \in Entity : rows[e] # "none" => rows'[e] # "none"
                /\ journal \subseteq journal'
<1>1. CASE UNCHANGED <<rows, journal>> /\ txs' \subseteq txs
  BY <1>1 DEF TxSound, Replays, IsThere, Shown, Muts
<1>2. ASSUME NEW r \in wire, Begin(r) PROVE G
  BY <1>2, BeginReplays DEF Begin
<1>3. ASSUME NEW t \in txs, NEW m \in t.todo, Duplicate(t, m) PROVE G
  <2> DEFINE u == [t EXCEPT !.todo = @ \ {m}, !.confirmed = @ \union {m}]
  <2>1. /\ u.req = t.req /\ u.v2 = t.v2 /\ u.view = t.view /\ u.staged = t.staged
        /\ u.confirmed = t.confirmed \union {m}
    BY DEF TypeOK, ServerType, Tx
  <2>2. txs' = (txs \ {t}) \union {u} /\ UNCHANGED <<rows, journal>>
    BY <1>3 DEF Duplicate
  <2> HIDE DEF u
  <2>3. IF m.op = "create" THEN t.view[m.ent] # "none"
                           ELSE m \in Muts(journal \union t.staged)
    BY <1>3 DEF Duplicate, IsDuplicate, IsExistingCreate, TxSound, Replays, Muts
  <2>4. Shown(u.confirmed, journal \union t.staged, t.view)
    BY <2>1, <2>3 DEF TxSound, Shown
  <2>5. TxSound' BY <2>1, <2>2, <2>4, AnswerTxSound
  <2> QED BY <2>2, <2>5 DEF Replays
<1>4. ASSUME NEW t \in txs, NEW m \in t.todo, Refuse(t, m) PROVE G
  <2> DEFINE u == [t EXCEPT !.todo = @ \ {m}, !.refused = @ \union {m}]
  <2>1. /\ u.req = t.req /\ u.v2 = t.v2 /\ u.view = t.view /\ u.staged = t.staged
        /\ u.confirmed = t.confirmed
    BY DEF TypeOK, ServerType, Tx
  <2>2. txs' = (txs \ {t}) \union {u} /\ UNCHANGED <<rows, journal>>
    BY <1>4 DEF Refuse
  <2> HIDE DEF u
  <2>3. Shown(u.confirmed, journal \union t.staged, t.view) BY <2>1 DEF TxSound
  <2>4. TxSound' BY <2>1, <2>2, <2>3, AnswerTxSound
  <2> QED BY <2>2, <2>4 DEF Replays
<1>5. ASSUME NEW t \in txs, NEW m \in t.todo, Apply(t, m) PROVE G
  <2>1. UNCHANGED <<rows, journal>> BY <1>5 DEF Apply
  <2> QED BY <1>5, <2>1, ApplyTxSound DEF Replays
<1>6. ASSUME NEW t \in txs, Commit(t) PROVE G
  <2>1. /\ txs' = {} /\ rows' = t.view /\ journal' = journal \union t.staged
    BY <1>6, OneTx DEF Commit
  <2> QED BY <2>1 DEF TxSound, IsThere, Replays
<1>7. ASSUME NEW d \in Device, NEW e \in Entity,
             Save(d, e) \/ Delete(d, e) \/ Restore(d, e)
      PROVE  G
  BY <1>1, <1>7, DeviceFrame
<1>8. ASSUME NEW p \in Daemon, BatchStep(p) \/ Interrupt(p) PROVE G
  BY <1>1, <1>8, DeviceFrame
<1>9. ASSUME NEW r \in wire, Drop(r) PROVE G BY <1>1, <1>9 DEF Drop, server
<1>10. ASSUME NEW t \in txs, Abort(t) PROVE G BY <1>1, <1>10 DEF Abort
<1>11. CASE Upgrade BY <1>1, <1>11 DEF Upgrade
<1>12. CASE UNCHANGED vars BY <1>1, <1>12 DEF vars, server
<1> QED
  BY <1>2, <1>3, <1>4, <1>5, <1>6, <1>7, <1>8, <1>9, <1>10, <1>11, <1>12
  DEF Next, TxStep

-----------------------------------------------------------------------------
(* What an answer claims.                                                  *)

LEMMA EasedKeeps ==
  ASSUME TypeOK, AwaitedIsOwn, AnswerSound,
         \A o \in Daemon : BatchEased(o), InFlight' \subseteq InFlight,
         \A e \in Entity : rows[e] # "none" => rows'[e] # "none",
         journal \subseteq journal'
  PROVE  AwaitedIsOwn' /\ AnswerSound'
<1>1. AwaitedIsOwn'
  BY InFlightType DEF AwaitedIsOwn, Awaited, BatchEased
<1>2. ASSUME NEW p \in Daemon
      PROVE  /\ phase'[p] = "ack" /\ ~reply'[p].v2
                  => \A e \in batch'[p].rows : rows'[e] # "none"
             /\ \A e \in reply'[p].rows : rows'[e] # "none"
             /\ Shown(reply'[p].confirmed, journal', rows')
  <2>1. /\ reply[p].rows \subseteq Entity /\ batch[p].rows \subseteq Entity
        /\ reply[p].confirmed \subseteq Mutation
    BY DEF TypeOK, ProcessType, Reply, Batch
  <2>2. BatchEased(p) OBVIOUS
  <2>3. /\ phase[p] = "ack" /\ ~reply[p].v2
             => \A e \in batch[p].rows : rows[e] # "none"
        /\ \A e \in reply[p].rows : rows[e] # "none"
        /\ Shown(reply[p].confirmed, journal, rows)
    BY DEF AnswerSound, IsThere
  <2>4. Shown(reply'[p].confirmed, journal', rows')
    BY <2>1, <2>2, <2>3, ShownGrows DEF BatchEased
  <2> QED BY <2>1, <2>2, <2>3, <2>4 DEF BatchEased
<1>3. AnswerSound' BY <1>2 DEF AnswerSound, IsThere, Shown, Muts
<1> QED BY <1>1, <1>3

LEMMA SameEased ==
  ASSUME UNCHANGED <<phase, batch, reply>>
  PROVE  \A o \in Daemon : BatchEased(o)
BY DEF BatchEased

(* A new request is the batch's own: nothing else has its number.          *)
LEMMA DispatchKeeps ==
  ASSUME TypeOK, AwaitedIsOwn, AnswerSound, NEW p \in Daemon, Dispatch(p)
  PROVE  AwaitedIsOwn' /\ AnswerSound'
<1> DEFINE d == Home[p]
<1>1. PICK P \in SUBSET pending[d], no \in FreshNo(d) :
        /\ batch' = [batch EXCEPT ![p] = [no |-> no, rows |-> @.rows, muts |-> P]]
        /\ wire' = wire \union {[from |-> p, no |-> no, rows |-> batch[p].rows,
                                 muts |-> P, cursor |-> cursor[d]]}
  BY DEF Dispatch
<1>2. PICK q : q = [from |-> p, no |-> no, rows |-> batch[p].rows,
                    muts |-> P, cursor |-> cursor[d]]
  OBVIOUS
<1>3. q.from = p /\ q.no = no /\ q.rows = batch[p].rows BY <1>2
<1>4. /\ phase' = [phase EXCEPT ![p] = "wait"]
      /\ UNCHANGED <<reply, rows, journal, txs>>
  BY DEF Dispatch, server
<1>5. InFlight' = InFlight \union {q} BY <1>1, <1>2, <1>4 DEF InFlight
<1>6. /\ batch'[p].no = no /\ batch'[p].rows = batch[p].rows
      /\ \A o \in Daemon \ {p} : batch'[o] = batch[o] /\ phase'[o] = phase[o]
      /\ phase'[p] = "wait"
  BY <1>1, <1>4 DEF TypeOK, ProcessType
<1>7. \A r \in InFlight : r.from = p => r.no # no
  BY DEF FreshNo, Requests, InFlight
<1>8. AwaitedIsOwn'
  BY <1>3, <1>5, <1>6, <1>7, InFlightType DEF AwaitedIsOwn, Awaited
<1>9. AnswerSound'
  BY <1>4, <1>6 DEF AnswerSound, IsThere, Shown, Muts
<1> QED BY <1>8, <1>9

(* The answer says what the transaction saw of the rows it commits, and it *)
(* answers the batch that waits for it.                                    *)
LEMMA CommitKeeps ==
  ASSUME TypeOK, Ordered, TxSound, AwaitedIsOwn, AnswerSound,
         NEW t \in txs, Commit(t)
  PROVE  AwaitedIsOwn' /\ AnswerSound'
<1> DEFINE p == t.req.from
           seen == {e \in Entity : t.view[e] = "active"}
<1>1. PICK page, next :
        Respond(t.req, [v2 |-> t.v2, rows |-> seen \ t.req.rows, page |-> page,
                        next |-> next, confirmed |-> t.confirmed,
                        refused |-> t.refused])
  BY DEF Commit
<1>2. PICK a : a = [v2 |-> t.v2, rows |-> seen \ t.req.rows, page |-> page,
                    next |-> next, confirmed |-> t.confirmed,
                    refused |-> t.refused]
  OBVIOUS
<1>3. /\ a.v2 = t.v2 /\ a.confirmed = t.confirmed
      /\ \A e \in a.rows : e \in Entity /\ t.view[e] # "none"
  BY <1>2
<1>4. Respond(t.req, a) BY <1>1, <1>2
<1>5. t \in Tx /\ t.req \in InFlight /\ p \in Daemon BY InFlightType
<1>6. /\ txs' = {} /\ rows' = t.view /\ journal' = journal \union t.staged
      /\ UNCHANGED <<batch, wire>>
  BY OneTx DEF Commit
<1>7. InFlight' \subseteq InFlight BY <1>6 DEF InFlight
<1>8. /\ \A e \in Entity : rows[e] # "none" => rows'[e] # "none"
      /\ ~t.v2 => \A e \in t.req.rows : rows'[e] # "none"
      /\ Shown(t.confirmed, journal', rows') /\ journal \subseteq journal'
  BY <1>6 DEF TxSound, IsThere
<1>9. CASE ~Awaited(t.req)
  <2>1. UNCHANGED <<phase, batch, reply>> BY <1>4, <1>6, <1>9 DEF Respond
  <2> QED BY <1>7, <1>8, <2>1, SameEased, EasedKeeps
<1>10. CASE Awaited(t.req)
  <2>1. /\ reply'[p] = a /\ phase'[p] = "ack"
        /\ \A o \in Daemon \ {p} : reply'[o] = reply[o] /\ phase'[o] = phase[o]
    BY <1>4, <1>5, <1>10 DEF Respond, TypeOK, ProcessType
  <2>2. AwaitedIsOwn'
    BY <1>6, <1>7, <2>1, InFlightType DEF AwaitedIsOwn, Awaited
  <2>3. batch[p].rows = t.req.rows BY <1>5, <1>10 DEF AwaitedIsOwn
  <2>4. ASSUME NEW o \in Daemon
        PROVE  /\ phase'[o] = "ack" /\ ~reply'[o].v2
                    => \A e \in batch'[o].rows : rows'[e] # "none"
               /\ \A e \in reply'[o].rows : rows'[e] # "none"
               /\ Shown(reply'[o].confirmed, journal', rows')
    <3>1. CASE o = p BY <1>3, <1>6, <1>8, <2>1, <2>3, <3>1
    <3>2. CASE o # p
      <4>1. /\ reply[o].rows \subseteq Entity /\ batch[o].rows \subseteq Entity
            /\ reply[o].confirmed \subseteq Mutation
        BY DEF TypeOK, ProcessType, Reply, Batch
      <4>2. Shown(reply[o].confirmed, journal', rows')
        BY <1>8, <4>1, ShownGrows DEF AnswerSound
      <4> QED BY <1>6, <1>8, <2>1, <3>2, <4>1, <4>2 DEF AnswerSound, IsThere
    <3> QED BY <3>1, <3>2
  <2>5. AnswerSound' BY <2>4 DEF AnswerSound, IsThere, Shown, Muts
  <2> QED BY <2>2, <2>5
<1> QED BY <1>9, <1>10

LEMMA TxSwapInFlight ==
  ASSUME NEW t \in txs, NEW u, u.req = t.req, txs' = (txs \ {t}) \union {u},
         UNCHANGED wire
  PROVE  InFlight' = InFlight
BY DEF InFlight

(* A transaction that answers a mutation is still of the same request.     *)
LEMMA AnswerFrame ==
  ASSUME TypeOK, NEW t \in txs, NEW m \in t.todo,
         Duplicate(t, m) \/ Refuse(t, m) \/ Apply(t, m)
  PROVE  /\ InFlight' = InFlight /\ UNCHANGED <<store, process, wire, rows, journal>>
         /\ \E u \in Tx :
              /\ txs' = (txs \ {t}) \union {u}
              /\ u.req = t.req /\ u.v2 = t.v2 /\ u.todo \subseteq t.todo
<1>1. t \in Tx BY InFlightType
<1> SUFFICES /\ UNCHANGED <<store, process, wire, rows, journal>>
             /\ \E u \in Tx :
                  /\ txs' = (txs \ {t}) \union {u}
                  /\ u.req = t.req /\ u.v2 = t.v2 /\ u.todo \subseteq t.todo
  BY TxSwapInFlight
<1>2. CASE Duplicate(t, m)
  <2> DEFINE u == [t EXCEPT !.todo = @ \ {m}, !.confirmed = @ \union {m}]
  <2>1. u \in Tx /\ u.req = t.req /\ u.v2 = t.v2 /\ u.todo \subseteq t.todo
    BY <1>1 DEF Tx
  <2> QED BY <1>2, <2>1 DEF Duplicate
<1>3. CASE Refuse(t, m)
  <2> DEFINE u == [t EXCEPT !.todo = @ \ {m}, !.refused = @ \union {m}]
  <2>1. u \in Tx /\ u.req = t.req /\ u.v2 = t.v2 /\ u.todo \subseteq t.todo
    BY <1>1 DEF Tx
  <2> QED BY <1>3, <2>1 DEF Refuse
<1>4. CASE Apply(t, m)
  <2> DEFINE view == [t.view EXCEPT ![m.ent] = Effect(m)]
             entry == [seq |-> nextSeq, mut |-> m]
             u == [t EXCEPT !.todo = @ \ {m}, !.confirmed = @ \union {m},
                            !.view = view, !.staged = @ \union {entry}]
  <2>1. m \in Mutation BY <1>1 DEF Tx
  <2>2. view \in [Entity -> Status] BY <1>1, <2>1 DEF Tx, Effect, Status
  <2>3. entry \in Entry BY <2>1 DEF Entry, TypeOK, ServerType
  <2>4. txs' = (txs \ {t}) \union {u} BY <1>4 DEF Apply
  <2> HIDE DEF view, entry
  <2>5. u \in Tx BY <1>1, <2>1, <2>2, <2>3 DEF Tx
  <2>6. u.req = t.req /\ u.v2 = t.v2 /\ u.todo \subseteq t.todo BY <1>1 DEF Tx
  <2> QED BY <1>4, <2>4, <2>5, <2>6 DEF Apply
<1> QED BY <1>2, <1>3, <1>4

LEMMA AnswersKept ==
  ASSUME TypeOK, Ordered, Replays(journal, rows), TxSound, AwaitedIsOwn,
         AnswerSound, [Next]_vars
  PROVE  AwaitedIsOwn' /\ AnswerSound'
<1>1. /\ \A e \in Entity : rows[e] # "none" => rows'[e] # "none"
      /\ journal \subseteq journal'
  BY ServerSound
<1>2. ASSUME UNCHANGED <<phase, batch, reply>>, InFlight' \subseteq InFlight
      PROVE  AwaitedIsOwn' /\ AnswerSound'
  BY <1>1, <1>2, SameEased, EasedKeeps
<1>3. ASSUME NEW d \in Device, NEW e \in Entity,
             Save(d, e) \/ Delete(d, e) \/ Restore(d, e)
      PROVE  AwaitedIsOwn' /\ AnswerSound'
  BY <1>2, <1>3, DeviceFrame DEF InFlight
<1>4. ASSUME NEW p \in Daemon, BatchStep(p) \/ Interrupt(p)
      PROVE  AwaitedIsOwn' /\ AnswerSound'
  <2>1. CASE Dispatch(p) BY <2>1, DispatchKeeps
  <2>2. CASE ~Dispatch(p)
    <3>1. UNCHANGED <<wire, txs>>
      BY <1>4, <2>2 DEF BatchStep, Interrupt, ReadRows, ResolveRows,
         MarkUnsupported, MarkSynced, SavePulled, SkipKnown, ApplyRemote,
         AbortOnRemote, SetCursor, MarkRejected, MarkConfirmed, server
    <3> QED BY <1>1, <1>4, <2>2, <3>1, StepEased, EasedKeeps DEF InFlight
  <2> QED BY <2>1, <2>2
<1>5. ASSUME NEW r \in wire, Begin(r) PROVE AwaitedIsOwn' /\ AnswerSound'
  <2> DEFINE u == [req |-> r, v2 |-> Authoritative(r),
                   todo |-> IF Authoritative(r) THEN r.muts ELSE {},
                   view |-> IF Authoritative(r) THEN rows ELSE Upserted(rows, r.rows),
                   staged |-> {}, confirmed |-> {}, refused |-> {}]
  <2>1. txs' = txs \union {u} /\ wire' = wire \ {r} /\ UNCHANGED process
    BY <1>5 DEF Begin
  <2>2. u.req = r OBVIOUS
  <2> HIDE DEF u
  <2> QED BY <1>2, <2>1, <2>2 DEF InFlight, process
<1>6. ASSUME NEW t \in txs, NEW m \in t.todo,
             Duplicate(t, m) \/ Refuse(t, m) \/ Apply(t, m)
      PROVE  AwaitedIsOwn' /\ AnswerSound'
  BY <1>2, <1>6, AnswerFrame DEF process
<1>7. ASSUME NEW t \in txs, Abort(t) PROVE AwaitedIsOwn' /\ AnswerSound'
  <2>1. InFlight' \subseteq InFlight BY <1>7 DEF Abort, InFlight
  <2>2. CASE Finish(t.req.from)
    BY <1>1, <2>1, <2>2, InFlightType, FinishEased, EasedKeeps
  <2>3. CASE UNCHANGED process BY <1>2, <2>1, <2>3 DEF process
  <2> QED BY <1>7, <2>2, <2>3 DEF Abort
<1>8. ASSUME NEW r \in wire, Drop(r) PROVE AwaitedIsOwn' /\ AnswerSound'
  BY <1>2, <1>8 DEF Drop, process, server, InFlight
<1>9. CASE Upgrade BY <1>2, <1>9 DEF Upgrade, process, InFlight
<1>10. CASE UNCHANGED vars
  BY <1>2, <1>10 DEF vars, process, server, InFlight
<1> QED
  BY <1>3, <1>4, <1>5, <1>6, <1>7, <1>8, <1>9, <1>10, CommitKeeps
  DEF Next, TxStep

-----------------------------------------------------------------------------
(* What a device believes.                                                 *)

(* A server's step leaves the devices' files alone.                        *)
LEMMA ServerFrame ==
  ASSUME \/ \E r \in wire : Begin(r) \/ Drop(r)
         \/ \E t \in txs : TxStep(t) \/ Abort(t)
         \/ Upgrade \/ UNCHANGED vars
  PROVE  UNCHANGED store
BY DEF Begin, Drop, TxStep, Duplicate, Refuse, Apply, Commit, Abort, Upgrade, vars

LEMMA SyncedKept ==
  ASSUME TypeOK, Ordered, Replays(journal, rows), TxSound, AnswerSound,
         SyncedRowsAreShared, [Next]_vars
  PROVE  SyncedRowsAreShared'
<1>1. \A e \in Entity : rows[e] # "none" => rows'[e] # "none" BY ServerSound
<1>2. ASSUME \A d \in Device, e \in Entity :
               memories'[d][e] # "none" /\ e \notin unsynced'[d]
                 => \/ memories[d][e] # "none" /\ e \notin unsynced[d]
                    \/ rows[e] # "none"
      PROVE  SyncedRowsAreShared'
  BY <1>1, <1>2 DEF SyncedRowsAreShared
<1>3. CASE UNCHANGED <<memories, unsynced>> BY <1>2, <1>3
<1>4. ASSUME NEW d \in Device, NEW e \in Entity,
             Save(d, e) \/ Delete(d, e) \/ Restore(d, e)
      PROVE  SyncedRowsAreShared'
  <2>1. PICK s : /\ memories' = [memories EXCEPT ![d][e] = s]
                 /\ unsynced' = [unsynced EXCEPT ![d] = @ \union {e}]
    BY <1>4 DEF Save, Delete, Restore, Change
  <2> QED BY <1>2, <2>1 DEF TypeOK, StoreType
<1>5. ASSUME NEW p \in Daemon, BatchStep(p) \/ Interrupt(p)
      PROVE  SyncedRowsAreShared'
  <2> DEFINE d == Home[p]
  <2> d \in Device BY HomeType
  <2>1. ASSUME NEW e \in Entity, MarkSynced(p, e) PROVE SyncedRowsAreShared'
    <3>1. rows[e] # "none"
      BY <2>1 DEF MarkSynced, RowsAnswered, AnswerSound, IsThere
    <3>2. /\ unsynced' = [unsynced EXCEPT ![d] = @ \ {e}]
          /\ UNCHANGED memories
      BY <2>1 DEF MarkSynced
    <3> QED BY <1>2, <3>1, <3>2 DEF TypeOK, StoreType
  <2>2. CASE SavePulled(p)
    <3>1. PICK S \in SUBSET reply[p].rows :
            memories' = [memories EXCEPT ![d] =
              [e \in Entity |-> IF e \in S /\ @[e] = "none" THEN "active" ELSE @[e]]]
      BY <2>2 DEF SavePulled
    <3>2. UNCHANGED unsynced BY <2>2 DEF SavePulled
    <3>3. \A e \in S : rows[e] # "none" BY DEF AnswerSound, IsThere
    <3> QED BY <1>2, <3>1, <3>2, <3>3 DEF TypeOK, StoreType
  <2>3. CASE ApplyRemote(p)
    <3>1. PICK x \in reply[p].page :
            /\ memories' = [memories EXCEPT ![d][x.mut.ent] = RemoteStatus(@, x.mut)]
            /\ unsynced' = [unsynced EXCEPT ![d] = @ \ {x.mut.ent}]
      BY <2>3 DEF ApplyRemote
    <3>2. rows[x.mut.ent] # "none" BY DEF Ordered, PageCovers, Replays
    <3> QED BY <1>2, <3>1, <3>2 DEF TypeOK, StoreType
  <2>4. CASE MarkConfirmed(p)
    <3>1. /\ unsynced' = [unsynced EXCEPT ![d] = @ \ ConfirmedRows(p)]
          /\ UNCHANGED memories
      BY <2>4 DEF MarkConfirmed
    <3>2. \A e \in ConfirmedRows(p) : rows[e] # "none"
      BY DEF ConfirmedRows, Confirmed, AnswerSound, Shown
    <3> QED BY <1>2, <3>1, <3>2 DEF TypeOK, StoreType
  <2>5. CASE ReadRows(p) BY <1>3, <2>5 DEF ReadRows, store
  <2>6. CASE Dispatch(p) BY <1>3, <2>6 DEF Dispatch
  <2>7. CASE ResolveRows(p) BY <1>3, <2>7 DEF ResolveRows
  <2>8. CASE MarkUnsupported(p) BY <1>3, <2>8 DEF MarkUnsupported
  <2>9. CASE SkipKnown(p) BY <1>3, <2>9 DEF SkipKnown, store
  <2>10. CASE AbortOnRemote(p) BY <1>3, <2>10 DEF AbortOnRemote, store
  <2>11. CASE SetCursor(p) BY <1>3, <2>11 DEF SetCursor
  <2>12. CASE MarkRejected(p) BY <1>3, <2>12 DEF MarkRejected
  <2>13. CASE Interrupt(p) BY <1>3, <2>13 DEF Interrupt, store
  <2> QED
    BY <1>5, <2>1, <2>2, <2>3, <2>4, <2>5, <2>6, <2>7, <2>8, <2>9, <2>10, <2>11,
       <2>12, <2>13 DEF BatchStep
<1> QED BY <1>3, <1>4, <1>5, ServerFrame DEF Next, store

(* A mutation of this device whose receipt is not yet completed.           *)
Open(d) == unsupported[d] \union rejected[d] \union pending[d]

LEMMA CompletedKept ==
  ASSUME TypeOK, Ordered, Replays(journal, rows), TxSound, AnswerSound,
         CompletedMeansShared, [Next]_vars
  PROVE  CompletedMeansShared'
<1>1. journal \subseteq journal' BY ServerSound
<1>2. \A d \in Device : \A m \in Guarded(d, Logged(d)) :
        m \in Open(d) \/ m \in Muts(journal)
  BY DEF CompletedMeansShared, SharedStatus, Open
<1>3. ASSUME \A d \in Device : \A m \in Guarded(d, Logged(d))' :
               /\ m \in Guarded(d, Logged(d)) \/ m \in Open(d)'
               /\ m \in Open(d) => m \in Open(d)' \/ m \in Muts(journal)
      PROVE  CompletedMeansShared'
  <2>1. \A d \in Device : \A m \in Guarded(d, Logged(d))' :
          m \in Open(d)' \/ m \in Muts(journal)
    BY <1>2, <1>3
  <2>2. Muts(journal) \subseteq Muts(journal)' BY <1>1 DEF Muts
  <2> QED BY <2>1, <2>2 DEF CompletedMeansShared, SharedStatus, Open, Guarded
<1>4. ASSUME UNCHANGED log, \A d \in Device : Open(d) \subseteq Open(d)'
      PROVE  CompletedMeansShared'
  BY <1>3, <1>4, SameLogged DEF Guarded
<1>5. ASSUME NEW d \in Device, NEW m \in Mutation,
             log' = [log EXCEPT ![d] = Insert(@, m)],
             pending' = [pending EXCEPT ![d] = @ \union {m}],
             UNCHANGED <<rejected, unsupported>>
      PROVE  CompletedMeansShared'
  <2>1. /\ Logged(d)' = Logged(d) \union {m}
        /\ \A o \in Device \ {d} : Logged(o)' = Logged(o)
    BY <1>5, InsertedLog DEF TypeOK, StoreType
  <2>2. \A o \in Device : Open(o) \subseteq Open(o)' /\ m \in Open(d)'
    BY <1>5 DEF Open, TypeOK, StoreType
  <2>3. ASSUME NEW o \in Device, NEW k \in Guarded(o, Logged(o))'
        PROVE  /\ k \in Guarded(o, Logged(o)) \/ k \in Open(o)'
               /\ k \in Open(o) => k \in Open(o)' \/ k \in Muts(journal)
    BY <2>1, <2>2, <2>3 DEF Guarded
  <2> QED BY <1>3, <2>3
<1>6. ASSUME NEW d \in Device, NEW e \in Entity,
             Save(d, e) \/ Delete(d, e) \/ Restore(d, e)
      PROVE  CompletedMeansShared'
  <2>1. PICK op \in Op : Change(d, e, op)
    BY <1>6 DEF Save, Delete, Restore, Op
  <2>2. PICK m : m = [by |-> d, n |-> made[d] + 1, op |-> op, ent |-> e] OBVIOUS
  <2>3. m \in Mutation BY <2>2 DEF TypeOK, StoreType, Mutation
  <2> QED BY <1>5, <2>1, <2>2, <2>3 DEF Change
<1>7. ASSUME NEW p \in Daemon, BatchStep(p) \/ Interrupt(p)
      PROVE  CompletedMeansShared'
  <2> DEFINE d == Home[p]
  <2> d \in Device BY HomeType
  <2>1. CASE UNCHANGED <<log, pending, rejected, unsupported>>
    BY <1>4, <2>1 DEF Open
  <2>2. CASE ApplyRemote(p)
    <3>1. PICK x \in reply[p].page :
            /\ log' = [log EXCEPT ![d] = Insert(@, x.mut)]
            /\ pending' = [pending EXCEPT ![d] = @ \union {x.mut}]
      BY <2>2 DEF ApplyRemote
    <3>2. x.mut \in Mutation BY DEF TypeOK, ProcessType, Reply, Entry
    <3> QED BY <1>5, <2>2, <3>1, <3>2 DEF ApplyRemote
  <2>3. CASE MarkUnsupported(p)
    BY <1>4, <2>3 DEF MarkUnsupported, Open, TypeOK, StoreType
  <2>4. CASE MarkRejected(p)
    <3>1. /\ pending' = [pending EXCEPT ![d] = @ \ reply[p].refused]
          /\ rejected' = [rejected EXCEPT ![d] = @ \union reply[p].refused]
          /\ UNCHANGED <<log, unsupported>>
      BY <2>4 DEF MarkRejected
    <3>2. \A o \in Device : Open(o) \subseteq Open(o)'
      BY <3>1 DEF Open, TypeOK, StoreType
    <3> QED BY <1>4, <3>1, <3>2
  <2>5. CASE MarkConfirmed(p)
    <3>1. /\ pending' = [pending EXCEPT ![d] = @ \ Confirmed(p)]
          /\ rejected' = [rejected EXCEPT ![d] = @ \ Confirmed(p)]
          /\ UNCHANGED <<log, unsupported>>
      BY <2>5 DEF MarkConfirmed
    <3>2. ASSUME NEW o \in Device, NEW m \in Guarded(o, Logged(o))'
          PROVE  /\ m \in Guarded(o, Logged(o))
                 /\ m \in Open(o) => m \in Open(o)' \/ m \in Muts(journal)
      <4>1. m \in Guarded(o, Logged(o)) /\ m.op # "create"
        BY <3>1, <3>2, SameLogged DEF Guarded
      <4>2. m \in Open(o) => m \in Open(o)' \/ (o = d /\ m \in Confirmed(p))
        BY <3>1 DEF Open, TypeOK, StoreType
      <4>3. m \in Confirmed(p) => m \in Muts(journal)
        BY <4>1 DEF Confirmed, AnswerSound, Shown
      <4> QED BY <4>1, <4>2, <4>3
    <3> QED BY <1>3, <3>2
  <2>6. CASE ReadRows(p) \/ SkipKnown(p) \/ AbortOnRemote(p) \/ Interrupt(p)
    BY <2>1, <2>6 DEF ReadRows, SkipKnown, AbortOnRemote, Interrupt, store
  <2>7. CASE Dispatch(p) \/ ResolveRows(p) \/ SavePulled(p) \/ SetCursor(p)
    BY <2>1, <2>7 DEF Dispatch, ResolveRows, SavePulled, SetCursor
  <2>8. ASSUME NEW e \in Entity, MarkSynced(p, e) PROVE CompletedMeansShared'
    BY <2>1, <2>8 DEF MarkSynced
  <2> QED
    BY <1>7, <2>2, <2>3, <2>4, <2>5, <2>6, <2>7, <2>8 DEF BatchStep
<1>8. CASE UNCHANGED store BY <1>4, <1>8 DEF store, Open
<1> QED BY <1>6, <1>7, <1>8, ServerFrame DEF Next

LEMMA InitRInv == Init => RInv
<1> SUFFICES ASSUME Init PROVE RInv OBVIOUS
<1>1. IInv BY InitIInv
<1>2. \A d \in Device : Logged(d) = {} BY DEF Init, Logged
<1>3. InFlight = {} BY DEF Init, InFlight
<1>4. Replays(journal, rows) /\ TxSound BY DEF Init, Replays, TxSound
<1>5. AwaitedIsOwn BY <1>3 DEF AwaitedIsOwn
<1>6. AnswerSound BY DEF Init, AnswerSound, NoReply, Shown
<1>7. SyncedRowsAreShared BY DEF Init, SyncedRowsAreShared
<1>8. CompletedMeansShared BY <1>2 DEF CompletedMeansShared, Guarded
<1> QED BY <1>1, <1>4, <1>5, <1>6, <1>7, <1>8 DEF RInv

LEMMA RInvInductive == Spec => []RInv
<1>1. Init => RInv BY InitRInv
<1>2. RInv /\ IInv' /\ [Next]_vars => RInv'
  <2> SUFFICES ASSUME RInv, IInv', [Next]_vars PROVE RInv' OBVIOUS
  <2>1. TypeOK /\ Ordered BY DEF RInv, IInv
  <2>2. Replays(journal, rows)' /\ TxSound' BY <2>1, ServerSound DEF RInv
  <2>3. AwaitedIsOwn' /\ AnswerSound' BY <2>1, AnswersKept DEF RInv
  <2>4. SyncedRowsAreShared' BY <2>1, SyncedKept DEF RInv
  <2>5. CompletedMeansShared' BY <2>1, CompletedKept DEF RInv
  <2> QED BY <2>2, <2>3, <2>4, <2>5 DEF RInv
<1> QED BY <1>1, <1>2, Inductive, PTL DEF Spec

(* Replaying the journal gives the server's rows, whatever a row-state     *)
(* request, a retry or a late duplicate does in between.                   *)
THEOREM RowsFollow == Spec => []RowsFollowJournal
<1>1. RInv => RowsFollowJournal
  BY DEF RInv, Replays, RowsFollowJournal, IsLast
<1> QED BY <1>1, RInvInductive, PTL

(* A row a device holds as synced is on the server, whichever of the two   *)
(* protocols acknowledged it and however stale the answer was.             *)
THEOREM SyncedIsShared == Spec => []SyncedRowsAreShared
<1>1. RInv => SyncedRowsAreShared BY DEF RInv
<1> QED BY <1>1, RInvInductive, PTL

(* A receipt that reads completed is of a change in the shared journal.    *)
THEOREM CompletedIsShared == Spec => []CompletedMeansShared
<1>1. RInv => CompletedMeansShared BY DEF RInv
<1> QED BY <1>1, RInvInductive, PTL

-----------------------------------------------------------------------------
(* Where memories come from.                                               *)

(* A local change journals one mutation of the device's own.               *)
LEMMA ChangeLogs ==
  ASSUME TypeOK, NEW d \in Device, NEW e \in Entity, NEW op \in Op, Change(d, e, op)
  PROVE  \E m \in Mutation :
           /\ m.by = d /\ m.op = op /\ m.ent = e
           /\ log' = [log EXCEPT ![d] = Insert(@, m)]
           /\ memories' = [memories EXCEPT ![d][e] = Effect(m)]
           /\ Logged(d)' = Logged(d) \union {m}
<1>1. PICK m : m = [by |-> d, n |-> made[d] + 1, op |-> op, ent |-> e] OBVIOUS
<1>2. m \in Mutation /\ m.by = d /\ m.op = op /\ m.ent = e
  BY <1>1 DEF TypeOK, StoreType, Mutation
<1>3. /\ log' = [log EXCEPT ![d] = Insert(@, m)]
      /\ memories' = [memories EXCEPT ![d][e] = Effect(m)]
  BY <1>1 DEF Change
<1>4. Logged(d)' = Logged(d) \union {m}
  BY <1>2, <1>3, InsertedLog DEF TypeOK, StoreType
<1> QED BY <1>2, <1>3, <1>4

(* A journal, a mark of a mutation, a presence and a row, once there, stay. *)
LEMMA StoreGrows ==
  ASSUME TypeOK, [Next]_vars, NEW c \in Device
  PROVE  /\ Logged(c) \subseteq Logged(c)' /\ LocalOrigin(c) \subseteq LocalOrigin(c)'
         /\ eventMarks[c] \subseteq eventMarks'[c] /\ present[c] \subseteq present'[c]
         /\ \A e \in Entity : memories[c][e] # "none" => memories'[c][e] # "none"
<1> DEFINE G ==
      /\ Logged(c) \subseteq Logged(c)' /\ LocalOrigin(c) \subseteq LocalOrigin(c)'
      /\ eventMarks[c] \subseteq eventMarks'[c] /\ present[c] \subseteq present'[c]
      /\ \A e \in Entity : memories[c][e] # "none" => memories'[c][e] # "none"
<1> SUFFICES G OBVIOUS
<1>0. Logged(c) \subseteq Logged(c)' => LocalOrigin(c) \subseteq LocalOrigin(c)'
  BY DEF LocalOrigin
<1>1. CASE UNCHANGED <<log, eventMarks, present, memories>>
  BY <1>0, <1>1, SameLogged
<1>2. ASSUME NEW d \in Device, NEW e \in Entity,
             Save(d, e) \/ Delete(d, e) \/ Restore(d, e)
      PROVE  G
  <2>1. PICK op \in Op : Change(d, e, op)
    BY <1>2 DEF Save, Delete, Restore, Op
  <2>2. PICK m \in Mutation :
          /\ log' = [log EXCEPT ![d] = Insert(@, m)]
          /\ memories' = [memories EXCEPT ![d][e] = Effect(m)]
    BY <2>1, ChangeLogs
  <2>3. UNCHANGED <<eventMarks, present>> BY <2>1 DEF Change
  <2>4. Logged(c) \subseteq Logged(c)'
    BY <2>2, InsertedLog DEF TypeOK, StoreType
  <2>5. Effect(m) # "none" BY DEF Effect
  <2> QED BY <1>0, <2>2, <2>3, <2>4, <2>5 DEF TypeOK, StoreType
<1>3. ASSUME NEW p \in Daemon, BatchStep(p) \/ Interrupt(p) PROVE G
  <2> DEFINE d == Home[p]
  <2> d \in Device BY HomeType
  <2>1. CASE Dispatch(p)
    BY <1>0, <2>1, SameLogged DEF Dispatch, MarkedEvents, TypeOK, StoreType
  <2>2. ASSUME NEW e \in Entity, MarkSynced(p, e) PROVE G
    BY <1>0, <2>2, SameLogged DEF MarkSynced, TypeOK, StoreType
  <2>3. CASE SavePulled(p)
    <3>1. PICK S \in SUBSET reply[p].rows :
            /\ memories' = [memories EXCEPT ![d] =
                 [e \in Entity |-> IF e \in S /\ @[e] = "none" THEN "active" ELSE @[e]]]
            /\ present' = [present EXCEPT ![d] = @ \union S]
      BY <2>3 DEF SavePulled
    <3>2. UNCHANGED <<log, eventMarks>> BY <2>3 DEF SavePulled
    <3> QED BY <1>0, <3>1, <3>2, SameLogged DEF TypeOK, StoreType
  <2>4. CASE ApplyRemote(p)
    <3>1. PICK x \in reply[p].page :
            /\ memories' = [memories EXCEPT ![d][x.mut.ent] = RemoteStatus(@, x.mut)]
            /\ log' = [log EXCEPT ![d] = Insert(@, x.mut)]
            /\ present' = [present EXCEPT ![d] = @ \union {x.mut.ent}]
      BY <2>4 DEF ApplyRemote
    <3>2. x.mut \in Mutation BY DEF TypeOK, ProcessType, Reply, Entry
    <3>3. Logged(c) \subseteq Logged(c)'
      BY <3>1, <3>2, InsertedLog DEF TypeOK, StoreType
    <3>4. RemoteStatus(memories[d][x.mut.ent], x.mut) # "none"
      BY DEF RemoteStatus, Effect
    <3>5. UNCHANGED eventMarks BY <2>4 DEF ApplyRemote
    <3> QED BY <1>0, <3>1, <3>3, <3>4, <3>5 DEF TypeOK, StoreType
  <2>5. CASE MarkConfirmed(p)
    BY <1>0, <2>5, SameLogged DEF MarkConfirmed, TypeOK, StoreType
  <2>6. CASE ReadRows(p) \/ SkipKnown(p) \/ AbortOnRemote(p) \/ Interrupt(p)
    BY <1>1, <2>6 DEF ReadRows, SkipKnown, AbortOnRemote, Interrupt, store
  <2>7. CASE ResolveRows(p) \/ MarkUnsupported(p) \/ SetCursor(p) \/ MarkRejected(p)
    BY <1>1, <2>7 DEF ResolveRows, MarkUnsupported, SetCursor, MarkRejected
  <2> QED
    BY <1>3, <2>1, <2>2, <2>3, <2>4, <2>5, <2>6, <2>7 DEF BatchStep
<1>4. CASE UNCHANGED store BY <1>1, <1>4 DEF store
<1> QED BY <1>2, <1>3, <1>4, ServerFrame DEF Next

(* Only a save makes a device the origin of a row: what it pulls was made  *)
(* elsewhere, or it would hold it.                                         *)
LEMMA PulledIsForeign ==
  ASSUME Ordered, Origins, NEW p \in Daemon, NEW x \in reply[p].page,
         x.mut \notin Logged(Home[p])
  PROVE  x.mut.by # Home[p] /\ x.mut \in Logged(x.mut.by) /\ HasOrigin(x.mut.ent)
<1>1. PICK o \in Device : x.mut \in Logged(o)
  BY DEF Ordered, PageCovers, Numbered
<1> QED BY <1>1 DEF Origins

LEMMA OriginStep ==
  ASSUME TypeOK, Ordered, Origins, [Next]_vars
  PROVE  \/ \A o \in Device : LocalOrigin(o)' = LocalOrigin(o)
         \/ \E d \in Device, e \in Entity :
              /\ Save(d, e) /\ LocalOrigin(d)' = LocalOrigin(d) \union {e}
              /\ \A o \in Device \ {d} : LocalOrigin(o)' = LocalOrigin(o)
<1>1. CASE UNCHANGED log BY <1>1, SameLogged DEF LocalOrigin
<1>2. ASSUME NEW d \in Device, NEW m \in Mutation,
             log' = [log EXCEPT ![d] = Insert(@, m)]
      PROVE  /\ \A o \in Device \ {d} : LocalOrigin(o)' = LocalOrigin(o)
             /\ m.by # d \/ m.op # "create" => LocalOrigin(d)' = LocalOrigin(d)
             /\ m.by = d /\ m.op = "create"
                  => LocalOrigin(d)' = LocalOrigin(d) \union {m.ent}
  <2>1. /\ Logged(d)' = Logged(d) \union {m}
        /\ \A o \in Device \ {d} : Logged(o)' = Logged(o)
    BY <1>2, InsertedLog DEF TypeOK, StoreType
  <2> QED BY <2>1 DEF LocalOrigin
<1>3. ASSUME NEW d \in Device, NEW e \in Entity, NEW op \in Op, Change(d, e, op)
      PROVE  /\ \A o \in Device \ {d} : LocalOrigin(o)' = LocalOrigin(o)
             /\ op # "create" => LocalOrigin(d)' = LocalOrigin(d)
             /\ op = "create" => LocalOrigin(d)' = LocalOrigin(d) \union {e}
  <2>1. PICK m \in Mutation : /\ m.by = d /\ m.op = op /\ m.ent = e
                             /\ log' = [log EXCEPT ![d] = Insert(@, m)]
    BY <1>3, ChangeLogs
  <2> QED BY <1>2, <2>1
<1>4. ASSUME NEW d \in Device, NEW e \in Entity, Save(d, e)
      PROVE  /\ LocalOrigin(d)' = LocalOrigin(d) \union {e}
             /\ \A o \in Device \ {d} : LocalOrigin(o)' = LocalOrigin(o)
  BY <1>3, <1>4 DEF Save, Op
<1>5. ASSUME NEW d \in Device, NEW e \in Entity, Delete(d, e) \/ Restore(d, e)
      PROVE  \A o \in Device : LocalOrigin(o)' = LocalOrigin(o)
  <2>1. PICK op \in Op : Change(d, e, op) /\ op # "create"
    BY <1>5 DEF Delete, Restore, Op
  <2> QED BY <1>3, <2>1
<1>6. ASSUME NEW p \in Daemon, ApplyRemote(p)
      PROVE  \A o \in Device : LocalOrigin(o)' = LocalOrigin(o)
  <2>1. PICK x \in reply[p].page :
          /\ x.mut \notin Logged(Home[p])
          /\ log' = [log EXCEPT ![Home[p]] = Insert(@, x.mut)]
    BY <1>6 DEF ApplyRemote
  <2>2. x.mut \in Mutation BY DEF TypeOK, ProcessType, Reply, Entry
  <2>3. x.mut.by # Home[p] BY <2>1, PulledIsForeign
  <2> QED BY <1>2, <2>1, <2>2, <2>3, HomeType
<1>7. ASSUME NEW p \in Daemon, BatchStep(p) \/ Interrupt(p), ~ApplyRemote(p)
      PROVE  UNCHANGED log
  BY <1>7 DEF BatchStep, Interrupt, ReadRows, Dispatch, ResolveRows,
     MarkUnsupported, MarkSynced, SavePulled, SkipKnown,
     AbortOnRemote, SetCursor, MarkRejected, MarkConfirmed, store
<1>8. CASE UNCHANGED store BY <1>1, <1>8 DEF store
<1> QED BY <1>1, <1>4, <1>5, <1>6, <1>7, <1>8, ServerFrame DEF Next

LEMMA OriginsUnique ==
  ASSUME TypeOK, Ordered, Origins, [Next]_vars
  PROVE  \A c, d \in Device : LocalOrigin(c)' \intersect LocalOrigin(d)' # {} => c = d
<1>1. CASE \A o \in Device : LocalOrigin(o)' = LocalOrigin(o) BY <1>1 DEF Origins
<1>2. ASSUME NEW a \in Device, NEW e \in Entity, Save(a, e),
             LocalOrigin(a)' = LocalOrigin(a) \union {e},
             \A o \in Device \ {a} : LocalOrigin(o)' = LocalOrigin(o)
      PROVE  \A c, d \in Device :
               LocalOrigin(c)' \intersect LocalOrigin(d)' # {} => c = d
  <2>1. \A o \in Device : e \notin LocalOrigin(o) BY <1>2 DEF Save
  <2> QED BY <1>2, <2>1 DEF Origins
<1> QED BY <1>1, <1>2, OriginStep

LEMMA OriginGrows ==
  ASSUME TypeOK, [Next]_vars, NEW e, HasOrigin(e)
  PROVE  HasOrigin(e)'
BY StoreGrows DEF HasOrigin

LEMMA SaveOrigin ==
  ASSUME TypeOK, NEW d \in Device, NEW e \in Entity, Save(d, e)
  PROVE  e \in LocalOrigin(d)'
<1>1. PICK m \in Mutation :
        m.by = d /\ m.op = "create" /\ m.ent = e /\ m \in Logged(d)'
  BY ChangeLogs DEF Save, Op
<1> QED BY <1>1 DEF LocalOrigin

(* What a device journals, its author has.                                 *)
LEMMA LoggedOrigins ==
  ASSUME TypeOK, Ordered, Origins, [Next]_vars, NEW d \in Device
  PROVE  \A m \in Logged(d)' : m \in Logged(m.by)' /\ HasOrigin(m.ent)'
<1>1. ASSUME NEW m \in Logged(d) PROVE m \in Logged(m.by)' /\ HasOrigin(m.ent)'
  <2>1. m \in Logged(m.by) /\ HasOrigin(m.ent) BY DEF Origins
  <2>2. m.by \in Device BY LoggedType DEF Mutation
  <2> QED BY <2>1, <2>2, StoreGrows, OriginGrows
<1>2. CASE UNCHANGED log
  <2>1. Logged(d)' = Logged(d) BY <1>2, SameLogged
  <2> QED BY <1>1, <2>1
<1>3. ASSUME NEW a \in Device, NEW m \in Mutation,
             log' = [log EXCEPT ![a] = Insert(@, m)],
             m \in Logged(m.by)', HasOrigin(m.ent)'
      PROVE  \A k \in Logged(d)' : k \in Logged(k.by)' /\ HasOrigin(k.ent)'
  <2>1. Logged(d)' \subseteq Logged(d) \union {m}
    BY <1>3, InsertedLog DEF TypeOK, StoreType
  <2> QED BY <1>1, <1>3, <2>1
<1>4. ASSUME NEW a \in Device, NEW e \in Entity,
             Save(a, e) \/ Delete(a, e) \/ Restore(a, e)
      PROVE  \A m \in Logged(d)' : m \in Logged(m.by)' /\ HasOrigin(m.ent)'
  <2>1. PICK op \in Op :
          Change(a, e, op) /\ (op # "create" => memories[a][e] # "none")
    BY <1>4 DEF Save, Delete, Restore, Op
  <2>2. PICK m \in Mutation :
          /\ m.by = a /\ m.op = op /\ m.ent = e
          /\ log' = [log EXCEPT ![a] = Insert(@, m)] /\ m \in Logged(a)'
    BY <2>1, ChangeLogs
  <2>3. HasOrigin(e)'
    <3>1. CASE op = "create"
      <4>1. e \in LocalOrigin(a)' BY <2>2, <3>1 DEF LocalOrigin
      <4> QED BY <4>1 DEF HasOrigin
    <3>2. CASE op # "create"
      <4>1. HasOrigin(e) BY <2>1, <3>2 DEF Origins
      <4> QED BY <4>1, OriginGrows
    <3> QED BY <3>1, <3>2
  <2> QED BY <1>3, <2>2, <2>3
<1>5. ASSUME NEW p \in Daemon, ApplyRemote(p)
      PROVE  \A m \in Logged(d)' : m \in Logged(m.by)' /\ HasOrigin(m.ent)'
  <2>1. PICK x \in reply[p].page :
          /\ x.mut \notin Logged(Home[p])
          /\ log' = [log EXCEPT ![Home[p]] = Insert(@, x.mut)]
    BY <1>5 DEF ApplyRemote
  <2>2. x.mut \in Mutation /\ x.mut.by \in Device
    BY DEF TypeOK, ProcessType, Reply, Entry, Mutation
  <2>3. x.mut \in Logged(x.mut.by)' /\ HasOrigin(x.mut.ent)'
    BY <2>1, <2>2, PulledIsForeign, StoreGrows, OriginGrows
  <2> QED BY <1>3, <2>1, <2>2, <2>3, HomeType
<1>6. ASSUME NEW p \in Daemon, BatchStep(p) \/ Interrupt(p), ~ApplyRemote(p)
      PROVE  UNCHANGED log
  BY <1>6 DEF BatchStep, Interrupt, ReadRows, Dispatch, ResolveRows,
     MarkUnsupported, MarkSynced, SavePulled, SkipKnown,
     AbortOnRemote, SetCursor, MarkRejected, MarkConfirmed, store
<1>7. CASE UNCHANGED store BY <1>2, <1>7 DEF store
<1> QED BY <1>2, <1>4, <1>5, <1>6, <1>7, ServerFrame DEF Next

(* A row that comes into being on a device was changed there, or is there  *)
(* on the server already.                                                  *)
LEMMA RowSources ==
  ASSUME TypeOK, Ordered, Replays(journal, rows), AnswerSound, [Next]_vars,
         NEW d \in Device, NEW e \in Entity, memories'[d][e] # "none"
  PROVE  memories[d][e] # "none" \/ IsThere(e) \/ Save(d, e)
<1>1. CASE UNCHANGED memories BY <1>1
<1>2. ASSUME NEW a \in Device, NEW f \in Entity,
             Save(a, f) \/ Delete(a, f) \/ Restore(a, f)
      PROVE  memories[d][e] # "none" \/ Save(d, e)
  <2>1. PICK s : memories' = [memories EXCEPT ![a][f] = s]
    BY <1>2 DEF Save, Delete, Restore, Change
  <2>2. CASE a = d /\ f = e
    BY <1>2, <2>2 DEF Delete, Restore
  <2>3. CASE ~(a = d /\ f = e) BY <2>1, <2>3 DEF TypeOK, StoreType
  <2> QED BY <2>2, <2>3
<1>3. ASSUME NEW p \in Daemon, SavePulled(p)
      PROVE  memories[d][e] # "none" \/ IsThere(e)
  <2>1. PICK S \in SUBSET reply[p].rows :
          memories' = [memories EXCEPT ![Home[p]] =
            [f \in Entity |-> IF f \in S /\ @[f] = "none" THEN "active" ELSE @[f]]]
    BY <1>3 DEF SavePulled
  <2>2. \A f \in S : IsThere(f) BY DEF AnswerSound
  <2> QED BY <2>1, <2>2, HomeType DEF TypeOK, StoreType
<1>4. ASSUME NEW p \in Daemon, ApplyRemote(p)
      PROVE  memories[d][e] # "none" \/ IsThere(e)
  <2>1. PICK x \in reply[p].page :
          memories' = [memories EXCEPT ![Home[p]][x.mut.ent] = RemoteStatus(@, x.mut)]
    BY <1>4 DEF ApplyRemote
  <2>2. IsThere(x.mut.ent) BY DEF Ordered, PageCovers, Replays, IsThere
  <2> QED BY <2>1, <2>2, HomeType DEF TypeOK, StoreType
<1>5. ASSUME NEW p \in Daemon, BatchStep(p) \/ Interrupt(p),
             ~ApplyRemote(p), ~SavePulled(p)
      PROVE  UNCHANGED memories
  BY <1>5 DEF BatchStep, Interrupt, ReadRows, Dispatch, ResolveRows,
     MarkUnsupported, MarkSynced, SkipKnown, AbortOnRemote, SetCursor,
     MarkRejected, MarkConfirmed, store
<1>6. CASE UNCHANGED store BY <1>1, <1>6 DEF store
<1> QED BY <1>1, <1>2, <1>3, <1>4, <1>5, <1>6, ServerFrame DEF Next

(* How a row comes to the server: in the memories[] of a row-state request *)
(* or by a create.                                                         *)
LEMMA RowArrives ==
  ASSUME TypeOK, Ordered, [Next]_vars, NEW e \in Entity, MaybeThere(e)'
  PROVE  \/ MaybeThere(e)
         \/ \E r \in wire : Begin(r) /\ ~Authoritative(r) /\ e \in r.rows
         \/ \E t \in txs : \E m \in t.todo :
              Apply(t, m) /\ m.op = "create" /\ m.ent = e /\ t.view[e] = "none"
<1> DEFINE G ==
      \/ MaybeThere(e)
      \/ \E r \in wire : Begin(r) /\ ~Authoritative(r) /\ e \in r.rows
      \/ \E t \in txs : \E m \in t.todo :
           Apply(t, m) /\ m.op = "create" /\ m.ent = e /\ t.view[e] = "none"
<1> SUFFICES G OBVIOUS
<1>1. CASE UNCHANGED rows /\ txs' \subseteq txs
  BY <1>1 DEF MaybeThere, IsThere
<1>2. ASSUME NEW t \in txs, NEW u, txs' = (txs \ {t}) \union {u},
             u.view[e] = t.view[e], UNCHANGED rows
      PROVE  G
  BY <1>2 DEF MaybeThere, IsThere
<1>3. ASSUME NEW r \in wire, Begin(r) PROVE G
  <2>1. PICK u : /\ u = [req |-> r, v2 |-> Authoritative(r),
                         todo |-> IF Authoritative(r) THEN r.muts ELSE {},
                         view |-> IF Authoritative(r) THEN rows
                                                      ELSE Upserted(rows, r.rows),
                         staged |-> {}, confirmed |-> {}, refused |-> {}]
                 /\ txs' = {u}
    BY <1>3 DEF Begin, KeyLockFree
  <2>2. u.view = IF Authoritative(r) THEN rows ELSE Upserted(rows, r.rows)
    BY <2>1
  <2>3. UNCHANGED rows BY <1>3 DEF Begin
  <2> QED BY <1>3, <2>1, <2>2, <2>3 DEF MaybeThere, IsThere, Upserted
<1>4. ASSUME NEW t \in txs, NEW m \in t.todo, Duplicate(t, m) PROVE G
  <2>1. PICK u : /\ u = [t EXCEPT !.todo = @ \ {m}, !.confirmed = @ \union {m}]
                 /\ txs' = (txs \ {t}) \union {u}
    BY <1>4 DEF Duplicate
  <2>2. u.view = t.view BY <2>1, InFlightType DEF Tx
  <2>3. UNCHANGED rows BY <1>4 DEF Duplicate
  <2> QED BY <1>2, <2>1, <2>2, <2>3
<1>5. ASSUME NEW t \in txs, NEW m \in t.todo, Refuse(t, m) PROVE G
  <2>1. PICK u : /\ u = [t EXCEPT !.todo = @ \ {m}, !.refused = @ \union {m}]
                 /\ txs' = (txs \ {t}) \union {u}
    BY <1>5 DEF Refuse
  <2>2. u.view = t.view BY <2>1, InFlightType DEF Tx
  <2>3. UNCHANGED rows BY <1>5 DEF Refuse
  <2> QED BY <1>2, <2>1, <2>2, <2>3
<1>6. ASSUME NEW t \in txs, NEW m \in t.todo, Apply(t, m) PROVE G
  <2>1. PICK entry : entry = [seq |-> nextSeq, mut |-> m] OBVIOUS
  <2>2. PICK u :
          u = [t EXCEPT !.todo = @ \ {m}, !.confirmed = @ \union {m},
                        !.view = [@ EXCEPT ![m.ent] = Effect(m)],
                        !.staged = @ \union {entry}]
    OBVIOUS
  <2>3. txs' = (txs \ {t}) \union {u} /\ UNCHANGED rows
    BY <1>6, <2>1, <2>2 DEF Apply
  <2>4. t \in Tx /\ m \in Mutation BY InFlightType DEF Tx
  <2>5. u.view = [t.view EXCEPT ![m.ent] = Effect(m)] BY <2>2, <2>4 DEF Tx
  <2>6. CASE m.ent # e BY <1>2, <2>3, <2>4, <2>5, <2>6 DEF Tx
  <2>7. CASE m.ent = e /\ m.op # "create"
    <3>1. m.op \in Op BY <2>4 DEF Mutation
    <3>2. t.view[e] # "none"
      BY <1>6, <2>7, <3>1 DEF Apply, IsRefused, Op
    <3> QED BY <3>2 DEF MaybeThere
  <2>8. CASE m.ent = e /\ m.op = "create" BY <1>6, <2>8 DEF MaybeThere
  <2> QED BY <2>6, <2>7, <2>8
<1>7. ASSUME NEW t \in txs, Commit(t) PROVE G
  <2>1. rows' = t.view /\ txs' = {} BY <1>7, OneTx DEF Commit
  <2> QED BY <2>1 DEF MaybeThere, IsThere
<1>8. ASSUME NEW d \in Device, NEW f \in Entity,
             Save(d, f) \/ Delete(d, f) \/ Restore(d, f)
      PROVE  G
  BY <1>1, <1>8, DeviceFrame
<1>9. ASSUME NEW p \in Daemon, BatchStep(p) \/ Interrupt(p) PROVE G
  BY <1>1, <1>9, DeviceFrame
<1>10. ASSUME NEW r \in wire, Drop(r) PROVE G BY <1>1, <1>10 DEF Drop, server
<1>11. ASSUME NEW t \in txs, Abort(t) PROVE G BY <1>1, <1>11 DEF Abort
<1>12. CASE Upgrade BY <1>1, <1>12 DEF Upgrade
<1>13. CASE UNCHANGED vars BY <1>1, <1>13 DEF vars, server
<1> QED
  BY <1>3, <1>4, <1>5, <1>6, <1>7, <1>8, <1>9, <1>10, <1>11, <1>12, <1>13
  DEF Next, TxStep

LEMMA OriginsKept ==
  ASSUME TypeOK, Ordered, Replays(journal, rows), AnswerSound, Origins, Marked,
         [Next]_vars
  PROVE  Origins'
<1>1. \A c, d \in Device : LocalOrigin(c)' \intersect LocalOrigin(d)' # {} => c = d
  BY OriginsUnique
<1>2. \A d \in Device : \A m \in Logged(d)' : m \in Logged(m.by)' /\ HasOrigin(m.ent)'
  BY LoggedOrigins
<1>3. ASSUME NEW d \in Device, NEW e \in Entity, memories'[d][e] # "none"
      PROVE  HasOrigin(e)'
  <2>1. CASE Save(d, e)
    BY <2>1, SaveOrigin DEF HasOrigin
  <2>2. CASE memories[d][e] # "none" \/ IsThere(e)
    <3>1. HasOrigin(e) BY <2>2 DEF Origins, MaybeThere
    <3> QED BY <3>1, OriginGrows
  <2> QED BY <1>3, <2>1, <2>2, RowSources
<1>4. ASSUME NEW e \in Entity, MaybeThere(e)' PROVE HasOrigin(e)'
  <2> SUFFICES HasOrigin(e) BY OriginGrows
  <2>1. CASE MaybeThere(e) BY <2>1 DEF Origins
  <2>2. ASSUME NEW r \in wire, e \in r.rows PROVE HasOrigin(e)
    <3>1. r \in InFlight /\ Home[r.from] \in Device BY InFlightType DEF InFlight
    <3>2. memories[Home[r.from]][e] # "none" BY <2>2, <3>1 DEF Marked
    <3> QED BY <3>1, <3>2 DEF Origins
  <2>3. ASSUME NEW t \in txs, NEW m \in t.todo, m.ent = e PROVE HasOrigin(e)
    <3>1. m \in Logged(Home[t.req.from]) BY DEF Ordered, SentIsLogged
    <3> QED BY <2>3, <3>1, InFlightType DEF Origins
  <2> QED BY <1>4, <2>1, <2>2, <2>3, RowArrives
<1> QED
  BY <1>1, <1>2, <1>3, <1>4 DEF Origins

(* What a device has of rows saved elsewhere, it has from the server.      *)
LEMMA FromServerKept ==
  ASSUME TypeOK, Ordered, Replays(journal, rows), TxSound, AnswerSound, Origins,
         FromServer, [Next]_vars
  PROVE  FromServer'
<1>1. \A e \in Entity : IsThere(e) => IsThere(e)'
  BY ServerSound DEF IsThere
<1>2. ASSUME NEW d \in Device, NEW e \in Entity \ LocalOrigin(d)',
             memories'[d][e] # "none"
      PROVE  IsThere(e)'
  <2>1. e \notin LocalOrigin(d) BY StoreGrows
  <2>2. ~Save(d, e) BY SaveOrigin
  <2> QED BY <1>1, <1>2, <2>1, <2>2, RowSources DEF FromServer
<1>3. ASSUME NEW d \in Device, NEW m \in Logged(d)', m.ent \notin LocalOrigin(d)'
      PROVE  IsThere(m.ent)'
  <2>1. m.ent \notin LocalOrigin(d) BY <1>3, StoreGrows
  <2>2. CASE m \in Logged(d)
    BY <1>1, <2>1, <2>2, LoggedType DEF FromServer, Mutation
  <2>3. CASE m \notin Logged(d)
    <3>1. ASSUME NEW e \in Entity, NEW op \in Op, Change(d, e, op)
          PROVE  m.by = d /\ m.op = op /\ m.ent = e /\ e \in Entity
      <4>1. PICK k \in Mutation : /\ k.by = d /\ k.op = op /\ k.ent = e
                                 /\ Logged(d)' = Logged(d) \union {k}
        BY <3>1, ChangeLogs
      <4> QED BY <2>3, <4>1
    <3>2. ASSUME NEW e \in Entity, Save(d, e) PROVE IsThere(m.ent)'
      <4>1. m.by = d /\ m.op = "create" BY <3>1, <3>2 DEF Save, Op
      <4>2. m.ent \in LocalOrigin(d)' BY <4>1 DEF LocalOrigin
      <4> QED BY <1>3, <4>2
    <3>3. ASSUME NEW e \in Entity, Delete(d, e) \/ Restore(d, e)
          PROVE  IsThere(m.ent)'
      <4>1. m.ent = e BY <3>1, <3>3 DEF Delete, Restore, Op
      <4>2. memories[d][e] # "none" BY <3>3 DEF Delete, Restore
      <4> QED BY <1>1, <2>1, <4>1, <4>2 DEF FromServer
    <3>4. ASSUME NEW a \in Device, NEW e \in Entity, a # d,
                 Save(a, e) \/ Delete(a, e) \/ Restore(a, e)
          PROVE  FALSE
      <4>1. \E l : log' = [log EXCEPT ![a] = l]
        BY <3>4 DEF Save, Delete, Restore, Change
      <4>2. Logged(d)' = Logged(d)
        BY <3>4, <4>1 DEF Logged, TypeOK, StoreType
      <4> QED BY <2>3, <4>2
    <3>5. ASSUME NEW p \in Daemon, ApplyRemote(p) PROVE IsThere(m.ent)'
      <4>1. PICK x \in reply[p].page : log' = [log EXCEPT ![Home[p]] = Insert(@, x.mut)]
        BY <3>5 DEF ApplyRemote
      <4>2. x.mut \in Mutation /\ x.mut.ent \in Entity
        BY DEF TypeOK, ProcessType, Reply, Entry, Mutation
      <4>3. /\ Logged(Home[p])' = Logged(Home[p]) \union {x.mut}
            /\ \A o \in Device \ {Home[p]} : Logged(o)' = Logged(o)
        BY <4>1, <4>2, InsertedLog, HomeType DEF TypeOK, StoreType
      <4>4. m = x.mut BY <2>3, <4>3
      <4>5. IsThere(x.mut.ent) BY DEF Ordered, PageCovers, Replays, IsThere
      <4> QED BY <1>1, <4>2, <4>4, <4>5
    <3>6. ASSUME NEW p \in Daemon, BatchStep(p) \/ Interrupt(p), ~ApplyRemote(p)
          PROVE  UNCHANGED log
      BY <3>6 DEF BatchStep, Interrupt, ReadRows, Dispatch, ResolveRows,
         MarkUnsupported, MarkSynced, SavePulled, SkipKnown,
         AbortOnRemote, SetCursor, MarkRejected, MarkConfirmed, store
    <3>7. ~UNCHANGED log BY <2>3, SameLogged
    <3> QED
      BY <3>2, <3>3, <3>4, <3>5, <3>6, <3>7, ServerFrame DEF Next, store
  <2> QED BY <2>2, <2>3
<1> QED BY <1>2, <1>3 DEF FromServer

-----------------------------------------------------------------------------
(* Numbers and marks.                                                      *)

(* A batch keeps its number while its request is out, and does not wait    *)
(* again once it is answered.                                              *)
NumberKept(o) ==
  /\ phase'[o] \notin {"idle", "read"} =>
       /\ phase[o] \notin {"idle", "read"} /\ batch'[o].no = batch[o].no
       /\ phase[o] = "wait" => phase'[o] = "wait"

LEMMA FinishNumbers ==
  ASSUME TypeOK, NEW p \in Daemon, Finish(p)
  PROVE  \A o \in Daemon : NumberKept(o)
BY DEF TypeOK, ProcessType, Finish, NumberKept

LEMMA StepNumbers ==
  ASSUME TypeOK, NEW p \in Daemon, BatchStep(p) \/ Interrupt(p), ~Dispatch(p)
  PROVE  \A o \in Daemon : NumberKept(o)
<1> USE DEF NumberKept, TypeOK, ProcessType
<1>1. CASE ReadRows(p) BY <1>1 DEF ReadRows
<1>2. CASE ResolveRows(p) BY <1>2 DEF ResolveRows, Batch
<1>3. CASE MarkUnsupported(p) BY <1>3 DEF MarkUnsupported, process
<1>4. ASSUME NEW e \in Entity, MarkSynced(p, e)
      PROVE  \A o \in Daemon : NumberKept(o)
  BY <1>4 DEF MarkSynced, Batch
<1>5. CASE SavePulled(p)
  <2>1. CASE reply[p].v2 BY <1>5, <2>1 DEF SavePulled
  <2>2. CASE ~reply[p].v2 BY <1>5, <2>2, FinishNumbers DEF SavePulled
  <2> QED BY <2>1, <2>2
<1>6. CASE SkipKnown(p) BY <1>6 DEF SkipKnown
<1>7. CASE ApplyRemote(p) BY <1>7 DEF ApplyRemote
<1>8. CASE AbortOnRemote(p) BY <1>8, FinishNumbers DEF AbortOnRemote
<1>9. CASE SetCursor(p) BY <1>9 DEF SetCursor
<1>10. CASE MarkRejected(p) BY <1>10 DEF MarkRejected
<1>11. CASE MarkConfirmed(p) BY <1>11, FinishNumbers DEF MarkConfirmed
<1>12. CASE Interrupt(p) BY <1>12, FinishNumbers DEF Interrupt
<1> QED
  BY <1>1, <1>2, <1>3, <1>4, <1>5, <1>6, <1>7, <1>8, <1>9, <1>10, <1>11, <1>12
  DEF BatchStep

LEMMA NumbersEase ==
  ASSUME TypeOK, OwnNumbers, \A o \in Daemon : NumberKept(o),
         InFlight' \subseteq InFlight, \A t \in txs' : t.req \notin wire'
  PROVE  OwnNumbers'
<1>1. ASSUME NEW p \in Daemon, phase'[p] \notin {"idle", "read"}
      PROVE  /\ \A r \in InFlight' :
                  Home[r.from] = Home[p] /\ r.no = batch'[p].no
                    => r.from = p /\ phase'[p] = "wait"
             /\ \A q \in Daemon :
                  /\ Home[q] = Home[p] /\ phase'[q] \notin {"idle", "read"}
                  /\ batch'[q].no = batch'[p].no
                  => q = p
  BY <1>1 DEF OwnNumbers, Dispatched, NumberKept
<1> QED BY <1>1 DEF OwnNumbers, Dispatched

LEMMA DispatchNumbers ==
  ASSUME TypeOK, OwnNumbers, NEW p \in Daemon, Dispatch(p)
  PROVE  OwnNumbers'
<1> DEFINE d == Home[p]
<1>1. PICK P \in SUBSET pending[d], no \in FreshNo(d) :
        /\ batch' = [batch EXCEPT ![p] = [no |-> no, rows |-> @.rows, muts |-> P]]
        /\ wire' = wire \union {[from |-> p, no |-> no, rows |-> batch[p].rows,
                                 muts |-> P, cursor |-> cursor[d]]}
  BY DEF Dispatch
<1>2. PICK q : q = [from |-> p, no |-> no, rows |-> batch[p].rows,
                    muts |-> P, cursor |-> cursor[d]]
  OBVIOUS
<1>3. q.from = p /\ q.no = no BY <1>2
<1>4. phase' = [phase EXCEPT ![p] = "wait"] /\ UNCHANGED txs
  BY DEF Dispatch, server
<1>5. wire' = wire \union {q} /\ InFlight' = InFlight \union {q}
  BY <1>1, <1>2, <1>4 DEF InFlight
<1>6. /\ batch'[p].no = no /\ phase'[p] = "wait"
      /\ \A o \in Daemon \ {p} : batch'[o] = batch[o] /\ phase'[o] = phase[o]
  BY <1>1, <1>4 DEF TypeOK, ProcessType
<1>7. \A r \in InFlight : Home[r.from] = d => r.no # no
  BY DEF FreshNo, Requests, InFlight
<1>8. \A o \in Daemon : Home[o] = d /\ phase[o] \notin {"idle", "read"}
                          => batch[o].no # no
  BY DEF FreshNo, Dispatched
<1>9. \A r, s \in InFlight' : Home[r.from] = Home[s.from] /\ r.no = s.no => r = s
  BY <1>3, <1>5, <1>7 DEF OwnNumbers
<1>10. \A t \in txs' : t.req \notin wire'
  <2>1. \A t \in txs : t.req # q BY <1>3, <1>7 DEF InFlight
  <2> QED BY <1>4, <1>5, <2>1 DEF OwnNumbers
<1>11. ASSUME NEW o \in Daemon, phase'[o] \notin {"idle", "read"}
       PROVE  /\ \A r \in InFlight' :
                   Home[r.from] = Home[o] /\ r.no = batch'[o].no
                     => r.from = o /\ phase'[o] = "wait"
              /\ \A s \in Daemon :
                   /\ Home[s] = Home[o] /\ phase'[s] \notin {"idle", "read"}
                   /\ batch'[s].no = batch'[o].no
                   => s = o
  <2>1. CASE o = p BY <1>3, <1>5, <1>6, <1>7, <1>8, <2>1
  <2>2. CASE o # p
    BY <1>3, <1>5, <1>6, <1>8, <1>11, <2>2 DEF OwnNumbers, Dispatched
  <2> QED BY <2>1, <2>2
<1> QED BY <1>9, <1>10, <1>11 DEF OwnNumbers, Dispatched

(* The server's steps on the requests: taken up once, dropped or answered. *)
LEMMA BeginRequests ==
  ASSUME Ordered, OwnNumbers, NEW r \in wire, Begin(r)
  PROVE  /\ txs = {} /\ wire' = wire \ {r} /\ UNCHANGED <<store, process, rows>>
         /\ \E u : /\ txs' = {u} /\ u.req = r /\ u.v2 = Authoritative(r)
                   /\ u.todo \subseteq r.muts /\ u.refused = {}
         /\ InFlight' \subseteq InFlight /\ \A t \in txs' : t.req \notin wire'
<1> DEFINE u == [req |-> r, v2 |-> Authoritative(r),
                 todo |-> IF Authoritative(r) THEN r.muts ELSE {},
                 view |-> IF Authoritative(r) THEN rows ELSE Upserted(rows, r.rows),
                 staged |-> {}, confirmed |-> {}, refused |-> {}]
<1>1. /\ txs = {} /\ txs' = {u} /\ wire' = wire \ {r}
      /\ UNCHANGED <<store, process, rows>>
  BY DEF Begin, KeyLockFree
<1>2. /\ u.req = r /\ u.v2 = Authoritative(r) /\ u.todo \subseteq r.muts
      /\ u.refused = {}
  OBVIOUS
<1> HIDE DEF u
<1> QED BY <1>1, <1>2 DEF InFlight

LEMMA CommitNumbers ==
  ASSUME TypeOK, Ordered, OwnNumbers, NEW t \in txs, Commit(t)
  PROVE  OwnNumbers'
<1> DEFINE p == t.req.from
<1>1. t.req \in InFlight /\ p \in Daemon BY InFlightType
<1>2. txs' = {} /\ UNCHANGED <<batch, wire>> BY OneTx DEF Commit
<1>3. InFlight' = wire /\ wire \subseteq InFlight /\ t.req \notin wire
  BY <1>2 DEF InFlight, OwnNumbers
<1>4. /\ Awaited(t.req) => phase' = [phase EXCEPT ![p] = "ack"]
      /\ ~Awaited(t.req) => UNCHANGED phase
  BY DEF Commit, Respond
<1>5. CASE ~Awaited(t.req)
  <2>1. \A o \in Daemon : NumberKept(o) BY <1>2, <1>4, <1>5 DEF NumberKept
  <2> QED BY <1>2, <1>3, <2>1, NumbersEase
<1>6. CASE Awaited(t.req)
  <2>1. phase[p] = "wait" /\ batch[p].no = t.req.no BY <1>6 DEF Awaited
  <2>2. phase'[p] = "ack" /\ \A o \in Daemon \ {p} : phase'[o] = phase[o]
    BY <1>1, <1>4, <1>6 DEF TypeOK, ProcessType
  <2>3. \A r \in wire : ~(Home[r.from] = Home[p] /\ r.no = batch[p].no)
    BY <1>1, <1>3, <2>1 DEF OwnNumbers
  <2>4. \A r, s \in wire : Home[r.from] = Home[s.from] /\ r.no = s.no => r = s
    BY <1>3 DEF OwnNumbers
  <2>5. ASSUME NEW o \in Daemon, phase'[o] \notin {"idle", "read"}
        PROVE  /\ \A r \in wire :
                    Home[r.from] = Home[o] /\ r.no = batch[o].no
                      => r.from = o /\ phase'[o] = "wait"
               /\ \A s \in Daemon :
                    /\ Home[s] = Home[o] /\ phase'[s] \notin {"idle", "read"}
                    /\ batch[s].no = batch[o].no
                    => s = o
    BY <1>3, <2>1, <2>2, <2>3, <2>5 DEF OwnNumbers, Dispatched
  <2> QED BY <1>2, <1>3, <2>4, <2>5 DEF OwnNumbers, Dispatched
<1> QED BY <1>5, <1>6

LEMMA StepWire ==
  ASSUME NEW p \in Daemon, BatchStep(p) \/ Interrupt(p), ~Dispatch(p)
  PROVE  UNCHANGED <<wire, txs>> /\ InFlight' = InFlight
<1>1. UNCHANGED <<wire, txs>>
  BY DEF BatchStep, Interrupt, ReadRows, ResolveRows,
     MarkUnsupported, MarkSynced, SavePulled, SkipKnown, ApplyRemote,
     AbortOnRemote, SetCursor, MarkRejected, MarkConfirmed, server
<1> QED BY <1>1 DEF InFlight

LEMMA NumbersKept ==
  ASSUME TypeOK, Ordered, OwnNumbers, [Next]_vars
  PROVE  OwnNumbers'
<1>1. ASSUME UNCHANGED <<phase, batch>>, InFlight' \subseteq InFlight,
             \A t \in txs' : t.req \notin wire'
      PROVE  OwnNumbers'
  BY <1>1, NumbersEase DEF NumberKept
<1>2. CASE UNCHANGED <<phase, batch, wire, txs>>
  BY <1>1, <1>2 DEF InFlight, OwnNumbers
<1>3. ASSUME NEW d \in Device, NEW e \in Entity,
             Save(d, e) \/ Delete(d, e) \/ Restore(d, e)
      PROVE  OwnNumbers'
  BY <1>2, <1>3, DeviceFrame
<1>4. ASSUME NEW p \in Daemon, BatchStep(p) \/ Interrupt(p) PROVE OwnNumbers'
  <2>1. CASE Dispatch(p) BY <2>1, DispatchNumbers
  <2>2. CASE ~Dispatch(p)
    BY <1>4, <2>2, StepNumbers, StepWire, NumbersEase DEF OwnNumbers
  <2> QED BY <2>1, <2>2
<1>5. ASSUME NEW r \in wire, Begin(r) PROVE OwnNumbers'
  BY <1>1, <1>5, BeginRequests DEF process
<1>6. ASSUME NEW t \in txs, NEW m \in t.todo,
             Duplicate(t, m) \/ Refuse(t, m) \/ Apply(t, m)
      PROVE  OwnNumbers'
  <2>1. PICK u : u.req = t.req /\ txs' = (txs \ {t}) \union {u}
    BY <1>6, AnswerFrame
  <2>2. UNCHANGED <<phase, batch, wire>> /\ InFlight' = InFlight
    BY <1>6, AnswerFrame DEF process
  <2> QED BY <1>1, <2>1, <2>2 DEF OwnNumbers
<1>7. ASSUME NEW t \in txs, Abort(t) PROVE OwnNumbers'
  <2>1. InFlight' \subseteq InFlight /\ \A u \in txs' : u.req \notin wire'
    BY <1>7 DEF Abort, InFlight, OwnNumbers
  <2>2. CASE Finish(t.req.from)
    BY <2>1, <2>2, InFlightType, FinishNumbers, NumbersEase
  <2>3. CASE UNCHANGED process BY <1>1, <2>1, <2>3 DEF process
  <2> QED BY <1>7, <2>2, <2>3 DEF Abort
<1>8. ASSUME NEW r \in wire, Drop(r) PROVE OwnNumbers'
  BY <1>1, <1>8 DEF Drop, process, server, InFlight, OwnNumbers
<1>9. CASE Upgrade BY <1>2, <1>9 DEF Upgrade, process
<1>10. CASE UNCHANGED vars BY <1>2, <1>10 DEF vars, process, server
<1> QED
  BY <1>3, <1>4, <1>5, <1>6, <1>7, <1>8, <1>9, <1>10, CommitNumbers
  DEF Next, TxStep

(* A mark goes only when its row is known to be on the server, or when the *)
(* answer under its number says that the server did not look at the rows.  *)
Overlooked(d, n) ==
  \E p \in Daemon :
    Home[p] = d /\ phase[p] = "ack" /\ reply[p].v2 /\ batch[p].no = n

LEMMA MarkStays ==
  ASSUME TypeOK, [Next]_vars, NEW d \in Device, NEW n, NEW e \in Entity,
         RowMarked(d, n, e), ~Overlooked(d, n)
  PROVE  RowMarked(d, n, e)'
<1>0. present[d] \subseteq present'[d] BY StoreGrows
<1>1. CASE UNCHANGED rowMarks BY <1>0, <1>1 DEF RowMarked
<1>2. ASSUME NEW p \in Daemon, BatchStep(p) \/ Interrupt(p)
      PROVE  RowMarked(d, n, e)'
  <2> DEFINE c == Home[p]
  <2> c \in Device BY HomeType
  <2>1. CASE Dispatch(p)
    <3>1. PICK no, R : rowMarks' = [rowMarks EXCEPT ![c] = @ \union ({no} \X R)]
      BY <2>1 DEF Dispatch
    <3> QED BY <1>0, <3>1 DEF RowMarked, TypeOK, StoreType
  <2>2. CASE ResolveRows(p)
    <3>1. /\ rowMarks' = [rowMarks EXCEPT ![c] = {k \in @ : k[1] # batch[p].no}]
          /\ phase[p] = "ack" /\ reply[p].v2
      BY <2>2 DEF ResolveRows, RowsAnswered
    <3>2. c = d => batch[p].no # n BY <3>1 DEF Overlooked
    <3>3. <<n, e>>[1] = n OBVIOUS
    <3> QED BY <1>0, <3>1, <3>2, <3>3 DEF RowMarked, TypeOK, StoreType
  <2>3. ASSUME NEW f \in Entity, MarkSynced(p, f) PROVE RowMarked(d, n, e)'
    <3>1. /\ rowMarks' = [rowMarks EXCEPT ![c] = {k \in @ : k[2] # f}]
          /\ present' = [present EXCEPT ![c] = @ \union {f}]
      BY <2>3 DEF MarkSynced
    <3>2. <<n, e>>[2] = e OBVIOUS
    <3> QED BY <3>1, <3>2 DEF RowMarked, TypeOK, StoreType
  <2>4. CASE MarkConfirmed(p)
    <3>1. /\ rowMarks' =
               [rowMarks EXCEPT ![c] = {k \in @ : k[2] \notin ConfirmedRows(p)}]
          /\ present' =
               [present EXCEPT ![c] = @ \union {m.ent : m \in Confirmed(p)}]
      BY <2>4 DEF MarkConfirmed
    <3>2. <<n, e>>[2] = e OBVIOUS
    <3>3. ConfirmedRows(p) \subseteq {m.ent : m \in Confirmed(p)}
      BY DEF ConfirmedRows
    <3> QED BY <3>1, <3>2, <3>3 DEF RowMarked, TypeOK, StoreType
  <2>5. CASE ReadRows(p) \/ SkipKnown(p) \/ AbortOnRemote(p) \/ Interrupt(p)
    BY <1>1, <2>5 DEF ReadRows, SkipKnown, AbortOnRemote, Interrupt, store
  <2>6. CASE \/ SavePulled(p) \/ ApplyRemote(p) \/ MarkUnsupported(p)
             \/ SetCursor(p) \/ MarkRejected(p)
    BY <1>1, <2>6 DEF SavePulled, ApplyRemote, MarkUnsupported, SetCursor,
       MarkRejected
  <2> QED BY <1>2, <2>1, <2>2, <2>3, <2>4, <2>5, <2>6 DEF BatchStep
<1>3. ASSUME NEW a \in Device, NEW f \in Entity,
             Save(a, f) \/ Delete(a, f) \/ Restore(a, f)
      PROVE  UNCHANGED rowMarks
  BY <1>3 DEF Save, Delete, Restore, Change
<1>4. CASE UNCHANGED store BY <1>1, <1>4 DEF store
<1> QED BY <1>1, <1>2, <1>3, <1>4, ServerFrame DEF Next

LEMMA StepRows ==
  ASSUME TypeOK, NEW p \in Daemon, BatchStep(p) \/ Interrupt(p), NEW o \in Daemon
  PROVE  batch'[o].rows \subseteq batch[o].rows \union ActiveUnsynced(Home[o])
<1> USE DEF TypeOK, ProcessType
<1>0. CASE Finish(p) BY <1>0 DEF Finish, NoBatch
<1>1. CASE ReadRows(p) BY <1>1 DEF ReadRows
<1>2. CASE Dispatch(p) BY <1>2 DEF Dispatch
<1>3. CASE ResolveRows(p) BY <1>3 DEF ResolveRows, Batch
<1>4. CASE MarkUnsupported(p) BY <1>4 DEF MarkUnsupported, process
<1>5. ASSUME NEW e \in Entity, MarkSynced(p, e)
      PROVE  batch'[o].rows \subseteq batch[o].rows
  BY <1>5 DEF MarkSynced, Batch
<1>6. CASE SavePulled(p) BY <1>0, <1>6 DEF SavePulled
<1>7. CASE SkipKnown(p) \/ ApplyRemote(p) \/ SetCursor(p) \/ MarkRejected(p)
  BY <1>7 DEF SkipKnown, ApplyRemote, SetCursor, MarkRejected
<1>8. CASE AbortOnRemote(p) \/ MarkConfirmed(p) \/ Interrupt(p)
  BY <1>0, <1>8 DEF AbortOnRemote, MarkConfirmed, Interrupt
<1> QED
  BY <1>1, <1>2, <1>3, <1>4, <1>5, <1>6, <1>7, <1>8 DEF BatchStep

(* What an open transaction still has to apply is of its request.          *)
LEMMA TodoKept ==
  ASSUME TypeOK, Ordered, OwnNumbers, Marked, [Next]_vars
  PROVE  \A t \in txs' : t.todo \subseteq t.req.muts
<1>1. CASE txs' \subseteq txs BY <1>1 DEF Marked
<1>2. ASSUME NEW r \in wire, Begin(r)
      PROVE  \A t \in txs' : t.todo \subseteq t.req.muts
  BY <1>2, BeginRequests
<1>3. ASSUME NEW t \in txs, NEW m \in t.todo,
             Duplicate(t, m) \/ Refuse(t, m) \/ Apply(t, m)
      PROVE  \A u \in txs' : u.todo \subseteq u.req.muts
  BY <1>3, AnswerFrame DEF Marked
<1>4. ASSUME NEW t \in txs, Commit(t) \/ Abort(t) PROVE txs' \subseteq txs
  BY <1>4 DEF Commit, Abort
<1>5. ASSUME NEW d \in Device, NEW e \in Entity,
             Save(d, e) \/ Delete(d, e) \/ Restore(d, e)
      PROVE  txs' \subseteq txs
  BY <1>5, DeviceFrame
<1>6. ASSUME NEW p \in Daemon, BatchStep(p) \/ Interrupt(p) PROVE txs' \subseteq txs
  BY <1>6, DeviceFrame
<1>7. ASSUME \/ \E r \in wire : Drop(r)
             \/ Upgrade \/ UNCHANGED vars
      PROVE  txs' \subseteq txs
  BY <1>7 DEF Drop, Upgrade, vars, server
<1> QED BY <1>1, <1>2, <1>3, <1>4, <1>5, <1>6, <1>7 DEF Next, TxStep

(* Requests only come from a dispatch.                                     *)
LEMMA RequestSources ==
  ASSUME TypeOK, Ordered, OwnNumbers, [Next]_vars,
         NEW r \in InFlight', r \notin InFlight
  PROVE  \E p \in Daemon :
           /\ Dispatch(p) /\ r.from = p /\ r.rows = batch[p].rows
           /\ r.no \in FreshNo(Home[p]) /\ r \in wire'
           /\ rowMarks' = [rowMarks EXCEPT ![Home[p]] = @ \union ({r.no} \X r.rows)]
           /\ eventMarks' = [eventMarks EXCEPT ![Home[p]] = @ \union r.muts]
<1>1. ASSUME NEW d \in Device, NEW e \in Entity,
             Save(d, e) \/ Delete(d, e) \/ Restore(d, e)
      PROVE  FALSE
  BY <1>1, DeviceFrame DEF InFlight
<1>2. ASSUME NEW p \in Daemon, BatchStep(p) \/ Interrupt(p) PROVE Dispatch(p)
  BY <1>2, StepWire
<1>3. ASSUME NEW p \in Daemon, Dispatch(p)
      PROVE  /\ r.from = p /\ r.rows = batch[p].rows
             /\ r.no \in FreshNo(Home[p]) /\ r \in wire'
             /\ rowMarks' = [rowMarks EXCEPT ![Home[p]] = @ \union ({r.no} \X r.rows)]
             /\ eventMarks' = [eventMarks EXCEPT ![Home[p]] = @ \union r.muts]
  <2>1. PICK P \in SUBSET pending[Home[p]], no \in FreshNo(Home[p]) :
          /\ rowMarks' = [rowMarks EXCEPT ![Home[p]] = @ \union ({no} \X batch[p].rows)]
          /\ eventMarks' = [eventMarks EXCEPT ![Home[p]] = MarkedEvents(Home[p], P)]
          /\ wire' = wire \union {[from |-> p, no |-> no, rows |-> batch[p].rows,
                                   muts |-> P, cursor |-> cursor[Home[p]]]}
    BY <1>3 DEF Dispatch
  <2>2. PICK q : q = [from |-> p, no |-> no, rows |-> batch[p].rows,
                      muts |-> P, cursor |-> cursor[Home[p]]]
    OBVIOUS
  <2>3. UNCHANGED txs BY <1>3 DEF Dispatch, server
  <2>4. InFlight' = InFlight \union {q} BY <2>1, <2>2, <2>3 DEF InFlight
  <2>5. r = q /\ q \in wire' BY <2>1, <2>2, <2>4
  <2>6. q.from = p /\ q.rows = batch[p].rows /\ q.no = no /\ q.muts = P BY <2>2
  <2>7. eventMarks' = [eventMarks EXCEPT ![Home[p]] = @ \union P]
    BY <2>1 DEF MarkedEvents
  <2> QED BY <2>1, <2>5, <2>6, <2>7
<1>4. ASSUME NEW q \in wire, Begin(q) \/ Drop(q) PROVE FALSE
  BY <1>4, BeginRequests DEF Drop, server, InFlight
<1>5. ASSUME NEW t \in txs, TxStep(t) \/ Abort(t) PROVE FALSE
  BY <1>5, AnswerFrame DEF TxStep, Commit, Abort, InFlight
<1>6. CASE Upgrade \/ UNCHANGED vars
  BY <1>6 DEF Upgrade, vars, server, InFlight
<1> QED BY <1>1, <1>2, <1>3, <1>4, <1>5, <1>6 DEF Next

LEMMA MarkedKept ==
  ASSUME TypeOK, Ordered, OwnNumbers, Marked, [Next]_vars
  PROVE  Marked'
<1>1. ASSUME NEW r \in InFlight'
      PROVE  /\ r.muts \subseteq eventMarks'[Home[r.from]]
             /\ \A e \in r.rows : /\ RowMarked(Home[r.from], r.no, e)'
                                  /\ memories'[Home[r.from]][e] # "none"
  <2>1. CASE r \in InFlight
    <3>1. Home[r.from] \in Device /\ r.from \in Daemon /\ r.rows \subseteq Entity
      BY <2>1, InFlightType DEF Request
    <3>2. ~Overlooked(Home[r.from], r.no)
      BY <2>1 DEF OwnNumbers, Overlooked
    <3> QED BY <2>1, <3>1, <3>2, StoreGrows, MarkStays DEF Marked
  <2>2. CASE r \notin InFlight
    <3>1. PICK p \in Daemon :
            /\ Dispatch(p) /\ r.from = p /\ r.rows = batch[p].rows
            /\ rowMarks' = [rowMarks EXCEPT ![Home[p]] = @ \union ({r.no} \X r.rows)]
            /\ eventMarks' = [eventMarks EXCEPT ![Home[p]] = @ \union r.muts]
      BY <2>2, RequestSources
    <3>2. Home[p] \in Device BY HomeType
    <3>3. \A e \in r.rows : <<r.no, e>> \in rowMarks'[Home[p]]
      BY <3>1, <3>2 DEF TypeOK, StoreType
    <3>4. r.muts \subseteq eventMarks'[Home[p]]
      BY <3>1, <3>2 DEF TypeOK, StoreType
    <3>5. \A e \in r.rows : memories'[Home[p]][e] # "none"
      BY <3>1 DEF Marked, Dispatch
    <3> QED BY <3>1, <3>3, <3>4, <3>5 DEF RowMarked
  <2> QED BY <2>1, <2>2
<1>2. \A t \in txs' : t.todo \subseteq t.req.muts BY TodoKept
<1>3. ASSUME NEW p \in Daemon, NEW e \in batch'[p].rows
      PROVE  memories'[Home[p]][e] # "none"
  <2>1. CASE e \in batch[p].rows \union ActiveUnsynced(Home[p])
    <3>1. e \in Entity
      BY <2>1, HomeType DEF TypeOK, ProcessType, StoreType, Batch, ActiveUnsynced
    <3>2. memories[Home[p]][e] # "none" BY <2>1 DEF Marked, ActiveUnsynced
    <3> QED BY <3>1, <3>2, HomeType, StoreGrows
  <2>2. CASE UNCHANGED batch BY <2>1, <2>2
  <2>3. ASSUME NEW q \in Daemon, BatchStep(q) \/ Interrupt(q)
        PROVE  e \in batch[p].rows \union ActiveUnsynced(Home[p])
    BY <2>3, StepRows
  <2>4. ASSUME NEW d \in Device, NEW f \in Entity,
               Save(d, f) \/ Delete(d, f) \/ Restore(d, f)
        PROVE  UNCHANGED batch
    BY <2>4, DeviceFrame
  <2>5. ASSUME \/ \E r \in wire : Begin(r) \/ Drop(r)
               \/ \E t \in txs : TxStep(t)
               \/ Upgrade \/ UNCHANGED vars
        PROVE  UNCHANGED batch
    BY <2>5 DEF Begin, Drop, TxStep, Duplicate, Refuse, Apply, Commit, Upgrade,
       process, vars
  <2>6. ASSUME NEW t \in txs, Abort(t) PROVE e \in batch[p].rows
    BY <2>6, InFlightType DEF Abort, Finish, NoBatch, process, TypeOK, ProcessType
  <2> QED BY <2>1, <2>2, <2>3, <2>4, <2>5, <2>6 DEF Next
<1> QED BY <1>1, <1>2, <1>3 DEF Marked

(* The server refuses no create, so no device marks one rejected.          *)
LEMMA RefusedEases ==
  ASSUME TypeOK, NEW p \in Daemon, BatchStep(p) \/ Interrupt(p), NEW o \in Daemon
  PROVE  reply'[o].refused \subseteq reply[o].refused
<1> USE DEF TypeOK, ProcessType
<1>0. CASE Finish(p) BY <1>0 DEF Finish, NoReply
<1>1. CASE \/ ReadRows(p) \/ Dispatch(p) \/ ResolveRows(p) \/ MarkUnsupported(p)
           \/ SetCursor(p) \/ MarkRejected(p)
  BY <1>1 DEF ReadRows, Dispatch, ResolveRows, MarkUnsupported, SetCursor,
     MarkRejected, process
<1>2. ASSUME NEW e \in Entity, MarkSynced(p, e)
      PROVE  reply'[o].refused \subseteq reply[o].refused
  BY <1>2 DEF MarkSynced
<1>3. CASE SavePulled(p) BY <1>0, <1>3 DEF SavePulled
<1>4. CASE SkipKnown(p) BY <1>4 DEF SkipKnown, Reply
<1>5. CASE ApplyRemote(p) BY <1>5 DEF ApplyRemote, Reply
<1>6. CASE AbortOnRemote(p) \/ MarkConfirmed(p) \/ Interrupt(p)
  BY <1>0, <1>6 DEF AbortOnRemote, MarkConfirmed, Interrupt
<1> QED BY <1>1, <1>2, <1>3, <1>4, <1>5, <1>6 DEF BatchStep

LEMMA CreatesPassKept ==
  ASSUME TypeOK, Ordered, OwnNumbers, CreatesPass, [Next]_vars
  PROVE  CreatesPass'
<1> USE DEF NoCreate
<1>1. ASSUME \A t \in txs' : NoCreate(t.refused),
             \A o \in Daemon : NoCreate(reply'[o].refused), UNCHANGED rejected
      PROVE  CreatesPass'
  BY <1>1 DEF CreatesPass
<1>2. CASE txs' \subseteq txs /\ UNCHANGED <<reply, rejected>>
  BY <1>1, <1>2 DEF CreatesPass
<1>3. ASSUME NEW d \in Device, NEW e \in Entity,
             Save(d, e) \/ Delete(d, e) \/ Restore(d, e)
      PROVE  CreatesPass'
  <2>1. UNCHANGED rejected BY <1>3 DEF Save, Delete, Restore, Change
  <2> QED BY <1>2, <1>3, <2>1, DeviceFrame
<1>4. ASSUME NEW p \in Daemon, BatchStep(p) \/ Interrupt(p) PROVE CreatesPass'
  <2>1. UNCHANGED txs BY <1>4, DeviceFrame
  <2>2. \A o \in Daemon : NoCreate(reply'[o].refused)
    BY <1>4, RefusedEases DEF CreatesPass
  <2>3. ASSUME NEW d \in Device PROVE NoCreate(rejected'[d])
    <3>1. CASE MarkRejected(p)
      <4>1. rejected' = [rejected EXCEPT ![Home[p]] = @ \union reply[p].refused]
        BY <3>1 DEF MarkRejected
      <4> QED BY <4>1 DEF CreatesPass, TypeOK, StoreType
    <3>2. CASE MarkConfirmed(p)
      <4>1. rejected' = [rejected EXCEPT ![Home[p]] = @ \ Confirmed(p)]
        BY <3>2 DEF MarkConfirmed
      <4> QED BY <4>1 DEF CreatesPass, TypeOK, StoreType
    <3>3. CASE ~MarkRejected(p) /\ ~MarkConfirmed(p)
      <4>1. UNCHANGED rejected
        BY <1>4, <3>3 DEF BatchStep, Interrupt, ReadRows, Dispatch, ResolveRows,
           MarkUnsupported, MarkSynced, SavePulled, SkipKnown, ApplyRemote,
           AbortOnRemote, SetCursor, store
      <4> QED BY <4>1 DEF CreatesPass
    <3> QED BY <3>1, <3>2, <3>3
  <2> QED BY <2>1, <2>2, <2>3 DEF CreatesPass
<1>5. ASSUME NEW r \in wire, Begin(r) PROVE CreatesPass'
  <2>1. /\ UNCHANGED <<store, process>> /\ \A u \in txs' : NoCreate(u.refused)
    BY <1>5, BeginRequests
  <2> QED BY <1>1, <2>1 DEF CreatesPass, store, process
<1>6. ASSUME NEW t \in txs, NEW u, txs' = (txs \ {t}) \union {u},
             NoCreate(u.refused), UNCHANGED <<store, process>>
      PROVE  CreatesPass'
  BY <1>1, <1>6 DEF CreatesPass, store, process
<1>7. ASSUME NEW t \in txs, NEW m \in t.todo, Duplicate(t, m) PROVE CreatesPass'
  <2>1. PICK u : /\ u = [t EXCEPT !.todo = @ \ {m}, !.confirmed = @ \union {m}]
                 /\ txs' = (txs \ {t}) \union {u}
    BY <1>7 DEF Duplicate
  <2>2. u.refused = t.refused BY <2>1, InFlightType DEF Tx
  <2>3. UNCHANGED <<store, process>> BY <1>7 DEF Duplicate
  <2> QED BY <1>6, <2>1, <2>2, <2>3 DEF CreatesPass
<1>8. ASSUME NEW t \in txs, NEW m \in t.todo, Refuse(t, m) PROVE CreatesPass'
  <2>1. PICK u : /\ u = [t EXCEPT !.todo = @ \ {m}, !.refused = @ \union {m}]
                 /\ txs' = (txs \ {t}) \union {u}
    BY <1>8 DEF Refuse
  <2>2. u.refused = t.refused \union {m} BY <2>1, InFlightType DEF Tx
  <2>3. m.op # "create" BY <1>8 DEF Refuse, IsRefused
  <2>4. UNCHANGED <<store, process>> BY <1>8 DEF Refuse
  <2>5. NoCreate(u.refused) BY <2>2, <2>3 DEF CreatesPass
  <2> QED BY <1>6, <2>1, <2>4, <2>5
<1>9. ASSUME NEW t \in txs, NEW m \in t.todo, Apply(t, m) PROVE CreatesPass'
  <2>1. PICK entry : entry = [seq |-> nextSeq, mut |-> m] OBVIOUS
  <2>2. PICK u :
          u = [t EXCEPT !.todo = @ \ {m}, !.confirmed = @ \union {m},
                        !.view = [@ EXCEPT ![m.ent] = Effect(m)],
                        !.staged = @ \union {entry}]
    OBVIOUS
  <2>3. txs' = (txs \ {t}) \union {u} /\ UNCHANGED <<store, process>>
    BY <1>9, <2>1, <2>2 DEF Apply
  <2>4. u.refused = t.refused BY <2>2, InFlightType DEF Tx
  <2> QED BY <1>6, <2>3, <2>4 DEF CreatesPass
<1>10. ASSUME NEW t \in txs, Commit(t) PROVE CreatesPass'
  <2>1. PICK v, R, page, next :
          Respond(t.req, [v2 |-> v, rows |-> R, page |-> page, next |-> next,
                          confirmed |-> t.confirmed, refused |-> t.refused])
    BY <1>10 DEF Commit
  <2>2. PICK a : a = [v2 |-> v, rows |-> R, page |-> page, next |-> next,
                      confirmed |-> t.confirmed, refused |-> t.refused]
    OBVIOUS
  <2>3. a.refused = t.refused /\ Respond(t.req, a) BY <2>1, <2>2
  <2>4. \A o \in Daemon : NoCreate(reply'[o].refused)
    BY <2>3 DEF Respond, CreatesPass, TypeOK, ProcessType
  <2>5. txs' \subseteq txs /\ UNCHANGED store BY <1>10 DEF Commit
  <2> QED BY <1>1, <2>4, <2>5 DEF CreatesPass, store
<1>11. ASSUME NEW t \in txs, Abort(t) PROVE CreatesPass'
  <2>1. txs' \subseteq txs /\ UNCHANGED store BY <1>11 DEF Abort
  <2>2. \A o \in Daemon : NoCreate(reply'[o].refused)
    BY <1>11, InFlightType
    DEF Abort, Finish, NoReply, process, CreatesPass, TypeOK, ProcessType
  <2> QED BY <1>1, <2>1, <2>2 DEF CreatesPass, store
<1>12. ASSUME NEW r \in wire, Drop(r) PROVE CreatesPass'
  BY <1>2, <1>12 DEF Drop, store, process, server
<1>13. CASE Upgrade BY <1>2, <1>13 DEF Upgrade, store, process
<1>14. CASE UNCHANGED vars BY <1>2, <1>14 DEF vars, store, process, server
<1> QED
  BY <1>3, <1>4, <1>5, <1>7, <1>8, <1>9, <1>10, <1>11, <1>12, <1>13, <1>14
  DEF Next, TxStep

-----------------------------------------------------------------------------
(* The evidence.                                                           *)

(* A mark becomes unspent only under a new number.                         *)
LEMMA UnspentSources ==
  ASSUME TypeOK, Ordered, OwnNumbers, [Next]_vars, NEW d \in Device, NEW n,
         Unspent(d, n)'
  PROVE  Unspent(d, n) \/ n \in FreshNo(d)
<1> DEFINE G == Unspent(d, n) \/ n \in FreshNo(d)
<1> SUFFICES G OBVIOUS
<1>u. \/ \E r \in wire' : Home[r.from] = d /\ r.no = n
      \/ \E t \in txs' : Home[t.req.from] = d /\ t.req.no = n /\ t.v2
      \/ \E p \in Daemon :
           Home[p] = d /\ phase'[p] = "ack" /\ reply'[p].v2 /\ batch'[p].no = n
  BY DEF Unspent
<1>1. ASSUME wire' \subseteq wire, txs' \subseteq txs,
             \A o \in Daemon : BatchEased(o) /\ NumberKept(o)
      PROVE  G
  BY <1>1, <1>u DEF Unspent, BatchEased, NumberKept
<1>2. CASE wire' \subseteq wire /\ txs' \subseteq txs /\ UNCHANGED <<phase, batch, reply>>
  BY <1>1, <1>2 DEF BatchEased, NumberKept
<1>3. ASSUME NEW a \in Device, NEW e \in Entity,
             Save(a, e) \/ Delete(a, e) \/ Restore(a, e)
      PROVE  G
  BY <1>2, <1>3, DeviceFrame
<1>4. ASSUME NEW p \in Daemon, Dispatch(p) PROVE G
  <2>1. PICK P \in SUBSET pending[Home[p]], no \in FreshNo(Home[p]) :
          /\ batch' = [batch EXCEPT ![p] = [no |-> no, rows |-> @.rows, muts |-> P]]
          /\ wire' = wire \union {[from |-> p, no |-> no, rows |-> batch[p].rows,
                                   muts |-> P, cursor |-> cursor[Home[p]]]}
    BY <1>4 DEF Dispatch
  <2>2. PICK q : q = [from |-> p, no |-> no, rows |-> batch[p].rows,
                      muts |-> P, cursor |-> cursor[Home[p]]]
    OBVIOUS
  <2>3. q.from = p /\ q.no = no /\ wire' = wire \union {q} BY <2>1, <2>2
  <2>4. phase' = [phase EXCEPT ![p] = "wait"] /\ UNCHANGED <<reply, txs>>
    BY <1>4 DEF Dispatch, server
  <2>5. /\ phase'[p] = "wait"
        /\ \A o \in Daemon \ {p} : phase'[o] = phase[o] /\ batch'[o] = batch[o]
    BY <2>1, <2>4 DEF TypeOK, ProcessType
  <2> QED BY <1>u, <2>3, <2>4, <2>5 DEF Unspent
<1>5. ASSUME NEW p \in Daemon, BatchStep(p) \/ Interrupt(p), ~Dispatch(p) PROVE G
  BY <1>1, <1>5, StepWire, StepEased, StepNumbers
<1>6. ASSUME NEW r \in wire, Begin(r) PROVE G
  <2>1. /\ wire' \subseteq wire /\ UNCHANGED <<phase, batch, reply>>
        /\ \A u \in txs' : u.req = r
    BY <1>6, BeginRequests DEF process
  <2> QED BY <1>u, <2>1 DEF Unspent
<1>7. ASSUME NEW t \in txs, NEW m \in t.todo,
             Duplicate(t, m) \/ Refuse(t, m) \/ Apply(t, m)
      PROVE  G
  <2>1. PICK u : u.req = t.req /\ u.v2 = t.v2 /\ txs' = (txs \ {t}) \union {u}
    BY <1>7, AnswerFrame
  <2>2. UNCHANGED <<phase, batch, reply, wire>> BY <1>7, AnswerFrame DEF process
  <2> QED BY <1>u, <2>1, <2>2 DEF Unspent
<1>8. ASSUME NEW t \in txs, Commit(t) PROVE G
  <2>1. PICK R, page, next :
          Respond(t.req, [v2 |-> t.v2, rows |-> R, page |-> page, next |-> next,
                          confirmed |-> t.confirmed, refused |-> t.refused])
    BY <1>8 DEF Commit
  <2>2. PICK a : a = [v2 |-> t.v2, rows |-> R, page |-> page, next |-> next,
                      confirmed |-> t.confirmed, refused |-> t.refused]
    OBVIOUS
  <2>3. a.v2 = t.v2 /\ Respond(t.req, a) BY <2>1, <2>2
  <2>4. txs' \subseteq txs /\ UNCHANGED <<wire, batch>> BY <1>8 DEF Commit
  <2>5. CASE ~Awaited(t.req) BY <1>2, <2>3, <2>4, <2>5 DEF Respond
  <2>6. CASE Awaited(t.req)
    <3>1. /\ \A o \in Daemon \ {t.req.from} : reply'[o] = reply[o] /\ phase'[o] = phase[o]
          /\ t.req.from \in Daemon /\ reply'[t.req.from] = a
          /\ batch[t.req.from].no = t.req.no
      BY <2>3, <2>6, InFlightType DEF Respond, Awaited, TypeOK, ProcessType
    <3> QED BY <1>u, <2>3, <2>4, <3>1 DEF Unspent
  <2> QED BY <2>5, <2>6
<1>9. ASSUME NEW t \in txs, Abort(t) PROVE G
  <2>1. wire' \subseteq wire /\ txs' \subseteq txs BY <1>9 DEF Abort
  <2>2. CASE Finish(t.req.from)
    BY <1>1, <2>1, <2>2, InFlightType, FinishEased, FinishNumbers
  <2>3. CASE UNCHANGED process BY <1>2, <2>1, <2>3 DEF process
  <2> QED BY <1>9, <2>2, <2>3 DEF Abort
<1>10. ASSUME NEW r \in wire, Drop(r) PROVE G
  BY <1>2, <1>10 DEF Drop, process, server
<1>11. CASE Upgrade BY <1>2, <1>11 DEF Upgrade, process
<1>12. CASE UNCHANGED vars BY <1>2, <1>12 DEF vars, process, server
<1> QED
  BY <1>3, <1>4, <1>5, <1>6, <1>7, <1>8, <1>9, <1>10, <1>11, <1>12
  DEF Next, TxStep

LEMMA EvidenceStays ==
  ASSUME TypeOK, Ordered, OwnNumbers, [Next]_vars,
         NEW d \in Device, NEW e \in Entity, Evidence(d, e)
  PROVE  Evidence(d, e)'
<1>1. CASE e \in present[d] BY <1>1, StoreGrows DEF Evidence
<1>2. CASE \E m \in eventMarks[d] : m.op = "create" /\ m.ent = e
  BY <1>2, StoreGrows DEF Evidence
<1>3. ASSUME NEW k \in rowMarks[d], k[2] = e, ~Unspent(d, k[1])
      PROVE  Evidence(d, e)'
  <2>1. PICK n : n = k[1] OBVIOUS
  <2>2. k = <<n, e>> BY <1>3, <2>1 DEF TypeOK, StoreType
  <2>3. RowMarked(d, n, e) BY <2>2 DEF RowMarked
  <2>4. ~Overlooked(d, n) BY <1>3, <2>1 DEF Overlooked, Unspent
  <2>5. RowMarked(d, n, e)' BY <2>3, <2>4, MarkStays
  <2>6. n \notin FreshNo(d) BY <2>1 DEF FreshNo
  <2>7. ~Unspent(d, n)' BY <1>3, <2>1, <2>6, UnspentSources
  <2>8. <<n, e>>[1] = n /\ <<n, e>>[2] = e OBVIOUS
  <2> QED BY <2>5, <2>7, <2>8 DEF RowMarked, Evidence
<1> QED BY <1>1, <1>2, <1>3 DEF Evidence

(* A row-state request leaves its mark when it is taken up.                *)
LEMMA BeginLeavesEvidence ==
  ASSUME TypeOK, Ordered, OwnNumbers, Marked, NEW r \in wire, Begin(r),
         ~Authoritative(r), NEW e \in r.rows
  PROVE  Evidence(Home[r.from], e)'
<1> DEFINE d == Home[r.from]
<1>1. r \in InFlight /\ d \in Device BY InFlightType DEF InFlight
<1>2. /\ wire' = wire \ {r} /\ UNCHANGED <<store, process>>
      /\ \A u \in txs' : ~u.v2
  BY BeginRequests
<1>3. RowMarked(d, r.no, e)
  BY <1>1 DEF Marked
<1>4. ~Unspent(d, r.no)'
  <2>1. \A q \in wire : Home[q.from] = d /\ q.no = r.no => q = r
    BY <1>1 DEF OwnNumbers, InFlight
  <2>2. \A p \in Daemon : Home[p] = d /\ phase[p] = "ack" => batch[p].no # r.no
    BY <1>1 DEF OwnNumbers
  <2> QED BY <1>2, <2>1, <2>2 DEF Unspent, process
<1>5. <<r.no, e>>[1] = r.no /\ <<r.no, e>>[2] = e OBVIOUS
<1> QED BY <1>2, <1>3, <1>4, <1>5 DEF RowMarked, Evidence, store

LEMMA EvidentKept ==
  ASSUME TypeOK, Ordered, Origins, FromServer, OwnNumbers, Marked, Evident,
         [Next]_vars
  PROVE  Evident'
<1>1. ASSUME NEW d \in Device, NEW e \in LocalOrigin(d), MaybeThere(e)'
      PROVE  Evidence(d, e)'
  <2>1. e \in Entity BY LoggedType DEF LocalOrigin, Mutation
  <2>2. CASE MaybeThere(e)
    <3>1. Evidence(d, e) BY <2>2 DEF Evident
    <3> QED BY <2>1, <3>1, EvidenceStays
  <2>3. ASSUME NEW r \in wire, Begin(r), ~Authoritative(r), e \in r.rows
        PROVE  Evidence(d, e)'
    <3>1. r \in InFlight /\ Home[r.from] \in Device
      BY InFlightType DEF InFlight
    <3>2. CASE Home[r.from] = d BY <2>3, <3>2, BeginLeavesEvidence
    <3>3. CASE Home[r.from] # d
      <4>1. e \notin LocalOrigin(Home[r.from]) BY <3>1, <3>3 DEF Origins
      <4>2. memories[Home[r.from]][e] # "none" BY <2>3, <3>1 DEF Marked
      <4>3. IsThere(e) BY <2>1, <3>1, <4>1, <4>2 DEF FromServer
      <4> QED BY <2>2, <4>3 DEF MaybeThere
    <3> QED BY <3>2, <3>3
  <2>4. ASSUME NEW t \in txs, NEW m \in t.todo, m.op = "create", m.ent = e
        PROVE  Evidence(d, e)'
    <3> DEFINE c == Home[t.req.from]
    <3>1. c \in Device /\ t.req \in InFlight BY InFlightType
    <3>2. m \in eventMarks[c] BY <3>1 DEF Marked
    <3>3. CASE c = d
      <4>1. Evidence(d, e) BY <2>4, <3>2, <3>3 DEF Evidence
      <4> QED BY <2>1, <4>1, EvidenceStays
    <3>4. CASE c # d
      <4>1. e \notin LocalOrigin(c) BY <3>1, <3>4 DEF Origins
      <4>2. m \in Logged(c) BY <3>1, <3>2 DEF TypeOK, MarksAreLogged
      <4>3. IsThere(e) BY <2>4, <3>1, <4>1, <4>2 DEF FromServer
      <4> QED BY <2>2, <4>3 DEF MaybeThere
    <3> QED BY <3>3, <3>4
  <2> QED BY <1>1, <2>1, <2>2, <2>3, <2>4, RowArrives
<1>2. ASSUME NEW d \in Device, NEW e \in Entity, Save(d, e) PROVE ~MaybeThere(e)'
  <2>1. ~HasOrigin(e) BY <1>2 DEF Save, HasOrigin
  <2>2. UNCHANGED <<rows, txs>> BY <1>2, DeviceFrame
  <2> QED BY <2>1, <2>2 DEF Origins, MaybeThere, IsThere
<1>3. ASSUME NEW d \in Device, NEW e \in LocalOrigin(d)', MaybeThere(e)'
      PROVE  e \in LocalOrigin(d)
  BY <1>2, <1>3, OriginStep
<1> QED BY <1>1, <1>3 DEF Evident

LEMMA InitEInv == Init => EInv
<1> SUFFICES ASSUME Init PROVE EInv OBVIOUS
<1>1. RInv BY InitRInv
<1>2. \A d \in Device : Logged(d) = {} /\ LocalOrigin(d) = {}
  BY DEF Init, Logged, LocalOrigin
<1>3. InFlight = {} BY DEF Init, InFlight
<1>4. Origins BY <1>2 DEF Init, Origins, MaybeThere, IsThere
<1>5. FromServer BY <1>2 DEF Init, FromServer
<1>6. OwnNumbers BY <1>3 DEF Init, OwnNumbers
<1>7. Marked BY <1>3 DEF Init, Marked, NoBatch
<1>8. CreatesPass BY DEF Init, CreatesPass, NoReply, NoCreate
<1>9. Evident BY <1>2 DEF Evident
<1> QED BY <1>1, <1>4, <1>5, <1>6, <1>7, <1>8, <1>9 DEF EInv

LEMMA EInvInductive == Spec => []EInv
<1>1. Init => EInv BY InitEInv
<1>2. EInv /\ RInv' /\ [Next]_vars => EInv'
  <2> SUFFICES ASSUME EInv, RInv', [Next]_vars PROVE EInv' OBVIOUS
  <2>1. /\ TypeOK /\ Ordered /\ Replays(journal, rows) /\ TxSound /\ AnswerSound
        /\ Origins /\ FromServer /\ OwnNumbers /\ Marked /\ CreatesPass /\ Evident
    BY DEF EInv, RInv, IInv
  <2>2. Origins' BY <2>1, OriginsKept
  <2>3. FromServer' BY <2>1, FromServerKept
  <2>4. OwnNumbers' BY <2>1, NumbersKept
  <2>5. Marked' BY <2>1, MarkedKept
  <2>6. CreatesPass' BY <2>1, CreatesPassKept
  <2>7. Evident' BY <2>1, EvidentKept
  <2> QED BY <2>2, <2>3, <2>4, <2>5, <2>6, <2>7 DEF EInv
<1> QED BY <1>1, <1>2, RInvInductive, PTL DEF Spec

(* A row that a promotion would take for one the server never had is not   *)
(* there: not through a request that timed out and arrived late, nor one   *)
(* that another daemon of the device sent.                                 *)
THEOREM EvidenceNeverDenies == Spec => []EvidenceIsSound
<1>1. EInv => EvidenceIsSound
  <2> SUFFICES ASSUME EInv, NEW d \in Device, NEW e \in Entity, NeverSent(d, e),
                      rows[e] # "none"
               PROVE  FALSE
    BY DEF EvidenceIsSound
  <2>1. Evidence(d, e) BY DEF EInv, Evident, NeverSent, MaybeThere, IsThere
  <2>2. PICK m \in eventMarks[d] : m.op = "create" /\ m.ent = e
    BY <2>1 DEF Evidence, NeverSent
  <2>3. m \in Logged(d)
    BY DEF EInv, RInv, IInv, TypeOK, MarksAreLogged
  <2>4. PICK k \in rejected[d] : k.op = "create"
    BY <2>2, <2>3 DEF NeverSent
  <2> QED BY <2>4 DEF EInv, CreatesPass, NoCreate
<1> QED BY <1>1, EInvInductive, PTL
=============================================================================
