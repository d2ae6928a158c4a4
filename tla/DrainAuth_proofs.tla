-------------------------- MODULE DrainAuth_proofs --------------------------
(***************************************************************************)
(* Proofs about DrainAuth, for any processes, drains and bounds.           *)
(*                                                                         *)
(* The argument: whoever is inside a Syncer's mutex holds it, so a latch   *)
(* is set either by the one drain that could log in or while there is      *)
(* none.  A drain only logs in once the Syncer has no live token: the row  *)
(* holds none of its own, nobody is about to store one, and a Syncer that  *)
(* left a token elsewhere is latched or dead.                              *)
(***************************************************************************)
EXTENDS DrainAuth, TLAPS

(* A drain that runs is on a Syncer, and holds its mutex when inside.      *)
Running == \A d \in Drain : pc[d] = "idle" <=> on[d] = 0
Holding ==
  /\ \A d \in Drain : pc[d] \in Inside => mutex[on[d]] = d
  /\ \A s \in Syncer : \A d \in Drain :
       mutex[s] = d => on[d] = s /\ pc[d] \in Inside

Carrying == \A d \in Drain : pc[d] \in {"store", "inbox", "sync"} => token[d] # 0

TInv == TypeOK /\ Running /\ Holding /\ Carrying

-----------------------------------------------------------------------------
LEMMA Steps ==
  ASSUME Next
  PROVE  \/ ChangePassword \/ SavePassword \/ Expire
         \/ \E a \in BOOLEAN : SetActive(a)
         \/ \E p \in Process : Restart(p)
         \/ \E d \in Drain :
              \/ GetToken(d) \/ Recover(d) \/ Reject(d) \/ Start(d)
              \/ LoginGranted(d) \/ LoginDenied(d) \/ LoginFails(d) \/ Store(d)
              \/ StoreFails(d) \/ Denied(d) \/ Clear(d) \/ ClearFails(d)
              \/ PollInbox(d) \/ Finish(d) \/ Unauthorized(d) \/ CallFails(d)
BY DEF Next, Locking, Moving, Failing

(* The mutex is held by one drain.                                         *)
LEMMA OneInside ==
  ASSUME TInv, NEW d \in Drain, NEW e \in Drain,
         pc[d] \in Inside, pc[e] \in Inside, on[d] = on[e]
  PROVE  d = e
BY DEF TInv, Holding

LEMMA OnSyncer ==
  ASSUME TInv, NEW d \in Drain, pc[d] # "idle"
  PROVE  on[d] \in Syncer
BY DrainAuthAssumption DEF TInv, TypeOK, Running, Syncer

LEMMA FreeOfDrains ==
  ASSUME TInv, NEW d \in Drain, pc[d] # "idle", Free(on[d]),
         NEW e \in Drain, on[e] = on[d]
  PROVE  pc[e] \notin Inside
BY DrainAuthAssumption DEF TInv, Holding, Free

(* Leaving keeps the mutexes right.                                        *)
LEMMA Leaving ==
  ASSUME TInv, NEW d \in Drain, NEW how \in {"success", "failed", "latched"},
         End(d, how)
  PROVE  /\ mutex' \in [Syncer -> Drain \union {None}]
         /\ pc' \in [Drain -> Step] /\ on' \in [Drain -> 0 .. made]
         /\ token' \in [Drain -> 0 .. tokens]
         /\ recovered' \in [Drain -> BOOLEAN]
         /\ ended' \in [Drain -> {"none", "success", "failed", "latched"}]
         /\ Running' /\ Holding' /\ Carrying'
<1>. USE DEF TInv, TypeOK
<1>1. \A e \in Drain : e # d => pc'[e] = pc[e] /\ on'[e] = on[e]
  BY DEF End
<1>2. pc'[d] = "idle" /\ on'[d] = 0
  BY DEF End
<1>3. \A s \in Syncer : mutex'[s] = IF mutex[s] = d THEN None ELSE mutex[s]
  BY DEF End, Released
<1>4. mutex' \in [Syncer -> Drain \union {None}]
  BY DEF End, Released
<1>5. Running'
  BY <1>1, <1>2 DEF Running
<1>6. Holding'
  <2>1. ASSUME NEW e \in Drain, pc'[e] \in Inside PROVE mutex'[on'[e]] = e
    <3>1. e # d
      BY <2>1, <1>2 DEF Inside
    <3>2. pc[e] \in Inside /\ on'[e] = on[e] /\ pc[e] # "idle"
      BY <2>1, <3>1, <1>1 DEF Inside
    <3>3. mutex[on[e]] = e /\ on[e] \in Syncer
      BY <3>2, OnSyncer DEF Holding
    <3>. QED BY <3>1, <3>2, <3>3, <1>3
  <2>2. ASSUME NEW s \in Syncer, NEW e \in Drain, mutex'[s] = e
        PROVE  on'[e] = s /\ pc'[e] \in Inside
    BY <2>2, <1>1, <1>3, DrainAuthAssumption DEF Holding
  <2>. QED BY <2>1, <2>2 DEF Holding
<1>7. /\ pc' \in [Drain -> Step] /\ on' \in [Drain -> 0 .. made]
      /\ token' \in [Drain -> 0 .. tokens]
      /\ recovered' \in [Drain -> BOOLEAN]
      /\ ended' \in [Drain -> {"none", "success", "failed", "latched"}]
  BY DEF End, Step
<1>8. Carrying'
  BY <1>1, <1>2 DEF End, Carrying
<1>. QED BY <1>4, <1>5, <1>6, <1>7, <1>8

-----------------------------------------------------------------------------
(* The type invariant is inductive.                                        *)
LEMMA TypeInit == Init => TInv
BY DrainAuthAssumption
DEF Init, TInv, TypeOK, Running, Holding, Carrying, Mutexes, Inside, Step, Token, Syncer

(* Running and Holding give the last part of the type invariant.           *)
LEMMA MutexesHold ==
  ASSUME Running', Holding', pc' \in [Drain -> Step],
         on' \in [Drain -> 0 .. made'], made' \in 0 .. MaxSyncers
  PROVE  Mutexes'
<1>1. ASSUME NEW d \in Drain, pc'[d] \in Inside
      PROVE  \E s \in Syncer : mutex'[s] = d
  <2>1. on'[d] \in Syncer
    BY <1>1, DrainAuthAssumption DEF Running, Inside, Syncer
  <2>. QED BY <2>1, <1>1 DEF Holding
<1>. QED BY <1>1 DEF Mutexes, Holding

(* Nothing that the drains hold has changed.                               *)
LEMMA DrainsUnchanged ==
  ASSUME TInv, UNCHANGED <<mutex, pc, on, made>>
  PROVE  Running' /\ Holding' /\ Mutexes'
BY DEF TInv, TypeOK, Running, Holding, Mutexes

LEMMA ServerTypes ==
  ASSUME TInv, ChangePassword \/ SavePassword \/ Expire \/ \E a \in BOOLEAN : SetActive(a)
  PROVE  TInv'
<1>. USE DrainAuthAssumption DEF TInv, TypeOK
<1>1. CASE ChangePassword
  <2>1. UNCHANGED <<mutex, pc, on, made>>
    BY <1>1 DEF ChangePassword, syncers
  <2>2. Running' /\ Holding' /\ Mutexes'
    BY <2>1, DrainsUnchanged
  <2>. QED BY <1>1, <2>2 DEF ChangePassword, syncers, history, Carrying
<1>2. CASE SavePassword
  <2>1. UNCHANGED <<mutex, pc, on, made>>
    BY <1>2 DEF SavePassword, syncers
  <2>2. Running' /\ Holding' /\ Mutexes'
    BY <2>1, DrainsUnchanged
  <2>. QED BY <1>2, <2>2 DEF SavePassword, syncers, history, server, Carrying
<1>3. CASE Expire
  <2>1. UNCHANGED <<mutex, pc, on, made>>
    BY <1>3 DEF Expire, syncers
  <2>2. Running' /\ Holding' /\ Mutexes'
    BY <2>1, DrainsUnchanged
  <2>. QED BY <1>3, <2>2 DEF Expire, syncers, server, Fault, Carrying
<1>4. ASSUME NEW a \in BOOLEAN, SetActive(a) PROVE TInv'
  <2>1. UNCHANGED <<mutex, pc, on, made>>
    BY <1>4 DEF SetActive, syncers
  <2>2. Running' /\ Holding' /\ Mutexes'
    BY <2>1, DrainsUnchanged
  <2>. QED BY <1>4, <2>2 DEF SetActive, syncers, history, Fault, NoFault, Carrying
<1>. QED BY <1>1, <1>2, <1>3, <1>4

(* A drain goes on to another step and keeps what it holds.                *)
LEMMA GoingOn ==
  ASSUME TInv, NEW d \in Drain, NEW step \in Step, Goto(d, step),
         pc[d] # "idle", step # "idle",
         UNCHANGED mutex, pc[d] \in Inside <=> step \in Inside
  PROVE  /\ pc' \in [Drain -> Step] /\ on' = on /\ ended' = ended
         /\ Running' /\ Holding'
BY DEF TInv, TypeOK, Running, Holding, Goto, Inside

(* A drain takes the mutex of its Syncer.                                  *)
LEMMA Entering ==
  ASSUME TInv, NEW d \in Drain, NEW step \in Inside, Goto(d, step),
         pc[d] \notin Inside \union {"idle"}, Free(on[d]),
         mutex' = [mutex EXCEPT ![on[d]] = d]
  PROVE  /\ pc' \in [Drain -> Step] /\ on' = on /\ ended' = ended
         /\ mutex' \in [Syncer -> Drain \union {None}]
         /\ Running' /\ Holding'
<1>. USE DrainAuthAssumption DEF TInv, TypeOK
<1>1. on[d] \in Syncer
  BY OnSyncer
<1>2. /\ pc' \in [Drain -> Step] /\ on' = on /\ ended' = ended
      /\ mutex' \in [Syncer -> Drain \union {None}]
  BY DEF Goto, Step, Inside
<1>3. Running'
  BY <1>2 DEF Running, Goto, Inside
<1>4. Holding'
  <2>1. ASSUME NEW e \in Drain, pc'[e] \in Inside PROVE mutex'[on'[e]] = e
    <3>1. CASE e = d
      BY <3>1, <1>1, <1>2
    <3>2. CASE e # d
      <4>1. pc[e] \in Inside /\ on'[e] = on[e]
        BY <2>1, <3>2, <1>2 DEF Goto
      <4>2. on[e] # on[d]
        BY <4>1, FreeOfDrains DEF Inside
      <4>3. on[e] \in Syncer
        BY <4>1, OnSyncer DEF Inside
      <4>. QED BY <4>1, <4>2, <4>3, <1>1 DEF Holding
    <3>. QED BY <3>1, <3>2
  <2>2. ASSUME NEW s \in Syncer, NEW e \in Drain, mutex'[s] = e
        PROVE  on'[e] = s /\ pc'[e] \in Inside
    <3>1. CASE s = on[d]
      BY <3>1, <2>2, <1>1, <1>2 DEF Goto
    <3>2. CASE s # on[d]
      BY <3>2, <2>2, <1>1, <1>2 DEF Goto, Holding
    <3>. QED BY <3>1, <3>2
  <2>. QED BY <2>1, <2>2 DEF Holding
<1>. QED BY <1>2, <1>3, <1>4

-----------------------------------------------------------------------------
(* A drain leaves, whatever it last did to the row and the latches.        *)
LEMMA LeavingTypes ==
  ASSUME TInv, NEW d \in Drain, pc[d] # "idle",
         \E how \in {"success", "failed", "latched"} : End(d, how),
         jwt' \in {0, jwt}, spent' \subseteq spent \union {jwt, token[d]},
         0 \notin spent', faults' \in 0 .. MaxFaults,
         stale' \in [Syncer -> BOOLEAN], distrusted' \in [Syncer -> BOOLEAN],
         UNCHANGED <<server, saved, runtime, made, password, source>>
  PROVE  TInv'
<1>. USE DrainAuthAssumption DEF TInv, TypeOK, server
<1>1. /\ mutex' \in [Syncer -> Drain \union {None}]
      /\ pc' \in [Drain -> Step] /\ on' \in [Drain -> 0 .. made]
      /\ token' \in [Drain -> 0 .. tokens]
      /\ recovered' \in [Drain -> BOOLEAN]
      /\ ended' \in [Drain -> {"none", "success", "failed", "latched"}]
      /\ Running' /\ Holding' /\ Carrying'
  BY Leaving
<1>2. Mutexes'
  BY <1>1, MutexesHold
<1>3. jwt' \in 0 .. tokens' /\ spent' \subseteq 1 .. tokens'
  OBVIOUS
<1>. QED BY <1>1, <1>2, <1>3

LEMMA StartTypes ==
  ASSUME TInv, NEW d \in Drain, Start(d)
  PROVE  TInv'
<1>. USE DrainAuthAssumption DEF TInv, TypeOK, Start, server, history, syncers
<1>. DEFINE p == Home[d]
<1>1. p \in Process
  OBVIOUS
<1>2. /\ made' \in 0 .. MaxSyncers /\ made' >= made
      /\ runtime' \in [Process -> 0 .. made']
      /\ password' \in [Syncer -> 0 .. saved]
      /\ stale' = stale /\ distrusted' = distrusted
      /\ on'[d] \in 1 .. made' /\ on' \in [Drain -> 0 .. made']
      /\ \A e \in Drain : e # d => on'[e] = on[e]
  <2>1. CASE Keeps(p)
    BY <2>1, <1>1 DEF Keeps
  <2>2. CASE ~Keeps(p)
    <3>1. /\ made' = made + 1 /\ made < MaxSyncers
          /\ on' = [on EXCEPT ![d] = made']
          /\ runtime' = [runtime EXCEPT ![p] = made']
          /\ password' = [password EXCEPT ![made'] = saved]
          /\ stale' = stale /\ distrusted' = distrusted
      BY <2>2
    <3>2. made' \in 1 .. MaxSyncers /\ saved \in 0 .. saved
      BY <3>1
    <3>3. password' \in [Syncer -> 0 .. saved]
      BY <3>1, <3>2 DEF Syncer
    <3>4. runtime' \in [Process -> 0 .. made']
      BY <3>1, <3>2, <1>1
    <3>. QED BY <3>1, <3>2, <3>3, <3>4
  <2>. QED BY <2>1, <2>2
<1>3. pc[d] = "idle" /\ pc' = [pc EXCEPT ![d] = "token"] /\ mutex' = mutex
  OBVIOUS
<1>4. pc' \in [Drain -> Step] /\ pc'[d] = "token"
  BY <1>3 DEF Step
<1>5. Running'
  BY <1>2, <1>3, <1>4 DEF Running
<1>6. Holding'
  <2>1. ASSUME NEW s \in Syncer PROVE mutex[s] # d
    BY <1>3, DrainAuthAssumption DEF Holding, Inside
  <2>. QED BY <2>1, <1>2, <1>3, <1>4 DEF Holding, Inside
<1>7. Mutexes'
  BY <1>2, <1>4, <1>5, <1>6, MutexesHold
<1>8. source' \in [Token -> 0 .. made'] /\ Carrying'
  BY <1>2, <1>3 DEF Carrying
<1>. QED BY <1>2, <1>3, <1>4, <1>5, <1>6, <1>7, <1>8

(* A killed process takes its drains with it, and they their mutexes.      *)
LEMMA RestartTypes ==
  ASSUME TInv, NEW p \in Process, Restart(p)
  PROVE  TInv'
<1>. USE DrainAuthAssumption DEF TInv, TypeOK, server, history
<1>. DEFINE gone == {d \in Drain : Home[d] = p}
<1>1. /\ runtime' \in [Process -> 0 .. made] /\ faults' \in 0 .. MaxFaults
      /\ UNCHANGED <<server, saved, jwt, made, password, stale, distrusted, ended,
                     history>>
  BY DEF Restart, Fault
<1>2. CASE UNCHANGED <<mutex, pc, on, token, recovered>>
  <2>1. Running' /\ Holding' /\ Mutexes'
    BY <1>1, <1>2, DrainsUnchanged
  <2>. QED BY <1>1, <1>2, <2>1 DEF Carrying
<1>3. CASE /\ pc' = [d \in Drain |-> IF d \in gone THEN "idle" ELSE pc[d]]
           /\ on' = [d \in Drain |-> IF d \in gone THEN 0 ELSE on[d]]
           /\ token' = [d \in Drain |-> IF d \in gone THEN 0 ELSE token[d]]
           /\ recovered' = [d \in Drain |-> d \notin gone /\ recovered[d]]
           /\ mutex' = [s \in Syncer |-> IF mutex[s] \in gone THEN None ELSE mutex[s]]
  <2>1. /\ pc' \in [Drain -> Step] /\ on' \in [Drain -> 0 .. made]
        /\ token' \in [Drain -> 0 .. tokens] /\ recovered' \in [Drain -> BOOLEAN]
        /\ mutex' \in [Syncer -> Drain \union {None}]
    BY <1>3 DEF Step
  <2>2. Running'
    BY <1>3 DEF Running
  <2>3. Holding'
    <3>1. ASSUME NEW e \in Drain, pc'[e] \in Inside PROVE mutex'[on'[e]] = e
      <4>1. e \notin gone /\ pc[e] \in Inside /\ on'[e] = on[e] /\ pc[e] # "idle"
        BY <3>1, <1>3 DEF Inside
      <4>2. mutex[on[e]] = e /\ on[e] \in Syncer
        BY <4>1, OnSyncer DEF Holding
      <4>. QED BY <4>1, <4>2, <1>3
    <3>2. ASSUME NEW s \in Syncer, NEW e \in Drain, mutex'[s] = e
          PROVE  on'[e] = s /\ pc'[e] \in Inside
      BY <3>2, <1>3, DrainAuthAssumption DEF Holding
    <3>. QED BY <3>1, <3>2 DEF Holding
  <2>4. Mutexes'
    BY <1>1, <2>1, <2>2, <2>3, MutexesHold
  <2>5. Carrying'
    BY <1>3 DEF Carrying
  <2>. QED BY <1>1, <2>1, <2>2, <2>3, <2>4, <2>5
<1>. QED BY <1>2, <1>3 DEF Restart

(* The steps that end a drain.                                             *)
LEMMA EndingTypes ==
  ASSUME TInv, NEW d \in Drain,
         LoginFails(d) \/ StoreFails(d) \/ Denied(d) \/ Reject(d)
           \/ ClearFails(d) \/ Finish(d) \/ CallFails(d)
  PROVE  TInv'
<1>1. pc[d] # "idle"
  BY DEF LoginFails, StoreFails, Denied, Reject, ClearFails, Finish, CallFails
<1>2. jwt \in Nat /\ token[d] \in Nat /\ spent \subseteq Nat \ {0}
      /\ faults \in 0 .. MaxFaults
  BY DrainAuthAssumption DEF TInv, TypeOK
<1>3. CASE LoginFails(d) \/ ClearFails(d) \/ Finish(d) \/ CallFails(d)
  <2>1. /\ \E how \in {"success", "failed", "latched"} : End(d, how)
        /\ faults' \in 0 .. MaxFaults
        /\ UNCHANGED <<server, saved, jwt, syncers, history>>
    BY <1>2, <1>3, DrainAuthAssumption
    DEF LoginFails, ClearFails, Finish, CallFails, Fault, NoFault
  <2>. QED BY <2>1, <1>1, <1>2, LeavingTypes DEF TInv, TypeOK, syncers, history
<1>4. CASE StoreFails(d)
  <2>1. /\ End(d, "failed") /\ faults' \in 0 .. MaxFaults
        /\ spent' = spent \union {token[d]}
        /\ UNCHANGED <<server, saved, jwt, syncers, source>>
    BY <1>2, <1>4, DrainAuthAssumption DEF StoreFails, Fault
  <2>2. token[d] # 0
    BY <1>4 DEF TInv, Carrying, StoreFails
  <2>. QED BY <2>1, <2>2, <1>1, <1>2, LeavingTypes DEF TInv, TypeOK, syncers
<1>5. CASE Denied(d) \/ Reject(d)
  <2>1. /\ End(d, "latched") /\ faults' = faults /\ jwt' = 0
        /\ spent' \subseteq spent \union {jwt} /\ 0 \notin spent'
        /\ UNCHANGED <<server, saved, runtime, made, password, source>>
    BY <1>2, <1>5 DEF Denied, Reject, ClearJWT, NoFault, Taken, syncers
  <2>2. stale' \in [Syncer -> BOOLEAN] /\ distrusted' \in [Syncer -> BOOLEAN]
    BY <1>5 DEF Denied, Reject, TInv, TypeOK
  <2>. QED BY <2>1, <2>2, <1>1, <1>2, LeavingTypes
<1>. QED BY <1>3, <1>4, <1>5

(* A drain that has stored its token, or another drain's step, lets go of  *)
(* the mutex and goes on.                                                  *)
LEMMA Releasing ==
  ASSUME TInv, NEW d \in Drain, NEW step \in Step, Goto(d, step),
         pc[d] \in Inside, step \notin Inside \union {"idle"},
         mutex' = Released(d)
  PROVE  /\ pc' \in [Drain -> Step] /\ on' = on /\ ended' = ended
         /\ mutex' \in [Syncer -> Drain \union {None}]
         /\ Running' /\ Holding'
<1>. USE DrainAuthAssumption DEF TInv, TypeOK
<1>1. /\ pc' \in [Drain -> Step] /\ on' = on /\ ended' = ended
      /\ mutex' \in [Syncer -> Drain \union {None}]
      /\ pc' = [pc EXCEPT ![d] = step]
  BY DEF Goto, Released
<1>2. \A s \in Syncer : mutex'[s] = IF mutex[s] = d THEN None ELSE mutex[s]
  BY DEF Released
<1>3. Running'
  BY <1>1 DEF Running, Inside
<1>4. Holding'
  <2>1. ASSUME NEW e \in Drain, pc'[e] \in Inside PROVE mutex'[on'[e]] = e
    <3>1. e # d /\ pc[e] \in Inside /\ pc[e] # "idle"
      BY <2>1, <1>1 DEF Inside
    <3>2. mutex[on[e]] = e /\ on[e] \in Syncer
      BY <3>1, OnSyncer DEF Holding
    <3>. QED BY <3>1, <3>2, <1>1, <1>2
  <2>2. ASSUME NEW s \in Syncer, NEW e \in Drain, mutex'[s] = e
        PROVE  on'[e] = s /\ pc'[e] \in Inside
    BY <2>2, <1>1, <1>2 DEF Holding
  <2>. QED BY <2>1, <2>2 DEF Holding
<1>. QED BY <1>1, <1>3, <1>4

(* What is left to show of a drain that goes on.                           *)
LEMMA GoneOn ==
  ASSUME TInv, pc' \in [Drain -> Step], on' = on, ended' = ended,
         mutex' \in [Syncer -> Drain \union {None}], Running', Holding', Carrying',
         token' \in [Drain -> 0 .. tokens'], recovered' \in [Drain -> BOOLEAN],
         tokens' \in tokens .. MaxTokens, stamp' \in [Token -> 0 .. version],
         source' \in [Token -> 0 .. made], jwt' \in 0 .. tokens,
         spent' \subseteq 1 .. tokens, faults' = faults,
         UNCHANGED <<inbox, version, active, saved, runtime, made, password,
                     stale, distrusted>>
  PROVE  TInv'
<1>. USE DrainAuthAssumption DEF TInv, TypeOK
<1>1. Mutexes'
  BY MutexesHold
<1>. QED BY <1>1

(* The row's token is one that was issued.                                 *)
LEMMA TakenTokens ==
  ASSUME TInv, NEW s
  PROVE  /\ tokens \in Nat /\ tokens <= MaxTokens /\ jwt \in 0 .. tokens
         /\ spent \union Taken(s) \subseteq 1 .. tokens
<1>1. tokens \in Nat /\ tokens <= MaxTokens /\ jwt \in 0 .. tokens
      /\ spent \subseteq 1 .. tokens
  BY DrainAuthAssumption DEF TInv, TypeOK
<1>2. ASSUME NEW t \in Taken(s) PROVE t \in 1 .. tokens
  <2>1. t = jwt /\ t # 0
    BY DEF Taken
  <2>. QED BY <2>1, <1>1
<1>. QED BY <1>1, <1>2

LEMMA GetTokenTypes ==
  ASSUME TInv, NEW d \in Drain, GetToken(d)
  PROVE  TInv'
<1>. DEFINE s == on[d]
<1>1. /\ pc[d] = "token" /\ Free(s) /\ NoFault
      /\ UNCHANGED <<server, saved, jwt, syncers, history>>
  BY DEF GetToken
<1>2. CASE End(d, "latched")
  BY <1>1, <1>2, LeavingTypes, DrainAuthAssumption
  DEF TInv, TypeOK, NoFault, syncers, history
<1>3. CASE /\ jwt # 0 /\ token' = [token EXCEPT ![d] = jwt]
           /\ Goto(d, "inbox") /\ UNCHANGED <<mutex, recovered>>
  <2>1. pc' \in [Drain -> Step] /\ on' = on /\ ended' = ended /\ Running' /\ Holding'
    BY <1>1, <1>3, GoingOn DEF Inside, Step
  <2>2. Carrying' /\ token' \in [Drain -> 0 .. tokens] /\ recovered' = recovered
    BY <1>3 DEF Carrying, Goto, TInv, TypeOK
  <2>. QED BY <2>1, <2>2, <1>1, <1>3, GoneOn, DrainAuthAssumption
       DEF TInv, TypeOK, server, history, syncers, NoFault
<1>4. CASE /\ mutex' = [mutex EXCEPT ![s] = d]
           /\ Goto(d, "login") /\ UNCHANGED <<token, recovered>>
  <2>1. /\ pc' \in [Drain -> Step] /\ on' = on /\ ended' = ended /\ Running' /\ Holding'
        /\ mutex' \in [Syncer -> Drain \union {None}]
    BY <1>1, <1>4, Entering DEF Inside
  <2>2. Carrying'
    BY <1>4 DEF Carrying, Goto, TInv, TypeOK
  <2>. QED BY <2>1, <2>2, <1>1, <1>4, GoneOn, DrainAuthAssumption
       DEF TInv, TypeOK, server, history, syncers, NoFault
<1>. QED BY <1>2, <1>3, <1>4 DEF GetToken

LEMMA RecoverTypes ==
  ASSUME TInv, NEW d \in Drain, Recover(d)
  PROVE  TInv'
<1>. DEFINE s == on[d]
<1>1. /\ pc[d] = "recover" /\ Free(s) /\ NoFault
      /\ UNCHANGED <<server, saved, jwt, syncers, history>>
  BY DEF Recover
<1>2. CASE End(d, "latched")
  BY <1>1, <1>2, LeavingTypes, DrainAuthAssumption
  DEF TInv, TypeOK, NoFault, syncers, history
<1>3. CASE /\ Replacement(d) /\ token' = [token EXCEPT ![d] = jwt]
           /\ Goto(d, "sync") /\ UNCHANGED <<mutex, recovered>>
  <2>1. pc' \in [Drain -> Step] /\ on' = on /\ ended' = ended /\ Running' /\ Holding'
    BY <1>1, <1>3, GoingOn DEF Inside, Step
  <2>2. Carrying' /\ token' \in [Drain -> 0 .. tokens] /\ recovered' = recovered
    BY <1>3 DEF Carrying, Goto, TInv, TypeOK, Replacement
  <2>. QED BY <2>1, <2>2, <1>1, <1>3, GoneOn, DrainAuthAssumption
       DEF TInv, TypeOK, server, history, syncers, NoFault
<1>4. CASE /\ mutex' = [mutex EXCEPT ![s] = d]
           /\ Goto(d, "clear") /\ UNCHANGED <<token, recovered>>
  <2>1. /\ pc' \in [Drain -> Step] /\ on' = on /\ ended' = ended /\ Running' /\ Holding'
        /\ mutex' \in [Syncer -> Drain \union {None}]
    BY <1>1, <1>4, Entering DEF Inside
  <2>2. Carrying'
    BY <1>4 DEF Carrying, Goto, TInv, TypeOK
  <2>. QED BY <2>1, <2>2, <1>1, <1>4, GoneOn, DrainAuthAssumption
       DEF TInv, TypeOK, server, history, syncers, NoFault
<1>. QED BY <1>2, <1>3, <1>4 DEF Recover

LEMMA LoginTypes ==
  ASSUME TInv, NEW d \in Drain, LoginGranted(d) \/ LoginDenied(d)
  PROVE  TInv'
<1>1. pc' \in [Drain -> Step] /\ on' = on /\ ended' = ended /\ Running' /\ Holding'
  BY GoingOn DEF LoginGranted, LoginDenied, Inside, Step
<1>2. CASE LoginGranted(d)
  <2>1. tokens' = tokens + 1 /\ tokens' \in tokens .. MaxTokens
        /\ tokens' \in 0 .. tokens' /\ tokens' # 0 /\ 0 .. tokens \subseteq 0 .. tokens'
    BY <1>2, DrainAuthAssumption DEF LoginGranted, TInv, TypeOK
  <2>. /\ on[d] \in 0 .. made /\ version \in 0 .. version
       /\ stamp \in [Token -> 0 .. version] /\ source \in [Token -> 0 .. made]
    BY DrainAuthAssumption DEF TInv, TypeOK
  <2>2. stamp' \in [Token -> 0 .. version] /\ source' \in [Token -> 0 .. made]
    BY <1>2 DEF LoginGranted
  <2>3. token' \in [Drain -> 0 .. tokens'] /\ Carrying'
    BY <1>2, <2>1 DEF LoginGranted, TInv, TypeOK, Carrying, Goto
  <2>. QED BY <1>1, <1>2, <2>1, <2>2, <2>3, GoneOn
       DEF LoginGranted, TInv, TypeOK, syncers, NoFault
<1>3. CASE LoginDenied(d)
  <2>1. Carrying'
    BY <1>3 DEF LoginDenied, TInv, TypeOK, Carrying, Goto
  <2>. QED BY <1>1, <1>3, <2>1, GoneOn, DrainAuthAssumption
       DEF LoginDenied, TInv, TypeOK, server, history, syncers, NoFault
<1>. QED BY <1>2, <1>3

LEMMA StoreTypes ==
  ASSUME TInv, NEW d \in Drain, Store(d)
  PROVE  TInv'
<1>. DEFINE step == IF recovered[d] THEN "sync" ELSE "inbox"
<1>1. step \in Step /\ step \notin Inside \union {"idle"} /\ pc[d] \in Inside
  BY DEF Step, Inside, Store
<1>2. /\ pc' \in [Drain -> Step] /\ on' = on /\ ended' = ended /\ Running' /\ Holding'
      /\ mutex' \in [Syncer -> Drain \union {None}]
  BY <1>1, Releasing DEF Store
<1>3. Carrying'
  BY DEF Store, Carrying, Goto, TInv, TypeOK
<1>4. jwt' \in 0 .. tokens /\ spent' \subseteq 1 .. tokens
  BY TakenTokens DEF Store, TInv, TypeOK
<1>. QED BY <1>2, <1>3, <1>4, GoneOn, DrainAuthAssumption
     DEF Store, TInv, TypeOK, server, syncers, NoFault

LEMMA ClearTypes ==
  ASSUME TInv, NEW d \in Drain, Clear(d)
  PROVE  TInv'
<1>1. pc' \in [Drain -> Step] /\ on' = on /\ ended' = ended /\ Running' /\ Holding'
  BY GoingOn DEF Clear, Inside, Step
<1>2. Carrying'
  BY DEF Clear, ClearJWT, Carrying, Goto, TInv, TypeOK
<1>3. jwt' \in 0 .. tokens /\ spent' \subseteq 1 .. tokens
  BY TakenTokens DEF Clear, ClearJWT
<1>. QED BY <1>1, <1>2, <1>3, GoneOn, DrainAuthAssumption
     DEF Clear, ClearJWT, TInv, TypeOK, server, syncers, NoFault

LEMMA CallTypes ==
  ASSUME TInv, NEW d \in Drain, PollInbox(d) \/ Unauthorized(d)
  PROVE  TInv'
<1>1. /\ pc[d] \in {"inbox", "sync"} /\ token[d] \in 1 .. tokens /\ NoFault
      /\ UNCHANGED <<server, saved, jwt, syncers, source>>
  BY DrainAuthAssumption DEF PollInbox, Unauthorized, TInv, TypeOK, Carrying
<1>2. /\ token[d] \in Nat \ {0} /\ spent \subseteq 1 .. tokens
      /\ faults' = faults /\ tokens \in tokens .. MaxTokens
  BY <1>1, DrainAuthAssumption DEF TInv, TypeOK, NoFault
<1>3. CASE End(d, "failed") /\ spent' = spent \union {token[d]}
  BY <1>1, <1>2, <1>3, LeavingTypes DEF TInv, TypeOK, syncers
<1>4. CASE PollInbox(d) /\ Goto(d, "sync")
           /\ UNCHANGED <<mutex, token, recovered, spent>>
  <2>1. pc' \in [Drain -> Step] /\ on' = on /\ ended' = ended /\ Running' /\ Holding'
    BY <1>1, <1>4, GoingOn DEF Inside, Step
  <2>2. Carrying'
    BY <1>1, <1>4 DEF Carrying, Goto, TInv, TypeOK
  <2>. QED BY <2>1, <2>2, <1>1, <1>2, <1>4, GoneOn
       DEF TInv, TypeOK, server, syncers
<1>5. CASE Unauthorized(d)
  <2>. DEFINE step == IF recovered[d] THEN "reject" ELSE "recover"
  <2>1. step \in Step /\ Goto(d, step) /\ step \notin Inside \union {"idle"}
    BY <1>5 DEF Unauthorized, Step, Inside
  <2>2. pc' \in [Drain -> Step] /\ on' = on /\ ended' = ended /\ Running' /\ Holding'
    BY <1>1, <1>5, <2>1, GoingOn DEF Unauthorized, Inside
  <2>3. /\ recovered' \in [Drain -> BOOLEAN] /\ Carrying' /\ token' = token
        /\ spent' \subseteq 1 .. tokens /\ mutex' = mutex
    BY <1>1, <1>2, <1>5 DEF Unauthorized, TInv, TypeOK, Carrying, Goto
  <2>. QED BY <2>2, <2>3, <1>1, <1>2, GoneOn DEF TInv, TypeOK, server, syncers
<1>. QED BY <1>3, <1>4, <1>5 DEF PollInbox

-----------------------------------------------------------------------------
LEMMA TypeStep ==
  ASSUME TInv, [Next]_vars
  PROVE  TInv'
<1>1. CASE UNCHANGED vars
  BY <1>1 DEF vars, server, syncers, history, TInv, TypeOK, Running, Holding,
              Carrying, Mutexes
<1>2. CASE Next
  BY <1>2, Steps, ServerTypes, RestartTypes, StartTypes, EndingTypes,
     GetTokenTypes, RecoverTypes, LoginTypes, StoreTypes, ClearTypes, CallTypes
<1>. QED BY <1>1, <1>2

LEMMA TypesHold == Spec => []TInv
BY TypeInit, TypeStep, PTL DEF Spec

(* Every variable has its type, and whoever is inside a Syncer's mutex,    *)
(* and nobody else, holds it: no two drains of a Syncer log in at a time   *)
(* (authMu of syncer.go).                                                  *)
THEOREM TypeCorrect == Spec => []TypeOK
BY TypesHold, PTL DEF TInv

-----------------------------------------------------------------------------
(* A latch is set by the drain inside the mutex, or while nobody is.       *)
LEMMA LatchedStep ==
  ASSUME TInv, LatchedNeverLogsIn, [Next]_vars
  PROVE  LatchedNeverLogsIn'
<1>. SUFFICES ASSUME NEW e \in Drain, pc'[e] \in {"clear", "login"}, Latched(on[e])'
              PROVE  FALSE
  BY DEF LatchedNeverLogsIn
<1>. USE DEF TInv, TypeOK
<1>1. CASE /\ UNCHANGED <<stale, distrusted>>
           /\ pc'[e] = pc[e] /\ on'[e] = on[e]
  BY <1>1 DEF LatchedNeverLogsIn, Latched
<1>2. CASE UNCHANGED vars
  BY <1>1, <1>2 DEF vars, syncers
<1>3. CASE ChangePassword \/ SavePassword \/ Expire \/ \E a \in BOOLEAN : SetActive(a)
  BY <1>1, <1>3 DEF ChangePassword, SavePassword, Expire, SetActive, syncers
<1>4. CASE \E p \in Process : Restart(p)
  BY <1>1, <1>4 DEF Restart
<1>5. ASSUME NEW d \in Drain, Start(d) PROVE FALSE
  BY <1>1, <1>5 DEF Start, syncers
<1>6. ASSUME NEW d \in Drain, GetToken(d) \/ Recover(d) PROVE FALSE
  <2>1. stale' = stale /\ distrusted' = distrusted
    BY <1>6 DEF GetToken, Recover, syncers
  <2>2. e = d
    BY <1>1, <1>6, <2>1 DEF GetToken, Recover, Goto, End
  <2>3. ~Latched(on[d]) /\ on'[d] = on[d]
    BY <1>6, <2>2 DEF GetToken, Recover, Goto, End
  <2>. QED BY <2>1, <2>2, <2>3 DEF Latched
<1>7. ASSUME NEW d \in Drain, Denied(d) \/ Reject(d) PROVE FALSE
  <2>1. e # d /\ pc[e] \in {"clear", "login"} /\ on'[e] = on[e]
    BY <1>7 DEF Denied, Reject, End
  <2>2. pc[d] # "idle" /\ (pc[d] \in Inside \/ Free(on[d]))
    BY <1>7 DEF Denied, Reject, Inside
  <2>3. on[e] # on[d]
    BY <2>1, <2>2, OneInside, FreeOfDrains DEF Inside
  <2>4. /\ \A s \in Syncer \ {on[d]} : stale'[s] = stale[s] /\ distrusted'[s] = distrusted[s]
        /\ on[e] \in Syncer
    BY <1>7, <2>1, OnSyncer DEF Denied, Reject
  <2>5. Latched(on[e])
    BY <2>1, <2>3, <2>4 DEF Latched
  <2>. QED BY <2>1, <2>5 DEF LatchedNeverLogsIn
<1>8. ASSUME NEW d \in Drain, Clear(d) PROVE FALSE
  <2>1. stale' = stale /\ distrusted' = distrusted /\ on' = on
    BY <1>8 DEF Clear, Goto, syncers
  <2>2. e = d /\ pc[d] = "clear"
    BY <1>1, <1>8, <2>1 DEF Clear, Goto
  <2>. QED BY <2>1, <2>2 DEF Latched, LatchedNeverLogsIn
<1>9. ASSUME NEW d \in Drain,
             LoginGranted(d) \/ LoginDenied(d) \/ Store(d) \/ PollInbox(d)
               \/ Unauthorized(d)
      PROVE  FALSE
  <2>1. e # d
    BY <1>9 DEF LoginGranted, LoginDenied, Store, PollInbox, Unauthorized, Goto, End
  <2>2. /\ UNCHANGED <<stale, distrusted>>
        /\ pc'[e] = pc[e] /\ on'[e] = on[e]
    BY <1>9, <2>1
    DEF LoginGranted, LoginDenied, Store, PollInbox, Unauthorized, Goto, End, syncers
  <2>. QED BY <1>1, <2>2
<1>10. ASSUME NEW d \in Drain,
              LoginFails(d) \/ StoreFails(d) \/ ClearFails(d) \/ Finish(d)
                \/ CallFails(d)
       PROVE  FALSE
  <2>1. e # d
    BY <1>10 DEF LoginFails, StoreFails, ClearFails, Finish, CallFails, End
  <2>2. /\ UNCHANGED <<stale, distrusted>>
        /\ pc'[e] = pc[e] /\ on'[e] = on[e]
    BY <1>10, <2>1
    DEF LoginFails, StoreFails, ClearFails, Finish, CallFails, End, syncers
  <2>. QED BY <1>1, <2>2
<1>. QED BY <1>2, <1>3, <1>4, <1>5, <1>6, <1>7, <1>8, <1>9, <1>10, Steps

(* No drain of a latched Syncer is about to send its credentials, whoever   *)
(* waited for the mutex when the latch was set: getOrRefreshToken and       *)
(* recoverCachedToken look at the latches inside authMu (syncer.go:1588).   *)
(* This is of one Syncer; LatchFinal says when its process makes another.   *)
THEOREM LatchedNever == Spec => []LatchedNeverLogsIn
<1>1. Init => LatchedNeverLogsIn
  BY DEF Init, LatchedNeverLogsIn
<1>2. TInv /\ LatchedNeverLogsIn /\ [Next]_vars => LatchedNeverLogsIn'
  BY LatchedStep
<1>. QED BY <1>1, <1>2, TypesHold, PTL DEF Spec

-----------------------------------------------------------------------------
(* One session.  The tokens of a Syncer that are still of use:             *)
Live(s) == {t \in (1 .. tokens) \ spent : source[t] = s}

(* A Syncer that nothing can run on any more.                              *)
Dead(s) == (\A d \in Drain : on[d] # s) /\ (\A p \in Process : runtime[p] # s)

(* A Syncer belongs to one process.                                        *)
Homes ==
  /\ \A d, e \in Drain : on[d] = on[e] /\ on[d] # 0 => Home[d] = Home[e]
  /\ \A p \in Process, d \in Drain : runtime[p] = on[d] /\ on[d] # 0 => Home[d] = p
  /\ \A p, q \in Process : runtime[p] = runtime[q] /\ runtime[p] # 0 => p = q

Given ==
  \A d \in Drain :
    /\ pc[d] = "store" => source[token[d]] = on[d]
    /\ pc[d] \in {"recover", "clear"} => token[d] \in spent

(* What the drain inside the mutex may count on.                           *)
NothingLost ==
  \A d \in Drain :
    /\ pc[d] \in {"login", "denied"} => Live(on[d]) = {}
    /\ pc[d] = "store" => Live(on[d]) \subseteq {token[d]}
    /\ pc[d] = "clear" => jwt \notin Live(on[d])

(* Where a live token is.                                                  *)
Storing(s, t) == \E d \in Drain : pc[d] = "store" /\ on[d] = s /\ token[d] = t
Accounted ==
  \A s \in Syncer : \A t \in Live(s) :
    jwt = t \/ Storing(s, t) \/ Latched(s) \/ Dead(s)

SInv == /\ TInv /\ LatchedNeverLogsIn /\ Homes /\ Given /\ NothingLost
        /\ Accounted /\ OneLiveToken

(* Only a login changes who was given which token.                         *)
LEMMA OnlyLogins ==
  ASSUME Next, source' # source
  PROVE  \E d \in Drain : LoginGranted(d)
<1>1. ~(ChangePassword \/ SavePassword \/ Expire \/ \E a \in BOOLEAN : SetActive(a)
        \/ \E p \in Process : Restart(p))
  BY DEF ChangePassword, SavePassword, Expire, SetActive, Restart, history
<1>2. ASSUME NEW d \in Drain,
             GetToken(d) \/ Recover(d) \/ Reject(d) \/ Start(d) \/ LoginDenied(d)
               \/ LoginFails(d) \/ Store(d) \/ StoreFails(d) \/ Denied(d)
               \/ Clear(d) \/ ClearFails(d) \/ PollInbox(d) \/ Finish(d)
               \/ Unauthorized(d) \/ CallFails(d)
      PROVE  FALSE
  BY <1>2 DEF GetToken, Recover, Reject, Start, LoginDenied, LoginFails, Store,
              StoreFails, Denied, Clear, ClearFails, ClearJWT, PollInbox, Finish,
              Unauthorized, CallFails, history
<1>. QED BY <1>1, <1>2, Steps

(* Only a restart or a new run of a drain moves it to another Syncer.      *)
LEMMA Staying ==
  ASSUME TInv, Next, ~\E d \in Drain : Start(d), ~\E p \in Process : Restart(p)
  PROVE  runtime' = runtime /\ made' = made
         /\ \A e \in Drain : on'[e] \in {on[e], 0}
<1>. USE DEF TInv, TypeOK
<1>1. CASE ChangePassword \/ SavePassword \/ Expire \/ \E a \in BOOLEAN : SetActive(a)
  BY <1>1 DEF ChangePassword, SavePassword, Expire, SetActive, syncers
<1>2. ASSUME NEW d \in Drain,
             GetToken(d) \/ Recover(d) \/ Reject(d) \/ LoginGranted(d)
               \/ LoginDenied(d) \/ LoginFails(d) \/ Store(d)
      PROVE  runtime' = runtime /\ made' = made
             /\ \A e \in Drain : on'[e] \in {on[e], 0}
  BY <1>2 DEF GetToken, Recover, Reject, LoginGranted, LoginDenied, LoginFails,
              Store, End, Goto, syncers
<1>3. ASSUME NEW d \in Drain,
             StoreFails(d) \/ Denied(d) \/ Clear(d) \/ ClearFails(d)
               \/ PollInbox(d) \/ Finish(d) \/ Unauthorized(d) \/ CallFails(d)
      PROVE  runtime' = runtime /\ made' = made
             /\ \A e \in Drain : on'[e] \in {on[e], 0}
  BY <1>3 DEF StoreFails, Denied, Clear, ClearFails, PollInbox, Finish,
              Unauthorized, CallFails, End, Goto, syncers
<1>. QED BY <1>1, <1>2, <1>3, Steps

LEMMA HomesStep ==
  ASSUME TInv, Homes, Next
  PROVE  Homes'
<1>. USE DrainAuthAssumption DEF TInv, TypeOK, Homes
<1>1. CASE /\ ~\E d \in Drain : Start(d)
          /\ ~\E p \in Process : Restart(p)
  BY <1>1, Staying
<1>2. ASSUME NEW d \in Drain, Start(d) PROVE Homes'
  <2>. DEFINE p == Home[d]
  <2>. p \in Process
    OBVIOUS
  <2>1. CASE Keeps(p)
    <3>1. on' = [on EXCEPT ![d] = runtime[p]] /\ runtime' = runtime
      BY <1>2, <2>1 DEF Start, syncers
    <3>. QED BY <3>1
  <2>2. CASE ~Keeps(p)
    <3>1. /\ on' = [on EXCEPT ![d] = made + 1]
          /\ runtime' = [runtime EXCEPT ![p] = made + 1]
      BY <1>2, <2>2 DEF Start
    <3>2. /\ \A e \in Drain : on[e] # made + 1
          /\ \A q \in Process : runtime[q] # made + 1
          /\ made + 1 # 0
      OBVIOUS
    <3>. QED BY <3>1, <3>2
  <2>. QED BY <2>1, <2>2
<1>3. ASSUME NEW p \in Process, Restart(p) PROVE Homes'
  <2>1. \A q \in Process : runtime'[q] \in {runtime[q], 0}
    BY <1>3 DEF Restart
  <2>2. \A e \in Drain : on'[e] \in {on[e], 0}
    BY <1>3 DEF Restart
  <2>. QED BY <2>1, <2>2
<1>. QED BY <1>1, <1>2, <1>3

(* A dead Syncer stays dead: a new one has a new number.                   *)
LEMMA DeadStays ==
  ASSUME TInv, Next, NEW s \in 1 .. made, Dead(s)
  PROVE  Dead(s)'
<1>. USE DrainAuthAssumption DEF TInv, TypeOK, Dead
<1>1. CASE /\ ~\E d \in Drain : Start(d)
          /\ ~\E p \in Process : Restart(p)
  BY <1>1, Staying
<1>2. ASSUME NEW d \in Drain, Start(d) PROVE Dead(s)'
  <2>. DEFINE p == Home[d]
  <2>. p \in Process /\ s # made + 1
    OBVIOUS
  <2>1. CASE Keeps(p)
    <3>1. on' = [on EXCEPT ![d] = runtime[p]] /\ runtime' = runtime
      BY <1>2, <2>1 DEF Start, syncers
    <3>. QED BY <3>1
  <2>2. CASE ~Keeps(p)
    <3>1. /\ on' = [on EXCEPT ![d] = made + 1]
          /\ runtime' = [runtime EXCEPT ![p] = made + 1]
      BY <1>2, <2>2 DEF Start
    <3>. QED BY <3>1
  <2>. QED BY <2>1, <2>2
<1>3. ASSUME NEW p \in Process, Restart(p) PROVE Dead(s)'
  <2>1. \A q \in Process : runtime'[q] \in {runtime[q], 0}
    BY <1>3 DEF Restart
  <2>2. \A e \in Drain : on'[e] \in {on[e], 0}
    BY <1>3 DEF Restart
  <2>. QED BY <2>1, <2>2
<1>. QED BY <1>1, <1>2, <1>3

(* Latches are never lifted.                                               *)
LEMMA LatchedStays ==
  ASSUME TInv, Next, NEW s \in Syncer, Latched(s)
  PROVE  Latched(s)'
<1>. USE DEF TInv, TypeOK, Latched
<1>1. CASE \/ ChangePassword \/ SavePassword \/ Expire
           \/ \E a \in BOOLEAN : SetActive(a)
           \/ \E p \in Process : Restart(p)
           \/ \E d \in Drain : Start(d)
  BY <1>1 DEF ChangePassword, SavePassword, Expire, SetActive, Restart, Start, syncers
<1>2. ASSUME NEW d \in Drain,
             GetToken(d) \/ Recover(d) \/ Reject(d) \/ LoginGranted(d)
               \/ LoginDenied(d) \/ LoginFails(d) \/ Store(d)
      PROVE  Latched(s)'
  BY <1>2 DEF GetToken, Recover, Reject, LoginGranted, LoginDenied, LoginFails,
              Store, syncers
<1>3. ASSUME NEW d \in Drain,
             StoreFails(d) \/ Denied(d) \/ Clear(d) \/ ClearFails(d)
               \/ PollInbox(d) \/ Finish(d) \/ Unauthorized(d) \/ CallFails(d)
      PROVE  Latched(s)'
  BY <1>3 DEF StoreFails, Denied, Clear, ClearFails, PollInbox, Finish,
              Unauthorized, CallFails, syncers
<1>. QED BY <1>1, <1>2, <1>3, Steps

(* What a step may not do once a Syncer is latched (LatchIsFinal): lift the *)
(* latch, get the Syncer a token, or have its process start another Syncer  *)
(* on the same password.  What remains is a restart, or a configuration     *)
(* that cannot be loaded: the process forgets the Syncer and, with it, that *)
(* the password was rejected (sync_runtime.go:52-78).                       *)
THEOREM LatchFinal == Spec => LatchIsFinal
<1>. DEFINE Final(s) ==
       /\ Latched(s)' /\ GivenTo(s)' \subseteq GivenTo(s)
       /\ \A p \in Process :
            runtime[p] = s /\ saved = password[s] => runtime'[p] \in {s, 0}
<1>1. ASSUME TInv, LatchedNeverLogsIn, Next, NEW s \in Syncer, Latched(s)
      PROVE  Final(s)
  <2>1. Latched(s)'
    BY <1>1, LatchedStays
  <2>2. GivenTo(s)' \subseteq GivenTo(s)
    <3>1. CASE source' = source
      BY <3>1 DEF GivenTo
    <3>2. ASSUME NEW d \in Drain, LoginGranted(d)
          PROVE  GivenTo(s)' \subseteq GivenTo(s)
      <4>1. on[d] # s
        BY <1>1, <3>2 DEF LoginGranted, LatchedNeverLogsIn
      <4>2. source' = [source EXCEPT ![tokens'] = on[d]]
            /\ source \in [Token -> 0 .. made]
        BY <1>1, <3>2 DEF LoginGranted, TInv, TypeOK
      <4>3. \A t \in Token : source'[t] = s => source[t] = s
        BY <4>1, <4>2
      <4>. QED BY <4>3 DEF GivenTo
    <3>. QED BY <1>1, <3>1, <3>2, OnlyLogins
  <2>3. ASSUME NEW p \in Process, runtime[p] = s, saved = password[s]
        PROVE  runtime'[p] \in {s, 0}
    <3>1. CASE runtime' = runtime
      BY <2>3, <3>1
    <3>2. ASSUME NEW q \in Process, Restart(q) PROVE runtime'[p] \in {s, 0}
      BY <1>1, <2>3, <3>2 DEF Restart, TInv, TypeOK
    <3>3. ASSUME NEW d \in Drain, Start(d) PROVE runtime'[p] \in {s, 0}
      <4>1. CASE Home[d] = p
        <5>1. Keeps(p)
          BY <1>1, <2>3, DrainAuthAssumption DEF Keeps, Syncer
        <5>. QED BY <2>3, <3>3, <4>1, <5>1 DEF Start, syncers
      <4>2. CASE Home[d] # p
        BY <1>1, <2>3, <3>3, <4>2 DEF Start, syncers, TInv, TypeOK
      <4>. QED BY <4>1, <4>2
    <3>. QED BY <1>1, <3>1, <3>2, <3>3, Staying
  <2>. QED BY <2>1, <2>2, <2>3
<1>2. TInv /\ LatchedNeverLogsIn /\ [Next]_vars
        => [\A s \in Syncer : Latched(s) => Final(s)]_vars
  BY <1>1
<1>. QED BY <1>2, TypesHold, LatchedNever, PTL DEF Spec, LatchIsFinal

-----------------------------------------------------------------------------
(* Tokens are spent for good, and new ones come of logins only.            *)
LEMMA Issuing ==
  ASSUME TInv, Next
  PROVE  /\ spent \subseteq spent'
         /\ \/ \E d \in Drain : LoginGranted(d)
            \/ tokens' = tokens /\ source' = source
<1>1. CASE \/ ChangePassword \/ SavePassword \/ Expire
           \/ \E a \in BOOLEAN : SetActive(a)
           \/ \E p \in Process : Restart(p)
           \/ \E d \in Drain : Start(d)
  BY <1>1 DEF ChangePassword, SavePassword, Expire, SetActive, Restart, Start,
              history, server
<1>2. ASSUME NEW d \in Drain,
             GetToken(d) \/ Recover(d) \/ Reject(d)
               \/ LoginDenied(d) \/ LoginFails(d) \/ Store(d)
      PROVE  spent \subseteq spent' /\ tokens' = tokens /\ source' = source
  BY <1>2 DEF GetToken, Recover, Reject, LoginDenied, LoginFails,
              Store, history, server, ClearJWT
<1>3. ASSUME NEW d \in Drain,
             StoreFails(d) \/ Denied(d) \/ Clear(d) \/ ClearFails(d)
               \/ PollInbox(d) \/ Finish(d) \/ Unauthorized(d) \/ CallFails(d)
      PROVE  spent \subseteq spent' /\ tokens' = tokens /\ source' = source
  BY <1>3 DEF StoreFails, Denied, Clear, ClearFails, PollInbox, Finish,
              Unauthorized, CallFails, history, server, ClearJWT
<1>4. ASSUME NEW d \in Drain, LoginGranted(d) PROVE spent' = spent
  BY <1>4 DEF LoginGranted
<1>. QED BY <1>1, <1>2, <1>3, <1>4, Steps

LEMMA LiveShrinks ==
  ASSUME TInv, Next, NEW s \in Syncer, NEW t \in Live(s)'
  PROVE  \/ t \in Live(s)
         \/ \E d \in Drain : LoginGranted(d) /\ on[d] = s /\ t = tokens + 1
<1>1. CASE tokens' = tokens /\ source' = source
  BY <1>1, Issuing DEF Live
<1>2. ASSUME NEW d \in Drain, LoginGranted(d)
      PROVE  t \in Live(s) \/ (on[d] = s /\ t = tokens + 1)
  <2>1. /\ tokens' = tokens + 1 /\ spent' = spent /\ tokens' \in 1 .. MaxTokens
        /\ source' = [source EXCEPT ![tokens + 1] = on[d]]
        /\ source \in [1 .. MaxTokens -> 0 .. made] /\ tokens \in Nat
    BY <1>2, DrainAuthAssumption DEF LoginGranted, TInv, TypeOK, Token
  <2>2. t \in 1 .. tokens + 1 /\ t \notin spent /\ source'[t] = s
    BY <2>1 DEF Live
  <2>3. CASE t = tokens + 1
    BY <2>1, <2>2, <2>3
  <2>4. CASE t # tokens + 1
    <3>1. t \in 1 .. tokens /\ source[t] = s
      BY <2>1, <2>2, <2>4
    <3>. QED BY <3>1, <2>2 DEF Live
  <2>. QED BY <2>3, <2>4
<1>. QED BY <1>1, <1>2, Issuing

(* How a drain comes to where it is.                                       *)
LEMMA Moves ==
  ASSUME TInv, Next, NEW e \in Drain
  PROVE  \/ pc'[e] = pc[e] /\ on'[e] = on[e] /\ token'[e] = token[e]
         \/ pc'[e] \in {"idle", "token", "inbox", "sync", "reject"}
         \/ pc'[e] = "login" /\ (GetToken(e) \/ Clear(e)) /\ on'[e] = on[e]
         \/ pc'[e] = "store" /\ LoginGranted(e) /\ on'[e] = on[e]
         \/ pc'[e] = "denied" /\ LoginDenied(e) /\ on'[e] = on[e]
         \/ pc'[e] = "recover" /\ Unauthorized(e)
         \/ pc'[e] = "clear" /\ Recover(e) /\ on'[e] = on[e]
<1>. USE DEF TInv, TypeOK
<1>1. CASE \/ ChangePassword \/ SavePassword \/ Expire
           \/ \E a \in BOOLEAN : SetActive(a)
           \/ \E p \in Process : Restart(p)
           \/ \E d \in Drain : Start(d)
  BY <1>1 DEF ChangePassword, SavePassword, Expire, SetActive, Restart, Start, syncers
<1>2. ASSUME NEW d \in Drain,
             Reject(d) \/ LoginFails(d) \/ Store(d) \/ StoreFails(d) \/ Denied(d)
               \/ ClearFails(d) \/ PollInbox(d) \/ Finish(d) \/ CallFails(d)
      PROVE  \/ pc'[e] = pc[e] /\ on'[e] = on[e] /\ token'[e] = token[e]
             \/ pc'[e] \in {"idle", "inbox", "sync"}
  BY <1>2 DEF Reject, LoginFails, Store, StoreFails, Denied, ClearFails,
              PollInbox, Finish, CallFails, End, Goto
<1>3. ASSUME NEW d \in Drain, e # d,
             GetToken(d) \/ Recover(d) \/ LoginGranted(d) \/ LoginDenied(d)
               \/ Clear(d) \/ Unauthorized(d)
      PROVE  pc'[e] = pc[e] /\ on'[e] = on[e] /\ token'[e] = token[e]
  <2>1. CASE GetToken(d)
    <3>1. \/ End(d, "latched")
          \/ Goto(d, "inbox") /\ token' = [token EXCEPT ![d] = jwt]
          \/ Goto(d, "login") /\ token' = token
      BY <2>1 DEF GetToken
    <3>. QED BY <1>3, <3>1 DEF End, Goto
  <2>2. CASE Recover(d)
    <3>1. \/ End(d, "latched")
          \/ Goto(d, "sync") /\ token' = [token EXCEPT ![d] = jwt]
          \/ Goto(d, "clear") /\ token' = token
      BY <2>2 DEF Recover
    <3>. QED BY <1>3, <3>1 DEF End, Goto
  <2>3. CASE LoginGranted(d) \/ LoginDenied(d) \/ Clear(d)
    BY <1>3, <2>3 DEF LoginGranted, LoginDenied, Clear, Goto
  <2>4. CASE Unauthorized(d)
    <3>1. PICK step \in Step : Goto(d, step) /\ token' = token
      BY <2>4 DEF Unauthorized, Step
    <3>. QED BY <1>3, <3>1 DEF Goto
  <2>. QED BY <1>3, <2>1, <2>2, <2>3, <2>4
<1>4. CASE GetToken(e)
  BY <1>4 DEF GetToken, End, Goto
<1>5. CASE Recover(e)
  BY <1>5 DEF Recover, End, Goto
<1>6. CASE LoginGranted(e) \/ LoginDenied(e) \/ Clear(e) \/ Unauthorized(e)
  BY <1>6 DEF LoginGranted, LoginDenied, Clear, Unauthorized, Goto
<1>. QED BY <1>1, <1>2, <1>3, <1>4, <1>5, <1>6, Steps

(* A drain with a new token stores it, or fails to, or is killed.          *)
LEMMA Stored ==
  ASSUME TInv, Next, NEW d \in Drain, pc[d] = "store"
  PROVE  \/ pc'[d] = "store" /\ on'[d] = on[d] /\ token'[d] = token[d]
         \/ Store(d) \/ StoreFails(d)
         \/ /\ Restart(Home[d])
            /\ \A e \in Drain : on'[e] = IF Home[e] = Home[d] THEN 0 ELSE on[e]
<1>. USE DEF TInv, TypeOK
<1>1. CASE \/ ChangePassword \/ SavePassword \/ Expire
           \/ \E a \in BOOLEAN : SetActive(a)
           \/ \E e \in Drain : Start(e)
  BY <1>1 DEF ChangePassword, SavePassword, Expire, SetActive, Start
<1>2. ASSUME NEW p \in Process, Restart(p)
      PROVE  \/ pc'[d] = "store" /\ on'[d] = on[d] /\ token'[d] = token[d]
             \/ /\ p = Home[d]
                /\ \A e \in Drain : on'[e] = IF Home[e] = p THEN 0 ELSE on[e]
  BY <1>2 DEF Restart
<1>3. ASSUME NEW e \in Drain,
             Reject(e) \/ LoginFails(e) \/ Denied(e)
               \/ ClearFails(e) \/ PollInbox(e) \/ Finish(e) \/ CallFails(e)
      PROVE  pc'[d] = "store" /\ on'[d] = on[d] /\ token'[d] = token[d]
  BY <1>3 DEF Reject, LoginFails, Denied, ClearFails,
              PollInbox, Finish, CallFails, End, Goto
<1>4. ASSUME NEW e \in Drain,
             GetToken(e) \/ Recover(e) \/ LoginGranted(e) \/ LoginDenied(e)
               \/ Clear(e) \/ Unauthorized(e)
      PROVE  pc'[d] = "store" /\ on'[d] = on[d] /\ token'[d] = token[d]
  BY <1>4 DEF GetToken, Recover, LoginGranted, LoginDenied, Clear, Unauthorized,
              End, Goto
<1>5. ASSUME NEW e \in Drain, e # d, Store(e) \/ StoreFails(e)
      PROVE  pc'[d] = "store" /\ on'[d] = on[d] /\ token'[d] = token[d]
  BY <1>5 DEF Store, StoreFails, End, Goto
<1>. QED BY <1>1, <1>2, <1>3, <1>4, <1>5, Steps

(* Who changes the row.                                                    *)
LEMMA RowChanges ==
  ASSUME TInv, Next
  PROVE  jwt' = jwt \/ Expire
         \/ \E d \in Drain : Store(d) \/ Denied(d) \/ Clear(d) \/ Reject(d)
<1>1. CASE \/ ChangePassword \/ SavePassword
           \/ \E a \in BOOLEAN : SetActive(a)
           \/ \E p \in Process : Restart(p)
           \/ \E d \in Drain : Start(d)
  BY <1>1 DEF ChangePassword, SavePassword, SetActive, Restart, Start
<1>2. ASSUME NEW d \in Drain,
             GetToken(d) \/ Recover(d) \/ LoginGranted(d) \/ LoginDenied(d)
               \/ LoginFails(d) \/ StoreFails(d) \/ ClearFails(d)
               \/ PollInbox(d) \/ Finish(d) \/ Unauthorized(d) \/ CallFails(d)
      PROVE  jwt' = jwt
  BY <1>2 DEF GetToken, Recover, LoginGranted, LoginDenied, LoginFails,
              StoreFails, ClearFails, PollInbox, Finish, Unauthorized, CallFails
<1>. QED BY <1>1, <1>2, Steps

-----------------------------------------------------------------------------
LEMMA GivenStep ==
  ASSUME SInv, Next
  PROVE  Given'
<1>. USE DEF SInv, Given
<1>1. ASSUME NEW e \in Drain, pc'[e] = "store"
      PROVE  source'[token'[e]] = on'[e]
  <2>1. CASE LoginGranted(e) /\ on'[e] = on[e]
    <3>1. tokens + 1 \in Token
      BY <2>1, DrainAuthAssumption DEF LoginGranted, TInv, TypeOK, Token
    <3>. QED BY <2>1, <3>1 DEF LoginGranted, TInv, TypeOK
  <2>2. CASE pc'[e] = pc[e] /\ on'[e] = on[e] /\ token'[e] = token[e]
    <3>1. source[token[e]] = on[e] /\ token[e] # tokens + 1
      BY <1>1, <2>2, DrainAuthAssumption DEF TInv, TypeOK
    <3>2. \/ source' = source
          \/ source' = [source EXCEPT ![tokens + 1] = source'[tokens + 1]]
      BY Issuing DEF LoginGranted, TInv, TypeOK
    <3>3. source'[token[e]] = source[token[e]]
      <4>1. token[e] \in Token
        BY <1>1, <2>2, DrainAuthAssumption DEF TInv, TypeOK, Carrying, Token
      <4>. QED BY <3>1, <3>2, <4>1 DEF TInv, TypeOK
    <3>. QED BY <2>2, <3>1, <3>3
  <2>. QED BY <1>1, <2>1, <2>2, Moves
<1>2. ASSUME NEW e \in Drain, pc'[e] \in {"recover", "clear"}
      PROVE  token'[e] \in spent'
  <2>1. CASE Unauthorized(e)
    BY <2>1 DEF Unauthorized
  <2>2. CASE Recover(e) /\ pc'[e] = "clear"
    <3>1. pc[e] = "recover" /\ token'[e] = token[e]
      BY <2>2 DEF Recover, End, Goto, TInv, TypeOK
    <3>. QED BY <3>1, Issuing
  <2>3. CASE pc'[e] = pc[e] /\ token'[e] = token[e]
    BY <1>2, <2>3, Issuing
  <2>. QED BY <1>2, <2>1, <2>2, <2>3, Moves
<1>. QED BY <1>1, <1>2

(* Nobody else is given a token while a drain is inside, or none is.       *)
LEMMA LiveOfOne ==
  ASSUME SInv, Next, NEW e \in Drain, pc[e] # "idle",
         pc[e] \in Inside \/ Free(on[e]), ~LoginGranted(e),
         NEW s \in Syncer, s = on[e]
  PROVE  \A t : t \in Live(s)' => t \in Live(s)
<1>. SUFFICES ASSUME NEW t \in Live(s)', t \notin Live(s) PROVE FALSE
  OBVIOUS
<1>1. PICK d \in Drain : LoginGranted(d) /\ on[d] = s
  BY LiveShrinks DEF SInv
<1>2. pc[d] \in Inside
  BY <1>1 DEF LoginGranted, Inside
<1>3. d = e
  BY <1>1, <1>2, OneInside, FreeOfDrains DEF SInv
<1>. QED BY <1>1, <1>3

(* A Syncer that logs in has no live token.                                *)
LEMMA LoginNeeded ==
  ASSUME SInv, Next, NEW e \in Drain, GetToken(e) \/ Clear(e), pc'[e] = "login",
         NEW s \in Syncer, s = on[e]
  PROVE  Live(s) = {}
<1>. SUFFICES ASSUME NEW t \in Live(s) PROVE FALSE
  OBVIOUS
<1>. USE DEF SInv
<1>1. pc[e] # "idle" /\ (pc[e] \in Inside \/ Free(s)) /\ pc[e] # "store"
  BY DEF GetToken, Clear, Inside
<1>2. ~Dead(s)
  BY DEF Dead
<1>3. ~Storing(s, t)
  <2>. SUFFICES ASSUME NEW d \in Drain, pc[d] = "store", on[d] = s PROVE FALSE
    BY DEF Storing
  <2>1. pc[d] \in Inside
    BY DEF Inside
  <2>2. d = e
    BY <1>1, <2>1, OneInside, FreeOfDrains
  <2>. QED BY <1>1, <2>2
<1>4. ~Latched(s) /\ jwt # t
  <2>1. CASE Clear(e)
    BY <2>1 DEF Clear, NothingLost, LatchedNeverLogsIn
  <2>2. CASE GetToken(e)
    <3>1. ~Latched(s) /\ jwt = 0
      BY <2>2 DEF GetToken, End, Goto, TInv, TypeOK
    <3>2. t # 0
      BY DEF Live
    <3>. QED BY <3>1, <3>2
  <2>. QED BY <2>1, <2>2
<1>. QED BY <1>2, <1>3, <1>4 DEF Accounted

LEMMA NothingLostStep ==
  ASSUME SInv, Next
  PROVE  NothingLost'
<1>. USE DEF SInv
<1>1. SUFFICES ASSUME NEW e \in Drain, NEW s, s = on'[e]
               PROVE  /\ pc'[e] \in {"login", "denied"} => Live(s)' = {}
                      /\ pc'[e] = "store" => Live(s)' \subseteq {token'[e]}
                      /\ pc'[e] = "clear" => jwt' \notin Live(s)'
  BY DEF NothingLost, Live
<1>2. CASE pc'[e] = pc[e] /\ on'[e] = on[e] /\ token'[e] = token[e]
           /\ pc[e] \in Inside
  <2>1. pc[e] # "idle"
    BY <1>2 DEF Inside
  <2>2. s \in Syncer /\ s = on[e]
    BY <1>1, <1>2, <2>1, OnSyncer
  <2>3. ~LoginGranted(e)
    BY <1>2 DEF LoginGranted, Goto, TInv, TypeOK
  <2>4. \A t : t \in Live(s)' => t \in Live(s)
    BY <1>2, <2>1, <2>2, <2>3, LiveOfOne
  <2>5. CASE pc[e] \in {"login", "store", "denied"}
    BY <1>2, <2>2, <2>4, <2>5 DEF NothingLost
  <2>6. CASE pc[e] = "clear"
    <3>. SUFFICES ASSUME jwt' \in Live(s)' PROVE FALSE
      BY <1>2, <2>6
    <3>1. jwt' \in Live(s) /\ jwt \notin Live(s) /\ jwt' # 0
      BY <2>2, <2>4, <2>6 DEF NothingLost, Live
    <3>2. PICK d \in Drain : Store(d)
      BY <3>1, RowChanges DEF Expire, Denied, Clear, Reject, ClearJWT
    <3>3. pc[d] = "store" /\ jwt' = token[d] /\ source[token[d]] = s
      BY <3>1, <3>2 DEF Store, Live
    <3>4. on[d] = s /\ pc[d] \in Inside
      BY <3>3 DEF Given, Inside
    <3>5. d = e
      BY <1>2, <2>2, <3>4, OneInside
    <3>. QED BY <2>6, <3>3, <3>5
  <2>. QED BY <1>2, <2>5, <2>6 DEF Inside
<1>3. CASE pc'[e] = "login" /\ (GetToken(e) \/ Clear(e)) /\ on'[e] = on[e]
  <2>1. pc[e] # "idle" /\ (pc[e] \in Inside \/ Free(on[e])) /\ ~LoginGranted(e)
    BY <1>3 DEF GetToken, Clear, Inside, LoginGranted
  <2>2. s \in Syncer /\ s = on[e]
    BY <1>1, <1>3, <2>1, OnSyncer
  <2>. QED BY <1>3, <2>1, <2>2, LoginNeeded, LiveOfOne
<1>4. CASE pc'[e] = "store" /\ LoginGranted(e) /\ on'[e] = on[e]
  <2>1. pc[e] = "login" /\ token'[e] = tokens + 1
    BY <1>4 DEF LoginGranted, TInv, TypeOK
  <2>2. s \in Syncer /\ s = on[e]
    BY <1>1, <1>4, <2>1, OnSyncer
  <2>. QED BY <1>4, <2>1, <2>2, LiveShrinks DEF NothingLost
<1>5. CASE pc'[e] = "denied" /\ LoginDenied(e) /\ on'[e] = on[e]
  <2>1. pc[e] = "login" /\ ~LoginGranted(e) /\ pc[e] \in Inside
    BY <1>5 DEF LoginDenied, LoginGranted, Inside
  <2>2. s \in Syncer /\ s = on[e]
    BY <1>1, <1>5, <2>1, OnSyncer
  <2>. QED BY <1>5, <2>1, <2>2, LiveOfOne DEF NothingLost
<1>6. CASE pc'[e] = "clear" /\ Recover(e) /\ on'[e] = on[e]
  <2>1. pc[e] = "recover" /\ ~LoginGranted(e) /\ Free(on[e]) /\ jwt' = jwt
    BY <1>6 DEF Recover, LoginGranted
  <2>2. s \in Syncer /\ s = on[e]
    BY <1>1, <1>6, <2>1, OnSyncer
  <2>3. jwt = 0 \/ jwt = token[e]
    BY <1>6 DEF Recover, Replacement, Goto, End, TInv, TypeOK
  <2>4. jwt \notin Live(s)
    BY <2>1, <2>3 DEF Given, Live
  <2>5. jwt' \notin Live(s)'
    BY <2>1, <2>2, <2>4, LiveOfOne
  <2>. QED BY <1>6, <2>5
<1>. QED BY <1>2, <1>3, <1>4, <1>5, <1>6, Moves DEF Inside

LEMMA AccountedStep ==
  ASSUME SInv, Next
  PROVE  Accounted'
<1>. USE DEF SInv
<1>1. SUFFICES ASSUME NEW s \in Syncer, NEW t \in Live(s)'
               PROVE  jwt' = t \/ Storing(s, t)' \/ Latched(s)' \/ Dead(s)'
  BY DEF Accounted
<1>2. CASE \E d \in Drain : LoginGranted(d) /\ on[d] = s /\ t = tokens + 1
  <2>1. PICK d \in Drain : LoginGranted(d) /\ on[d] = s /\ t = tokens + 1
    BY <1>2
  <2>2. pc'[d] = "store" /\ on'[d] = s /\ token'[d] = t
    BY <2>1 DEF LoginGranted, Goto, TInv, TypeOK
  <2>. QED BY <2>2 DEF Storing
<1>3. CASE t \in Live(s)
  <2>1. CASE Latched(s)
    BY <2>1, LatchedStays
  <2>2. CASE Dead(s)
    <3>1. s \in 1 .. made
      <4>1. t \in Token /\ source[t] = s
        BY <1>3, DrainAuthAssumption DEF Live, TInv, TypeOK, Token
      <4>2. source[t] \in 0 .. made /\ s # 0
        BY <4>1, DrainAuthAssumption DEF TInv, TypeOK, Syncer
      <4>. QED BY <4>1, <4>2, DrainAuthAssumption DEF TInv, TypeOK
    <3>. QED BY <2>2, <3>1, DeadStays
  <2>3. CASE jwt = t
    <3>1. CASE Expire
      BY <2>3, <3>1 DEF Expire, Live
    <3>2. ASSUME NEW d \in Drain, Store(d) \/ Denied(d) \/ Clear(d) \/ Reject(d)
          PROVE  jwt' = t \/ Latched(s)'
      <4>1. CASE on[d] # s
        <5>1. t \in Taken(on[d])
          BY <1>3, <2>3, <4>1 DEF Taken, Live
        <5>2. t \in spent'
          BY <3>2, <5>1 DEF Store, Denied, Clear, Reject, ClearJWT
        <5>. QED BY <5>2 DEF Live
      <4>2. CASE on[d] = s
        <5>1. CASE Store(d)
          BY <1>3, <4>2, <5>1 DEF Store, NothingLost
        <5>2. CASE Denied(d) \/ Clear(d)
          BY <1>3, <2>3, <4>2, <5>2 DEF Denied, Clear, NothingLost
        <5>3. CASE Reject(d)
          BY <4>2, <5>3 DEF Reject, Latched, TInv, TypeOK
        <5>. QED BY <3>2, <5>1, <5>2, <5>3
      <4>. QED BY <4>1, <4>2
    <3>. QED BY <2>3, <3>1, <3>2, RowChanges
  <2>4. CASE Storing(s, t)
    <3>1. PICK d \in Drain : pc[d] = "store" /\ on[d] = s /\ token[d] = t
      BY <2>4 DEF Storing
    <3>2. CASE pc'[d] = "store" /\ on'[d] = on[d] /\ token'[d] = token[d]
      BY <3>1, <3>2 DEF Storing
    <3>3. CASE Store(d)
      BY <3>1, <3>3 DEF Store
    <3>4. CASE StoreFails(d)
      BY <3>1, <3>4 DEF StoreFails, Live
    <3>5. CASE /\ Restart(Home[d])
               /\ \A e \in Drain : on'[e] = IF Home[e] = Home[d] THEN 0 ELSE on[e]
      <4>1. s # 0
        BY <3>1, DrainAuthAssumption DEF Syncer
      <4>2. \A e \in Drain : on'[e] # s
        BY <3>1, <3>5, <4>1 DEF Homes
      <4>3. \A q \in Process : runtime'[q] # s
        <5>. SUFFICES ASSUME NEW q \in Process, runtime'[q] = s PROVE FALSE
          OBVIOUS
        <5>1. q # Home[d] /\ runtime[q] = s
          BY <3>5, <4>1 DEF Restart, TInv, TypeOK
        <5>. QED BY <3>1, <4>1, <5>1 DEF Homes
      <4>. QED BY <4>2, <4>3 DEF Dead
    <3>. QED BY <3>1, <3>2, <3>3, <3>4, <3>5, Stored
  <2>. QED BY <1>3, <2>1, <2>2, <2>3, <2>4 DEF Accounted
<1>. QED BY <1>2, <1>3, LiveShrinks

LEMMA UniqueStep ==
  ASSUME SInv, Next
  PROVE  OneLiveToken'
<1>. USE DEF SInv
<1>1. SUFFICES ASSUME NEW s \in Syncer, NEW t \in Live(s)', NEW u \in Live(s)'
               PROVE  t = u
  BY DEF OneLiveToken, Live
<1>2. CASE t \in Live(s) /\ u \in Live(s)
  BY <1>2 DEF OneLiveToken, Live
<1>3. CASE t \notin Live(s) \/ u \notin Live(s)
  <2>1. PICK d \in Drain : LoginGranted(d) /\ on[d] = s
    BY <1>3, LiveShrinks
  <2>2. Live(s) = {}
    BY <2>1 DEF LoginGranted, NothingLost
  <2>. QED BY <2>2, LiveShrinks
<1>. QED BY <1>2, <1>3

-----------------------------------------------------------------------------
LEMMA SessionInit == Init => SInv
<1>. SUFFICES ASSUME Init PROVE SInv
  OBVIOUS
<1>1. TInv
  BY TypeInit
<1>2. \A s : Live(s) = {}
  BY DEF Init, Live
<1>3. /\ LatchedNeverLogsIn /\ Homes /\ Given
  BY DEF Init, LatchedNeverLogsIn, Homes, Given
<1>4. NothingLost /\ Accounted /\ OneLiveToken
  BY <1>2 DEF Init, NothingLost, Accounted, OneLiveToken, Live
<1>. QED BY <1>1, <1>3, <1>4 DEF SInv

LEMMA SessionStep ==
  ASSUME SInv, [Next]_vars
  PROVE  SInv'
<1>1. CASE Next
  BY <1>1, TypeStep, LatchedStep, HomesStep, GivenStep, NothingLostStep,
     AccountedStep, UniqueStep DEF SInv
<1>2. CASE UNCHANGED vars
  <2>1. TInv' /\ LatchedNeverLogsIn'
    BY <1>2, TypeStep, LatchedStep DEF SInv
  <2>2. \A s : Live(s)' = Live(s)
    BY <1>2 DEF vars, server, history, Live
  <2>3. /\ Homes' /\ Given' /\ OneLiveToken'
    BY <1>2 DEF SInv, vars, server, syncers, history, Homes, Given, OneLiveToken
  <2>4. NothingLost'
    BY <1>2, <2>2 DEF SInv, NothingLost, vars, Live, history, server
  <2>5. Accounted'
    BY <1>2 DEF SInv, Accounted, vars, syncers, server, history, Live, Storing,
                Latched, Dead
  <2>. QED BY <2>1, <2>3, <2>4, <2>5 DEF SInv
<1>. QED BY <1>1, <1>2

(* A Syncer never logs in while a token that it was given is of use: the   *)
(* mutex is held across the login, the recovery first reads the row again  *)
(* for another drain's token, and what leaves the row was lost, belongs to *)
(* a latched Syncer, or died with its process.                             *)
THEOREM OneSession == Spec => []OneLiveToken
BY SessionInit, SessionStep, PTL DEF Spec, SInv
=============================================================================
