------------------------------ MODULE DrainAuth ------------------------------
(***************************************************************************)
(* How the Drains of one device get at a session of hive-api.  The token   *)
(* is one row of the SQLite file that all hive-daemon processes share.     *)
(* Each process has a Syncer, made anew when the saved configuration       *)
(* changes; a Syncer serialises authentication with a mutex, held across   *)
(* the login, and stops for good once the server rejects its credentials   *)
(* or a token it has just been given.                                      *)
(*                                                                         *)
(* A password is the security version of the account that it belongs to.   *)
(***************************************************************************)
EXTENDS Naturals, FiniteSets

CONSTANTS
  Process,      \* hive-daemon processes
  Drain,        \* drains, each of a project of its own
  Home,         \* Home[d]: the process drain d runs in
  Inboxes,      \* whether hive-api has the inbox of project blocks, or may
  MaxVersion,   \* bound on the account's security version
  MaxTokens,    \* bound on the tokens issued
  MaxSyncers,   \* bound on the Syncers made
  MaxFaults,    \* bound on lost calls, storage errors, restarts and expiries
  None

ASSUME DrainAuthAssumption ==
  /\ Home \in [Drain -> Process]
  /\ Inboxes \subseteq BOOLEAN
  /\ {MaxTokens, MaxSyncers, MaxFaults} \subseteq Nat
  /\ MaxVersion \in Nat \ {0}
  /\ None \notin Drain

VARIABLES
  (* hive-api *)
  inbox,       \* whether GET /project-blocks/inbox exists
  version,     \* users.security_version
  active,      \* users.is_active
  tokens,      \* how many tokens were issued
  stamp,       \* stamp[t]: the security version in token t
  (* The device *)
  saved,       \* the password in sync.json
  jwt,         \* the token in sync_state, 0 when there is none
  runtime,     \* runtime[p]: the Syncer of process p, 0 before the first
  made,        \* how many Syncers were made
  password,    \* password[s]: the password Syncer s was made with
  stale,       \* stale[s]: credentialsStale
  distrusted,  \* distrusted[s]: reauthenticatedTokenRejected
  mutex,       \* mutex[s]: the drain inside authMu across a login
  (* The drains *)
  pc, on,      \* where a drain is, and the Syncer it runs on
  token,       \* the token it uses
  recovered,   \* recoveryUsed
  ended,       \* how its last run ended
  faults,      \* faults spent of MaxFaults
  (* History *)
  source,      \* source[t]: the Syncer that was given token t
  spent        \* tokens rejected, expired, or taken from the row by another Syncer

server == <<inbox, version, active, tokens, stamp>>
syncers == <<runtime, made, password, stale, distrusted>>
history == <<source, spent>>
vars == <<server, saved, jwt, syncers, mutex, pc, on, token, recovered, ended,
          faults, history>>

Token == 1 .. MaxTokens
Syncer == 1 .. MaxSyncers
Step == {"idle", "token", "login", "store", "denied", "inbox", "sync",
         "recover", "clear", "reject"}

Init ==
  /\ inbox \in Inboxes
  /\ version = 1 /\ active = TRUE
  /\ tokens = 0 /\ stamp = [t \in Token |-> 0]
  /\ saved = 1 /\ jwt = 0
  /\ runtime = [p \in Process |-> 0] /\ made = 0
  /\ password = [s \in Syncer |-> 0]
  /\ stale = [s \in Syncer |-> FALSE]
  /\ distrusted = [s \in Syncer |-> FALSE]
  /\ mutex = [s \in Syncer |-> None]
  /\ pc = [d \in Drain |-> "idle"] /\ on = [d \in Drain |-> 0]
  /\ token = [d \in Drain |-> 0]
  /\ recovered = [d \in Drain |-> FALSE]
  /\ ended = [d \in Drain |-> "none"]
  /\ faults = 0
  /\ source = [t \in Token |-> 0] /\ spent = {}

-----------------------------------------------------------------------------
(* The account and its user.                                               *)
ChangePassword ==
  /\ active /\ version < MaxVersion
  /\ version' = version + 1
  /\ UNCHANGED <<inbox, active, tokens, stamp, saved, jwt, syncers, mutex, pc,
                 on, token, recovered, ended, faults, history>>

Fault == faults < MaxFaults /\ faults' = faults + 1
NoFault == faults' = faults

SetActive(a) ==
  /\ active # a
  /\ IF a THEN NoFault ELSE Fault
  /\ active' = a
  /\ UNCHANGED <<inbox, version, tokens, stamp, saved, jwt, syncers, mutex, pc,
                 on, token, recovered, ended, history>>

SavePassword ==
  /\ saved' = version
  /\ UNCHANGED <<server, jwt, syncers, mutex, pc, on, token, recovered, ended,
                 faults, history>>

(* A token is valid while the account is active and its version stands.    *)
Valid(t) == active /\ stamp[t] = version

(* The local expiry of the row, an hour before the server's.               *)
Expire ==
  /\ jwt # 0 /\ Fault
  /\ jwt' = 0
  /\ spent' = spent \union {jwt}
  /\ UNCHANGED <<server, saved, syncers, mutex, pc, on, token, recovered,
                 ended, source>>

-----------------------------------------------------------------------------
(* Leaving: the drain's locals go, and the mutex if it holds it.           *)
\* Faulty variant: the mutex stays locked.
ReleasedNever(d) == mutex
Released(d) == [s \in Syncer |-> IF mutex[s] = d THEN None ELSE mutex[s]]

End(d, how) ==
  /\ pc' = [pc EXCEPT ![d] = "idle"]
  /\ on' = [on EXCEPT ![d] = 0]
  /\ token' = [token EXCEPT ![d] = 0]
  /\ recovered' = [recovered EXCEPT ![d] = FALSE]
  /\ ended' = [ended EXCEPT ![d] = how]
  /\ mutex' = Released(d)

Goto(d, step) ==
  /\ pc' = [pc EXCEPT ![d] = step]
  /\ UNCHANGED <<on, ended>>

(* The Syncer of a process: the one it has while the saved configuration   *)
(* is the one that was made for.                                           *)
\* Faulty variant: the first configuration is kept.
KeepsFirst(p) == runtime[p] # 0
\* Faulty variant: a Syncer that gave up is replaced.
KeepsWorking(p) ==
  /\ runtime[p] # 0 /\ password[runtime[p]] = saved
  /\ ~stale[runtime[p]] /\ ~distrusted[runtime[p]]
Keeps(p) == runtime[p] # 0 /\ password[runtime[p]] = saved

Start(d) ==
  LET p == Home[d] IN
  /\ pc[d] = "idle"
  /\ IF Keeps(p)
       THEN on' = [on EXCEPT ![d] = runtime[p]] /\ UNCHANGED syncers
       ELSE /\ made < MaxSyncers
            /\ made' = made + 1
            /\ password' = [password EXCEPT ![made'] = saved]
            /\ runtime' = [runtime EXCEPT ![p] = made']
            /\ on' = [on EXCEPT ![d] = made']
            /\ UNCHANGED <<stale, distrusted>>
  /\ pc' = [pc EXCEPT ![d] = "token"]
  /\ UNCHANGED <<server, saved, jwt, mutex, token, recovered, ended, faults,
                 history>>

(* The process is killed, or reads a configuration it cannot load.         *)
Restart(p) ==
  /\ Fault
  /\ runtime[p] # 0
  /\ runtime' = [runtime EXCEPT ![p] = 0]
  /\ \/ UNCHANGED <<mutex, pc, on, token, recovered>>
     \/ LET gone == {d \in Drain : Home[d] = p} IN
        /\ pc' = [d \in Drain |-> IF d \in gone THEN "idle" ELSE pc[d]]
        /\ on' = [d \in Drain |-> IF d \in gone THEN 0 ELSE on[d]]
        /\ token' = [d \in Drain |-> IF d \in gone THEN 0 ELSE token[d]]
        /\ recovered' = [d \in Drain |-> d \notin gone /\ recovered[d]]
        /\ mutex' = [s \in Syncer |-> IF mutex[s] \in gone THEN None ELSE mutex[s]]
  /\ UNCHANGED <<server, saved, jwt, made, password, stale, distrusted, ended,
                 history>>

-----------------------------------------------------------------------------
(* Authentication.  What a Syncer does to the row takes a token of         *)
(* another Syncer out of use.                                              *)
Latched(s) == stale[s] \/ distrusted[s]
Taken(s) == {t \in {jwt} \ {0} : source[t] # s}

(* authMu.                                                                 *)
\* Faulty variant: the mutex is not kept across the login.
FreeAlways(s) == TRUE
Free(s) == mutex[s] = None

(* getOrRefreshToken, up to the login.                                     *)
GetToken(d) ==
  LET s == on[d] IN
  /\ pc[d] = "token" /\ Free(s)
  /\ CASE Latched(s) -> End(d, "latched")
       [] ~Latched(s) /\ jwt # 0 ->
            /\ token' = [token EXCEPT ![d] = jwt]
            /\ Goto(d, "inbox")
            /\ UNCHANGED <<mutex, recovered>>
       [] ~Latched(s) /\ jwt = 0 ->
            /\ mutex' = [mutex EXCEPT ![s] = d]
            /\ Goto(d, "login")
            /\ UNCHANGED <<token, recovered>>
  /\ NoFault
  /\ UNCHANGED <<server, saved, jwt, syncers, history>>

(* loginLocked: the request.                                               *)
LoginGranted(d) ==
  /\ pc[d] = "login" /\ active /\ password[on[d]] = version
  /\ tokens < MaxTokens
  /\ tokens' = tokens + 1
  /\ stamp' = [stamp EXCEPT ![tokens'] = version]
  /\ source' = [source EXCEPT ![tokens'] = on[d]]
  /\ token' = [token EXCEPT ![d] = tokens']
  /\ Goto(d, "store") /\ NoFault
  /\ UNCHANGED <<inbox, version, active, saved, jwt, syncers, mutex, recovered,
                 spent>>

LoginDenied(d) ==
  /\ pc[d] = "login" /\ active /\ password[on[d]] # version
  /\ Goto(d, "denied") /\ NoFault
  /\ UNCHANGED <<server, saved, jwt, syncers, mutex, token, recovered, history>>

LoginFails(d) ==
  /\ pc[d] = "login"
  /\ IF active THEN Fault ELSE NoFault
  /\ End(d, "failed")
  /\ UNCHANGED <<server, saved, jwt, syncers, history>>

(* loginLocked: the token is stored.                                       *)
Store(d) ==
  /\ pc[d] = "store"
  /\ jwt' = token[d]
  /\ spent' = spent \union Taken(on[d])
  /\ mutex' = Released(d)
  /\ Goto(d, IF recovered[d] THEN "sync" ELSE "inbox") /\ NoFault
  /\ UNCHANGED <<server, saved, syncers, token, recovered, source>>

StoreFails(d) ==
  /\ pc[d] = "store" /\ Fault
  /\ spent' = spent \union {token[d]}
  /\ End(d, "failed")
  /\ UNCHANGED <<server, saved, jwt, syncers, source>>

(* ClearJWT, for the drain that goes on to what comes next.                *)
ClearJWT(d) ==
  /\ jwt' = 0
  /\ spent' = spent \union Taken(on[d])
  /\ UNCHANGED <<server, saved, source>>

(* loginLocked: the credentials were rejected.                             *)
Denied(d) ==
  /\ pc[d] = "denied"
  /\ ClearJWT(d)
  /\ stale' = [stale EXCEPT ![on[d]] = TRUE]
  /\ End(d, "latched") /\ NoFault
  /\ UNCHANGED <<runtime, made, password, distrusted>>

(* recoverCachedToken: another drain's replacement, or a login.            *)
\* Faulty variant: the row is not read again.
ReplacementNever(d) == FALSE
Replacement(d) == jwt \notin {0, token[d]}

Recover(d) ==
  LET s == on[d] IN
  /\ pc[d] = "recover" /\ Free(s)
  /\ CASE Latched(s) -> End(d, "latched")
       [] ~Latched(s) /\ Replacement(d) ->
            /\ token' = [token EXCEPT ![d] = jwt]
            /\ Goto(d, "sync")
            /\ UNCHANGED <<mutex, recovered>>
       [] ~Latched(s) /\ ~Replacement(d) ->
            /\ mutex' = [mutex EXCEPT ![s] = d]
            /\ Goto(d, "clear")
            /\ UNCHANGED <<token, recovered>>
  /\ NoFault
  /\ UNCHANGED <<server, saved, jwt, syncers, history>>

Clear(d) ==
  /\ pc[d] = "clear"
  /\ ClearJWT(d)
  /\ Goto(d, "login") /\ NoFault
  /\ UNCHANGED <<syncers, mutex, token, recovered>>

(* rejectReauthenticatedToken.                                             *)
Reject(d) ==
  /\ pc[d] = "reject" /\ Free(on[d])
  /\ ClearJWT(d)
  /\ distrusted' = [distrusted EXCEPT ![on[d]] = TRUE]
  /\ End(d, "latched") /\ NoFault
  /\ UNCHANGED <<runtime, made, password, stale>>

ClearFails(d) ==
  /\ \/ pc[d] \in {"denied", "clear"}
     \/ pc[d] = "reject" /\ Free(on[d])
  /\ Fault
  /\ End(d, "failed")
  /\ UNCHANGED <<server, saved, jwt, syncers, history>>

-----------------------------------------------------------------------------
(* The calls made with the token.  A drain that is not answered ends.      *)
PollInbox(d) ==
  /\ pc[d] = "inbox"
  /\ IF inbox => Valid(token[d])
       THEN /\ Goto(d, "sync")
            /\ UNCHANGED <<mutex, token, recovered, spent>>
       ELSE End(d, "failed") /\ spent' = spent \union {token[d]}
  /\ NoFault
  /\ UNCHANGED <<server, saved, jwt, syncers, source>>

(* The last batch.  Those before it leave the drain where it is.           *)
Finish(d) ==
  /\ pc[d] = "sync" /\ Valid(token[d])
  /\ End(d, "success") /\ NoFault
  /\ UNCHANGED <<server, saved, jwt, syncers, history>>

(* A batch answered with 401: one recovery per Drain.                      *)
Unauthorized(d) ==
  /\ pc[d] = "sync" /\ ~Valid(token[d])
  /\ spent' = spent \union {token[d]}
  /\ Goto(d, IF recovered[d] THEN "reject" ELSE "recover")
  /\ recovered' = [recovered EXCEPT ![d] = TRUE]
  /\ NoFault
  /\ UNCHANGED <<server, saved, jwt, syncers, mutex, token, source>>

CallFails(d) ==
  /\ pc[d] \in {"inbox", "sync"} /\ Fault
  /\ End(d, "failed")
  /\ UNCHANGED <<server, saved, jwt, syncers, history>>

-----------------------------------------------------------------------------
Locking(d) == GetToken(d) \/ Recover(d) \/ Reject(d)
Moving(d) ==
  \/ Start(d) \/ LoginGranted(d) \/ LoginDenied(d) \/ (~active /\ LoginFails(d))
  \/ Store(d) \/ Denied(d) \/ Clear(d) \/ PollInbox(d) \/ Finish(d)
  \/ Unauthorized(d)
Failing(d) == LoginFails(d) \/ StoreFails(d) \/ ClearFails(d) \/ CallFails(d)

Next ==
  \/ ChangePassword \/ SavePassword \/ Expire
  \/ \E a \in BOOLEAN : SetActive(a)
  \/ \E p \in Process : Restart(p)
  \/ \E d \in Drain : Locking(d) \/ Moving(d) \/ Failing(d)

Spec == Init /\ [][Next]_vars

(* Drains go on and are started again; a mutex is granted in turn.         *)
Fairness == \A d \in Drain : WF_vars(Moving(d)) /\ SF_vars(Locking(d))
FairSpec == Spec /\ Fairness

-----------------------------------------------------------------------------
(* Types; and whoever is inside a Syncer's mutex, and nobody else, holds   *)
(* it.                                                                     *)
Inside == {"login", "store", "denied", "clear"}
Mutexes ==
  \A d \in Drain : pc[d] \in Inside <=> \E s \in Syncer : mutex[s] = d
TypeOK ==
  /\ inbox \in BOOLEAN /\ active \in BOOLEAN
  /\ version \in 1 .. MaxVersion /\ saved \in 1 .. version
  /\ tokens \in 0 .. MaxTokens /\ stamp \in [Token -> 0 .. version]
  /\ jwt \in 0 .. tokens
  /\ made \in 0 .. MaxSyncers /\ runtime \in [Process -> 0 .. made]
  /\ password \in [Syncer -> 0 .. saved]
  /\ stale \in [Syncer -> BOOLEAN] /\ distrusted \in [Syncer -> BOOLEAN]
  /\ mutex \in [Syncer -> Drain \union {None}]
  /\ pc \in [Drain -> Step] /\ on \in [Drain -> 0 .. made]
  /\ token \in [Drain -> 0 .. tokens]
  /\ recovered \in [Drain -> BOOLEAN]
  /\ ended \in [Drain -> {"none", "success", "failed", "latched"}]
  /\ faults \in 0 .. MaxFaults
  /\ Mutexes
  /\ source \in [Token -> 0 .. made] /\ spent \subseteq 1 .. tokens

(* Once a Syncer is latched, its credentials or the token it was given for *)
(* them rejected, none of its drains sends them again, however many were   *)
(* waiting for the mutex when it happened.                                 *)
LatchedNeverLogsIn ==
  \A d \in Drain : pc[d] \in {"clear", "login"} => ~Latched(on[d])

(* A latch is final: the Syncer stays latched and is given no more tokens, *)
(* and its process starts no other one, which would send the rejected      *)
(* password again, before sync.json has a new password or the process has  *)
(* lost this one in a restart or to a configuration it could not load.     *)
(* syncer.go:1585: "process-latched until the daemon restarts".            *)
GivenTo(s) == {t \in Token : source[t] = s}
LatchIsFinal ==
  [][\A s \in Syncer : Latched(s) =>
       /\ Latched(s)' /\ GivenTo(s)' \subseteq GivenTo(s)
       /\ \A p \in Process :
            runtime[p] = s /\ saved = password[s] => runtime'[p] \in {s, 0}]_vars

(* A Syncer logs in again only for a lost session: of the tokens it was    *)
(* given at most one was neither rejected, expired, lost in a storage      *)
(* error nor taken from the row by another Syncer.                         *)
OneLiveToken ==
  \A s \in Syncer : \A t, u \in (1 .. tokens) \ spent :
    source[t] = s /\ source[u] = s => t = u

(* A Syncer distrusts the server only when a token of its own was of no    *)
(* use to it, never for tokens that other Syncers brought.                 *)
DistrustIsEarned ==
  \A s \in Syncer : distrusted[s] => \E t \in spent : source[t] = s

(* Once the account is active and the saved password is its password,      *)
(* every project ends up synced, unless the Syncer distrusts the server,   *)
(* or the row keeps a revoked token, which fails every Drain at the inbox. *)
SettledAccount == <>[](saved = version /\ active)
Distrusting(d) == runtime[Home[d]] # 0 /\ distrusted[runtime[Home[d]]]
RevokedAtInbox == inbox /\ jwt # 0 /\ ~Valid(jwt)
SyncsUnlessRevoked ==
  SettledAccount =>
    \A d \in Drain : <>[](ended[d] = "success" \/ Distrusting(d) \/ RevokedAtInbox)

(* What the recovery of a cached token is for: a password changed          *)
(* elsewhere and saved here costs no more than a new login.                *)
RevokedSessionRecovers ==
  SettledAccount =>
    \A d \in Drain : <>[](ended[d] = "success" \/ Distrusting(d))
=============================================================================
