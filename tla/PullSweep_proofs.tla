-------------------------- MODULE PullSweep_proofs --------------------------
(***************************************************************************)
(* Proofs about PullSweep, for any finite sets of memories and sessions    *)
(* and any page size: a drain that reports fully_synced has all of its     *)
(* window; the watermark passes no row the device was not given, whenever  *)
(* drains fail or resume, as long as none is cut short; and no memory is   *)
(* refused while a page holds all sessions.  All three are of transactions *)
(* that commit in the order of their stamps (Lag = 0).                     *)
(*                                                                         *)
(* The argument: a cursor has everything of its window behind it, or on    *)
(* the page about to be stored.  A channel with more to give moves its     *)
(* cursor forward, so a drain that stops by itself has seen both channels  *)
(* to their end in its last batch; what was written since this drain began *)
(* is stamped at its start or later.                                       *)
(***************************************************************************)
EXTENDS PullSweep, FiniteSetTheorems, WellFoundedInduction, TLAPS

(* The two ways to end a drain that leaves rows behind: the automatic      *)
(* policy's single batch, and the cap.                                     *)
CutShort == StopAuto \/ StopAtCap

Answered == phase \in Phase \ {"idle", "ask"}

(* The page of a channel that is answered and not saved yet.               *)
Unsaved(c) ==
  IF phase \in {"ack", "sessions"} \/ (phase = "memories" /\ c = "memories")
    THEN reply[c].page ELSE {}

Given(c) == have \union refused \union Unsaved(c)

(* The rows of c's window that a cursor at k leaves behind, and those that *)
(* were there when the drain began.                                        *)
Behind(c, k) ==
  {r \in RowsOf[c] : stamp[r] # 0 /\ InWindow(r) /\ ~Before(k, Key(r))}
Older(c) == {r \in RowsOf[c] : stamp[r] # 0 /\ InWindow(r) /\ stamp[r] < start}

(* The clock is ahead of all stamps.                                       *)
Stamped ==
  /\ \A r \in Row : stamp[r] < clock
  /\ \A c \in Channel : cursor[c][1] < clock /\ reply[c].next[1] < clock

(* A drain's batches are counted, its locals are its own, and the          *)
(* watermark is not ahead of it.                                           *)
Counted ==
  /\ phase # "idle" => lastSync <= start
  /\ phase = "idle" => batches = 0 /\ \A c \in Channel : previous[c] = Zero
  /\ phase \in {"ack", "sessions", "memories", "memoryCursor", "sessionCursor"}
       => batches < MaxBatches

CursorsCover ==
  \A c \in Channel : Behind(c, cursor[c]) \subseteq have \union refused

(* The answer's next cursors cover what they leave behind, a channel that  *)
(* is done covers all that was there at the start.                         *)
AnswerCovers ==
  Answered => \A c \in Channel :
    IF reply[c].more THEN Behind(c, reply[c].next) \subseteq Given(c)
                     ELSE reply[c].next = Zero /\ Older(c) \subseteq Given(c)

(* A channel with more to give moves on from where it was a batch ago.     *)
Advances ==
  /\ phase = "ask" => \A c \in Channel : previous[c] \in {cursor[c], Zero}
  /\ Answered => \A c \in Channel :
       reply[c].more => Before(previous[c], reply[c].next)

Stored ==
  /\ phase \in {"sessionCursor", "decide"} =>
       cursor["memories"] = reply["memories"].next
  /\ phase = "decide" => cursor["sessions"] = reply["sessions"].next

IInv ==
  /\ TypeOK /\ Stamped /\ Counted /\ CursorsCover /\ AnswerCovers /\ Advances
  /\ Stored

(* While a page holds all sessions: none is left over, and those of before *)
(* the watermark, and those of the drain's start once a batch has saved    *)
(* them, are here.                                                         *)
HereBefore(at) == \A s \in Session : stamp[s] # 0 /\ stamp[s] < at => s \in have

OwnersFirst == \A m \in Memory : stamp[m] # 0 => stamp[Owner[m]] # 0

OnePage ==
  /\ cursor["sessions"] = Zero
  /\ reply["sessions"].next = Zero

SessionsHere ==
  /\ HereBefore(lastSync)
  /\ \/ phase = "idle"
     \/ phase \in {"ask", "ack", "sessions"} /\ batches = 0
     \/ HereBefore(start)
  /\ phase \in {"ack", "sessions"} =>
       \A s \in Session :
         stamp[s] # 0 /\ stamp[s] < start => s \in Given("sessions")

OwnersDue ==
  /\ phase \in {"ack", "sessions"} =>
       \A m \in reply["memories"].page : Owner[m] \in Given("sessions")
  /\ phase = "memories" =>
       \A m \in reply["memories"].page : Owner[m] \in have

SInv == OwnersFirst /\ OnePage /\ SessionsHere /\ OwnersDue /\ refused = {}

-----------------------------------------------------------------------------
(* Rows, keys and pages.                                                   *)
LEMMA RowFacts ==
  /\ Memory \subseteq Row /\ Session \subseteq Row /\ Row \subseteq Nat \ {0}
  /\ IsFiniteSet(Row)
  /\ \A c \in Channel : RowsOf[c] \subseteq Row
  /\ RowsOf["memories"] = Memory /\ RowsOf["sessions"] = Session
<1>1. Memory \subseteq Nat \ {0} /\ Session \subseteq Nat \ {0}
      /\ IsFiniteSet(Memory) /\ IsFiniteSet(Session)
  BY PullSweepAssumption
<1>2. IsFiniteSet(Row) BY <1>1, FS_Union DEF Row
<1>3. RowsOf["memories"] = Memory /\ RowsOf["sessions"] = Session
  BY DEF RowsOf
<1> QED BY <1>1, <1>2, <1>3 DEF Row, Channel

LEMMA KeyType ==
  ASSUME TypeOK, NEW r \in Row
  PROVE  /\ Key(r) = <<stamp[r], r>> /\ stamp[r] \in Nat /\ r \in Nat \ {0}
         /\ Key(r) \in Key0 /\ Key(r) \in Nat \X Nat
         /\ stamp[r] # 0 => Before(Zero, Key(r))
<1>1. stamp[r] \in 0 .. clock /\ clock \in Nat /\ r \in Nat \ {0}
  BY RowFacts DEF TypeOK
<1> QED BY <1>1 DEF Key, Key0, Before, Zero

LEMMA KeyNat ==
  ASSUME clock \in Nat, NEW k \in Key0
  PROVE  k \in Nat \X Nat /\ k[1] \in 0 .. clock
<1>1. 0 .. clock \subseteq Nat /\ {0} \union Row \subseteq Nat BY RowFacts
<1>2. k = <<k[1], k[2]>> /\ k[1] \in 0 .. clock /\ k[2] \in {0} \union Row
  BY DEF Key0
<1>3. k[1] \in Nat /\ k[2] \in Nat BY <1>1, <1>2
<1> QED BY <1>2, <1>3

LEMMA BeforeOrders ==
  ASSUME NEW a \in Nat \X Nat, NEW b \in Nat \X Nat
  PROVE  /\ ~Before(a, a)
         /\ ~(Before(a, b) /\ Before(b, a))
         /\ Before(a, b) => Before(Zero, b)
         /\ \A c \in Nat \X Nat : Before(a, b) /\ Before(b, c) => Before(a, c)
BY DEF Before, Zero

(* A page that stops short of its window is not empty, and comes before    *)
(* what it leaves.                                                         *)
LEMMA ShortPage ==
  ASSUME NEW W, IsFiniteSet(W), NEW S, IsFirstPage(S, W), S # W
  PROVE  S # {}
<1>1. S \in SUBSET W BY DEF IsFirstPage
<1>2. Cardinality(S) # Cardinality(W) BY <1>1, FS_Subset
<1>3. Cardinality(S) = Page BY <1>2 DEF IsFirstPage
<1>4. Page # 0 BY PullSweepAssumption
<1> QED BY <1>3, <1>4, FS_EmptySet

(* A set of rows has a last one.                                           *)
RowsAfter(k) == {p \in Row : Before(Key(k), Key(p))}

LEMMA LastRow ==
  ASSUME TypeOK, NEW S \in SUBSET Row, S # {}
  PROVE  \E x \in S : \A y \in S : ~Before(Key(x), Key(y))
<1> DEFINE B == {RowsAfter(k) : k \in S}
           F == FiniteSubsetsOf(Row)
<1>1. F = SUBSET Row BY RowFacts, FS_FiniteSubsetsOfFinite
<1>2. B \subseteq F /\ B # {}
  <2>1. \A k : RowsAfter(k) \in SUBSET Row BY DEF RowsAfter
  <2> QED BY <1>1, <2>1
<1>3. IsWellFoundedOn(StrictSubsetOrdering(Row), F)
  BY FS_StrictSubsetOrderingWellFounded
<1>4. PICK b \in B : \A c \in B : <<c, b>> \notin StrictSubsetOrdering(Row)
  <2> HIDE DEF B, F
  <2> QED BY <1>2, <1>3, WFMin
<1>5. PICK x \in S : b = RowsAfter(x) BY <1>4
<1>6. ASSUME NEW y \in S, Before(Key(x), Key(y)) PROVE FALSE
  <2>1. y \in b /\ y \notin RowsAfter(y)
    BY <1>5, <1>6, KeyType, BeforeOrders DEF RowsAfter
  <2>2. RowsAfter(y) \subseteq b
    BY <1>5, <1>6, KeyType, BeforeOrders DEF RowsAfter
  <2>3. <<RowsAfter(y), b>> \in StrictSubsetOrdering(Row)
    BY <1>5, <2>1, <2>2 DEF RowsAfter, StrictSubsetOrdering
  <2> QED BY <1>4, <2>3
<1> QED BY <1>6

LEMMA LastKeyOf ==
  ASSUME TypeOK, NEW S \in SUBSET Row, S # {}
  PROVE  \E x \in S : LastKey(S) = Key(x) /\ \A y \in S : ~Before(Key(x), Key(y))
<1>1. PICK x \in S : \A y \in S : ~Before(Key(x), Key(y)) BY LastRow
<1>2. /\ LastKey(S) \in {Key(r) : r \in S}
      /\ \A r \in S : ~Before(LastKey(S), Key(r))
  <2>1. \E k \in {Key(r) : r \in S} : \A r \in S : ~Before(k, Key(r))
    BY <1>1
  <2> QED BY <2>1 DEF LastKey
<1> QED BY <1>2

LEMMA WindowType ==
  ASSUME NEW c \in Channel
  PROVE  Window(c) \subseteq Row /\ Window(c) \subseteq RowsOf[c]
         /\ IsFiniteSet(Window(c))
<1>1. Window(c) \in SUBSET Row BY RowFacts DEF Window
<1> QED BY <1>1, RowFacts, FS_Subset DEF Window

(* One answered channel: the next cursor leaves nothing behind that is     *)
(* neither on the page nor behind the present cursor, and moves on.        *)
NextOf(S, c) == IF S = Window(c) THEN Zero ELSE LastKey(S)

LEMMA AnswerType ==
  ASSUME TypeOK, NEW c \in Channel, NEW S, IsFirstPage(S, Window(c))
  PROVE  S \subseteq RowsOf[c] /\ NextOf(S, c) \in Key0
<1>1. S \subseteq Window(c) BY DEF IsFirstPage
<1>2. CASE S = Window(c)
  BY <1>1, <1>2, WindowType DEF NextOf, Key0, Zero, TypeOK
<1>3. CASE S # Window(c)
  <2>1. S # {} /\ S \in SUBSET Row BY <1>1, <1>3, WindowType, ShortPage
  <2>2. PICK x \in S : LastKey(S) = Key(x) BY <2>1, LastKeyOf
  <2> QED BY <1>1, <1>3, <2>1, <2>2, KeyType, WindowType DEF NextOf
<1> QED BY <1>2, <1>3

LEMMA AnswerLeaves ==
  ASSUME TypeOK, NEW c \in Channel, NEW S, IsFirstPage(S, Window(c)),
         S # Window(c)
  PROVE  /\ Behind(c, NextOf(S, c)) \subseteq Behind(c, cursor[c]) \union S
         /\ Before(cursor[c], NextOf(S, c)) /\ Before(Zero, NextOf(S, c))
         /\ \E x \in S : NextOf(S, c) = Key(x)
<1>1. S # {} /\ S \in SUBSET Row /\ S \subseteq Window(c)
  BY WindowType, ShortPage DEF IsFirstPage
<1>2. PICK x \in S : LastKey(S) = Key(x) /\ \A y \in S : ~Before(Key(x), Key(y))
  BY <1>1, LastKeyOf
<1>3. NextOf(S, c) = Key(x) BY <1>2 DEF NextOf
<1>4. Before(cursor[c], Key(x)) /\ stamp[x] # 0 BY <1>1 DEF Window
<1>5. ASSUME NEW r \in Behind(c, Key(x)), r \notin Behind(c, cursor[c])
      PROVE  r \in S
  <2>1. r \in Window(c) BY <1>5 DEF Behind, Window
  <2>2. ~Before(Key(x), Key(r)) BY <1>5 DEF Behind
  <2> QED BY <2>1, <2>2 DEF IsFirstPage
<1> QED BY <1>1, <1>3, <1>4, <1>5, KeyType

(* Behind the cursor or before the end: all of the window.                 *)
LEMMA WholeWindow ==
  ASSUME NEW c \in Channel
  PROVE  Older(c) \subseteq Behind(c, cursor[c]) \union Window(c)
BY DEF Older, Behind, Window

-----------------------------------------------------------------------------
(* Type correctness.                                                       *)
LEMMA ReplyParts ==
  ASSUME TypeOK
  PROVE  /\ \A c \in Channel : reply[c] \in Answer(c)
         /\ \A c \in Channel : reply[c].page \subseteq Row /\ reply[c].next \in Key0
         /\ reply.memories = reply["memories"] /\ reply.sessions = reply["sessions"]
<1>1. reply["memories"] \in Answer("memories") /\ reply["sessions"] \in Answer("sessions")
  BY DEF TypeOK
<1> QED BY <1>1, RowFacts DEF Answer, Channel

LEMMA InitType == Init => TypeOK /\ Counted
<1> SUFFICES ASSUME Init PROVE TypeOK /\ Counted
  OBVIOUS
<1>1. {Backlog, Joined, Writes, MaxFaults} \subseteq Nat /\ MaxBatches \in Nat
  BY PullSweepAssumption
<1>2. Zero \in Key0 BY <1>1 DEF Init, Key0, Zero
<1>3. reply \in [memories : Answer("memories"), sessions : Answer("sessions"),
                 pushEmpty : BOOLEAN]
  BY <1>2 DEF Init, NoReply, Nothing, Answer
<1>4. stamp \in [Row -> 0 .. clock] BY <1>1 DEF Init
<1>5. cursor \in [Channel -> Key0] /\ previous \in [Channel -> Key0]
  BY <1>2 DEF Init
<1>6. /\ clock \in Nat /\ writes \in 0 .. Writes
      /\ have \subseteq Row /\ refused \subseteq Memory
      /\ lastSync \in 0 .. clock /\ start \in 0 .. clock
      /\ left \in 0 .. Backlog /\ batches \in 0 .. MaxBatches
      /\ faults \in 0 .. MaxFaults
  BY <1>1 DEF Init
<1>7. phase \in Phase /\ policy \in {"auto", "manual"} /\ moved \in BOOLEAN
  BY DEF Init, Phase
<1>8. Counted BY DEF Init, Counted
<1> QED BY <1>3, <1>4, <1>5, <1>6, <1>7, <1>8 DEF TypeOK

LEMMA OverType ==
  ASSUME TypeOK, DrainOver, UNCHANGED <<others, have, cursor, left, refused>>,
         lastSync' \in 0 .. clock, faults' \in 0 .. MaxFaults
  PROVE  TypeOK' /\ Counted'
<1>1. Zero \in Key0 /\ Key0' = Key0 BY DEF Key0, Zero, TypeOK, others
<1>2. reply' \in [memories : Answer("memories"), sessions : Answer("sessions"),
                  pushEmpty : BOOLEAN]
  BY <1>1 DEF DrainOver, NoReply, Nothing, Answer
<1>3. MaxBatches \in Nat BY PullSweepAssumption
<1>4. previous' \in [Channel -> Key0] BY <1>1 DEF DrainOver
<1>5. Counted' BY DEF Counted, DrainOver
<1>6. Answer("memories")' = Answer("memories") /\ Answer("sessions")' = Answer("sessions")
  BY <1>1 DEF Answer
<1>7. start' \in 0 .. clock /\ batches' \in 0 .. MaxBatches
  BY <1>3 DEF DrainOver, TypeOK
<1>8. phase' \in Phase /\ policy' \in {"auto", "manual"} /\ moved' \in BOOLEAN
  BY DEF DrainOver, Phase
<1>9. /\ UNCHANGED <<clock, stamp, writes>> /\ cursor' = cursor
      /\ have' = have /\ refused' = refused /\ left' = left
  BY DEF others
<1> QED BY <1>1, <1>2, <1>4, <1>5, <1>6, <1>7, <1>8, <1>9 DEF TypeOK

LEMMA CursorType ==
  ASSUME TypeOK, NEW c \in Channel, StoreCursor(c)
  PROVE  cursor' \in [Channel -> Key0]
BY ReplyParts DEF TypeOK, StoreCursor

LEMMA TypeStep ==
  ASSUME TypeOK, Counted, [Next]_vars
  PROVE  TypeOK' /\ Counted'
<1>1. ASSUME NEW S \in SUBSET Row, NEW at \in 1 .. clock, Write(S, at)
      PROVE  TypeOK' /\ Counted'
  <2>1. clock \in Nat /\ clock' = clock + 1 /\ at \in 0 .. clock' BY <1>1 DEF Write, TypeOK
  <2>2. 0 .. clock \subseteq 0 .. clock' BY <2>1
  <2>3. Key0 \subseteq Key0' BY <2>2 DEF Key0
  <2>4. stamp' \in [Row -> 0 .. clock'] BY <1>1, <2>1, <2>2 DEF Write, TypeOK
  <2>5. writes' \in 0 .. Writes BY <1>1, PullSweepAssumption DEF Write, TypeOK
  <2>6. \A c \in Channel : Answer(c) \subseteq Answer(c)' BY <2>3 DEF Answer
  <2>7. reply' \in [memories : Answer("memories"), sessions : Answer("sessions"),
                    pushEmpty : BOOLEAN]'
    BY <1>1, <2>6 DEF Write, TypeOK, drain, Channel
  <2>8. cursor' \in [Channel -> Key0'] /\ previous' \in [Channel -> Key0']
    BY <1>1, <2>3 DEF Write, TypeOK, drain, kept
  <2>9. Counted' BY <1>1 DEF Counted, Write, drain, kept
  <2> QED BY <1>1, <2>1, <2>2, <2>4, <2>5, <2>7, <2>8, <2>9
             DEF Write, TypeOK, drain, kept
<1> SUFFICES ASSUME ~(\E S \in SUBSET Row, at \in 1 .. clock : Write(S, at))
             PROVE  TypeOK' /\ Counted'
  BY <1>1
<1>2. UNCHANGED others => Key0' = Key0 /\ \A c \in Channel : Answer(c)' = Answer(c)
  BY DEF Key0, Answer, others
<1>3. ASSUME NEW p \in Policies, StartDrain(p) PROVE TypeOK' /\ Counted'
  <2>1. policy' \in {"auto", "manual"}
    BY <1>3, PullSweepAssumption DEF StartDrain
  <2>2. start' \in 0 .. clock BY <1>3 DEF StartDrain, TypeOK
  <2>3. Counted' BY <1>3 DEF StartDrain, Counted, TypeOK, kept
  <2> QED BY <1>2, <1>3, <2>1, <2>2, <2>3
             DEF StartDrain, TypeOK, others, kept, Phase, Channel
<1>4. CASE Ask
  <2>1. PICK S \in SUBSET Session, M \in SUBSET Memory :
          /\ IsFirstPage(S, Window("sessions"))
          /\ IsFirstPage(M, Window("memories"))
          /\ reply' = [sessions |-> [page |-> S, more |-> S # Window("sessions"),
                                     next |-> NextOf(S, "sessions")],
                       memories |-> [page |-> M, more |-> M # Window("memories"),
                                     next |-> NextOf(M, "memories")],
                       pushEmpty |-> left = 0]
    BY <1>4 DEF Ask, NextOf
  <2>2. NextOf(S, "sessions") \in Key0 /\ NextOf(M, "memories") \in Key0
    BY <2>1, AnswerType DEF Channel
  <2>3. reply' \in [memories : Answer("memories"), sessions : Answer("sessions"),
                    pushEmpty : BOOLEAN]
    BY <2>1, <2>2, RowFacts DEF Answer
  <2>4. batches < MaxBatches
    BY <1>4, PullSweepAssumption DEF Ask, AtCap, TypeOK
  <2>5. Counted' BY <1>4, <2>4 DEF Ask, Counted, kept
  <2> QED BY <1>2, <1>4, <2>3, <2>5 DEF Ask, TypeOK, others, kept, Phase, Channel
<1>5. CASE Acknowledge
  <2>1. moved' \in BOOLEAN BY <1>5 DEF Acknowledge
  <2>2. left' \in 0 .. Backlog
    <3>1. Backlog \in Nat BY PullSweepAssumption
    <3>2. (left > 0 /\ left' = left - 1) \/ left' = left
      BY <1>5, Zenon DEF Acknowledge
    <3>3. left \in 0 .. Backlog BY DEF TypeOK
    <3> QED BY <3>1, <3>2, <3>3
  <2>3. Counted' BY <1>5 DEF Acknowledge, Counted
  <2> QED BY <1>2, <1>5, <2>1, <2>2, <2>3
             DEF Acknowledge, TypeOK, others, Phase, Channel
<1>6. CASE SaveSessions
  BY <1>2, <1>6, ReplyParts DEF SaveSessions, TypeOK, Counted, others, Phase, Channel
<1>7. CASE SaveMemories
  <2>1. reply.memories.page \subseteq Memory BY ReplyParts, RowFacts DEF Answer, Channel
  <2> QED BY <1>2, <1>7, <2>1, RowFacts
             DEF SaveMemories, TypeOK, Counted, others, Phase, Channel
<1>8. CASE StoreMemoryCursor
  <2>1. cursor' \in [Channel -> Key0]
    BY <1>8, CursorType DEF StoreMemoryCursor, Channel
  <2> QED BY <1>2, <1>8, <2>1
             DEF StoreMemoryCursor, TypeOK, Counted, others, Phase, Channel
<1>9. CASE StoreSessionCursor
  <2>1. cursor' \in [Channel -> Key0]
    BY <1>9, CursorType DEF StoreSessionCursor, Channel
  <2>2. batches' \in 0 .. MaxBatches
    BY <1>9, PullSweepAssumption DEF StoreSessionCursor, TypeOK, Counted
  <2> QED BY <1>2, <1>9, <2>1, <2>2
             DEF StoreSessionCursor, TypeOK, Counted, others, Phase, Channel
<1>10. CASE Stop
  <2>1. lastSync' \in 0 .. clock BY <1>10 DEF Stop, Watermark, TypeOK
  <2>2. faults' \in 0 .. MaxFaults BY <1>10 DEF Stop, TypeOK
  <2> QED BY <1>10, <2>1, <2>2, OverType DEF Stop
<1>11. CASE Continue
  BY <1>2, <1>11 DEF Continue, TypeOK, Counted, others, kept, Phase, Channel
<1>12. CASE Fail
  <2>1. faults' \in 0 .. MaxFaults BY <1>12, PullSweepAssumption DEF Fail, TypeOK
  <2>2. lastSync' \in 0 .. clock BY <1>12 DEF Fail, TypeOK, kept
  <2> QED BY <1>12, <2>1, <2>2, OverType DEF Fail, kept
<1>13. CASE UNCHANGED vars
  BY <1>2, <1>13 DEF vars, others, kept, drain, TypeOK, Counted, Channel
<1> QED BY <1>3, <1>4, <1>5, <1>6, <1>7, <1>8, <1>9, <1>10, <1>11, <1>12, <1>13
           DEF Next, BatchStep, StopFinished, StopAuto, StopStuck, StopAtCap

(* Cursors, pages, stamps and counters keep to their types, whatever the   *)
(* number of rows: no stamp or watermark runs ahead of the server's clock  *)
(* (RecordSyncSuccess stores the start of a drain), and an answer's page   *)
(* holds rows of its own channel only (PullSince, ListSessionsSince).      *)
THEOREM TypeCorrect == Spec => []TypeOK
<1>1. TypeOK /\ Counted /\ [Next]_vars => (TypeOK /\ Counted)' BY TypeStep
<1> QED BY <1>1, InitType, PTL DEF Spec

-----------------------------------------------------------------------------
(* The inductive invariant of a drain.                                     *)
LEMMA InitInv == Init => IInv
<1> SUFFICES ASSUME Init PROVE IInv
  OBVIOUS
<1>1. TypeOK /\ Counted BY InitType
<1>2. \A c \in Channel : cursor[c] = Zero /\ previous[c] = Zero BY DEF Init
<1>3. \A c \in Channel : reply[c].next = Zero BY DEF Init, NoReply, Nothing, Channel
<1>4. Joined \in Nat BY PullSweepAssumption
<1>5. Stamped BY <1>2, <1>3, <1>4 DEF Init, Stamped, Zero
<1>6. CursorsCover BY <1>1, <1>2, KeyType, RowFacts DEF CursorsCover, Behind
<1>7. AnswerCovers /\ Advances /\ Stored
  BY DEF Init, AnswerCovers, Advances, Stored, Answered
<1> QED BY <1>1, <1>5, <1>6, <1>7 DEF IInv

(* What another device writes is stamped after every cursor and after the  *)
(* start of the drain.                                                     *)
LEMMA WriteInv ==
  ASSUME Lag = 0, IInv, TypeOK', Counted',
         NEW S \in SUBSET Row, NEW at \in 1 .. clock, Write(S, at)
  PROVE  IInv'
<1> USE DEF IInv
<1>1. /\ clock \in Nat /\ at = clock /\ clock' = clock + 1
      /\ \A r \in Row : stamp'[r] = IF r \in S THEN clock ELSE stamp[r]
      /\ UNCHANGED <<have, lastSync, cursor, left, drain, refused>>
  BY DEF Write, TypeOK, kept
<1>2. UNCHANGED <<phase, start, previous, reply>> BY <1>1 DEF drain
<1>3. \A r \in Row : stamp[r] \in Nat /\ r \in Nat BY RowFacts DEF TypeOK
<1>4. Stamped'
  <2>1. \A c \in Channel : cursor[c][1] \in Nat /\ reply[c].next[1] \in Nat
    BY ReplyParts, KeyNat DEF TypeOK
  <2> QED BY <1>1, <1>2, <1>3, <2>1 DEF Stamped
<1>5. ASSUME NEW c \in Channel, NEW k \in Key0, k[1] < clock
      PROVE  Behind(c, k)' \subseteq Behind(c, k)
  <2>1. ASSUME NEW r \in Behind(c, k)' PROVE r \in Behind(c, k)
    <3>1. r \in Row /\ r \in RowsOf[c] BY <2>1, RowFacts DEF Behind, RowsOf
    <3>2. k \in Nat \X Nat BY KeyNat, <1>1
    <3>3. ~Before(k, Key(r))' BY <2>1 DEF Behind
    <3>4. CASE r \in S
      <4>1. Key(r)' = <<clock, r>> BY <1>1, <3>1, <3>4 DEF Key
      <4>2. Before(k, <<clock, r>>) BY <1>5 DEF Before
      <4> QED BY <3>3, <4>1, <4>2 DEF Before
    <3>5. CASE r \notin S
      <4>1. stamp'[r] = stamp[r] BY <1>1, <3>1, <3>5
      <4> QED BY <1>1, <2>1, <3>1, <4>1 DEF Behind, Key, Before, InWindow
    <3> QED BY <3>4, <3>5
  <2> QED BY <2>1
<1>6. ASSUME NEW c \in Channel PROVE Older(c)' \subseteq Older(c)
  <2>1. start \in 0 .. clock BY DEF TypeOK
  <2>2. ASSUME NEW r \in Older(c)' PROVE r \in Older(c)
    <3>1. r \in Row /\ r \in RowsOf[c] /\ stamp'[r] < start /\ stamp'[r] # 0
          /\ stamp'[r] >= lastSync
      BY <1>1, <1>2, <2>2, RowFacts DEF Older, RowsOf, InWindow
    <3>2. r \notin S BY <1>1, <2>1, <3>1
    <3> QED BY <1>1, <1>2, <3>1, <3>2 DEF Older, InWindow
  <2> QED BY <2>2
<1>7. CursorsCover'
  <2>1. \A c \in Channel : cursor[c] \in Key0 /\ cursor[c][1] < clock
    BY DEF TypeOK, Stamped
  <2> QED BY <1>1, <1>5, <2>1 DEF CursorsCover
<1>8. AnswerCovers'
  <2>1. \A c \in Channel : reply[c].next \in Key0 /\ reply[c].next[1] < clock
    BY ReplyParts DEF Stamped
  <2>2. \A c \in Channel : Given(c)' = Given(c)
    BY <1>1, <1>2 DEF Given, Unsaved
  <2> QED BY <1>2, <1>5, <1>6, <2>1, <2>2 DEF AnswerCovers, Answered
<1>9. Advances' /\ Stored'
  BY <1>1, <1>2 DEF Advances, Stored, Answered, Before
<1> QED BY <1>4, <1>7, <1>8, <1>9

(* Where neither the server nor the watermark changes, windows stay.       *)
LEMMA SameWindows ==
  ASSUME UNCHANGED <<stamp, lastSync>>
  PROVE  /\ \A c \in Channel : \A k : Behind(c, k)' = Behind(c, k)
         /\ Passed' = Passed
         /\ start' = start => \A c \in Channel : Older(c)' = Older(c)
BY DEF Behind, Passed, Older, InWindow, Key, Before

LEMMA AskInv ==
  ASSUME IInv, TypeOK', Counted', Ask
  PROVE  IInv'
<1> USE DEF IInv
<1>1. PICK S \in SUBSET Session, M \in SUBSET Memory :
        /\ IsFirstPage(S, Window("sessions"))
        /\ IsFirstPage(M, Window("memories"))
        /\ reply' = [sessions |-> [page |-> S, more |-> S # Window("sessions"),
                                   next |-> NextOf(S, "sessions")],
                     memories |-> [page |-> M, more |-> M # Window("memories"),
                                   next |-> NextOf(M, "memories")],
                     pushEmpty |-> left = 0]
  BY DEF Ask, NextOf
<1>2. /\ phase = "ask" /\ phase' = "ack"
      /\ UNCHANGED <<clock, stamp, have, lastSync, cursor, start, previous, refused>>
  BY DEF Ask, others, kept
<1>3. ASSUME NEW c \in Channel
      PROVE  /\ IsFirstPage(reply'[c].page, Window(c))
             /\ reply'[c].more <=> reply'[c].page # Window(c)
             /\ reply'[c].next = NextOf(reply'[c].page, c)
             /\ Given(c)' = have \union refused \union reply'[c].page
  <2>1. Given(c)' = have \union refused \union reply'[c].page
    BY <1>2 DEF Given, Unsaved
  <2>2. CASE c = "sessions" BY <1>1, <2>1, <2>2
  <2>3. CASE c = "memories" BY <1>1, <2>1, <2>3
  <2> QED BY <2>2, <2>3 DEF Channel
<1>4. ASSUME NEW c \in Channel
      PROVE  /\ reply'[c].next[1] < clock
             /\ reply'[c].more => Before(previous[c], reply'[c].next)
             /\ reply'[c].more => Behind(c, reply'[c].next) \subseteq Given(c)'
             /\ ~reply'[c].more => /\ reply'[c].next = Zero
                                   /\ Older(c) \subseteq Given(c)'
  <2>1. Behind(c, cursor[c]) \subseteq have \union refused BY DEF CursorsCover
  <2>2. CASE reply'[c].more
    <3>1. /\ Behind(c, reply'[c].next) \subseteq Behind(c, cursor[c]) \union reply'[c].page
          /\ Before(cursor[c], reply'[c].next) /\ Before(Zero, reply'[c].next)
          /\ \E x \in reply'[c].page : reply'[c].next = Key(x)
      BY <1>3, <2>2, AnswerLeaves
    <3>2. \A x \in reply'[c].page : x \in Row
      BY <1>3, WindowType DEF IsFirstPage
    <3>3. reply'[c].next[1] < clock BY <3>1, <3>2, KeyType DEF Stamped
    <3>4. previous[c] \in {cursor[c], Zero} BY <1>2 DEF Advances
    <3> QED BY <1>3, <2>1, <2>2, <3>1, <3>3, <3>4
  <2>3. CASE ~reply'[c].more
    <3>1. reply'[c].page = Window(c) /\ reply'[c].next = Zero
      BY <1>3, <2>3 DEF NextOf
    <3>2. Older(c) \subseteq Given(c)' BY <1>3, <2>1, <3>1, WholeWindow
    <3>3. Zero[1] < clock
      <4>1. cursor[c][1] < clock BY DEF Stamped
      <4>2. cursor[c][1] \in Nat /\ clock \in Nat BY KeyNat DEF TypeOK
      <4> QED BY <4>1, <4>2 DEF Zero
    <3> QED BY <2>3, <3>1, <3>2, <3>3
  <2> QED BY <2>2, <2>3
<1>5. Stamped' BY <1>2, <1>4 DEF Stamped
<1>6. CursorsCover' BY <1>2, SameWindows DEF CursorsCover
<1>7. AnswerCovers' BY <1>2, <1>4, SameWindows DEF AnswerCovers
<1>8. Advances' BY <1>2, <1>4 DEF Advances, Before
<1>9. Stored' BY <1>2 DEF Stored
<1> QED BY <1>5, <1>6, <1>7, <1>8, <1>9

(* A step inside a batch: the answer stays, and what was given to the      *)
(* device stays given.                                                     *)
LEMMA InsideInv ==
  ASSUME IInv, TypeOK', Counted', Answered, Answered',
         UNCHANGED <<clock, stamp, lastSync, start, previous, reply>>,
         have \union refused \subseteq have' \union refused',
         \A c \in Channel : Given(c) \subseteq Given(c)',
         CursorsCover', Stored',
         \A c \in Channel : cursor'[c] \in {cursor[c], reply[c].next}
  PROVE  IInv'
<1> USE DEF IInv
<1>1. Stamped' BY DEF Stamped
<1>2. AnswerCovers' BY SameWindows DEF AnswerCovers
<1>3. Advances' BY DEF Advances, Answered, Before
<1> QED BY <1>1, <1>2, <1>3

LEMMA SaveInv ==
  ASSUME IInv, TypeOK', Counted', Acknowledge \/ SaveSessions \/ SaveMemories
  PROVE  IInv'
<1> USE DEF IInv
<1>1. /\ UNCHANGED <<clock, stamp, lastSync, start, previous, reply, cursor>>
      /\ have \union refused \subseteq have' \union refused'
      /\ Answered /\ Answered'
      /\ phase' \in {"sessions", "memories", "memoryCursor"}
  BY DEF Acknowledge, SaveSessions, SaveMemories, others, Answered, Phase
<1>2. ASSUME NEW c \in Channel PROVE Given(c) \subseteq Given(c)'
  <2>1. CASE Acknowledge
    BY <2>1 DEF Acknowledge, Given, Unsaved
  <2>2. CASE SaveSessions
    BY <2>2, ReplyParts DEF SaveSessions, Given, Unsaved, Channel
  <2>3. CASE SaveMemories
    BY <2>3, ReplyParts DEF SaveMemories, Given, Unsaved, Channel
  <2> QED BY <2>1, <2>2, <2>3
<1>3. CursorsCover' BY <1>1, SameWindows DEF CursorsCover
<1>4. Stored' BY <1>1 DEF Stored
<1> QED BY <1>1, <1>2, <1>3, <1>4, InsideInv

(* By the time a channel's cursor is stored, its page is saved.            *)
LEMMA StoreInv ==
  ASSUME IInv, TypeOK', Counted', StoreMemoryCursor \/ StoreSessionCursor
  PROVE  IInv'
<1> USE DEF IInv
<1>1. /\ UNCHANGED <<clock, stamp, lastSync, start, previous, reply, have, refused>>
      /\ Answered /\ Answered'
      /\ phase \in {"memoryCursor", "sessionCursor"}
      /\ phase' \in {"sessionCursor", "decide"}
  BY DEF StoreMemoryCursor, StoreSessionCursor, others, Answered, Phase
<1>2. \A c \in Channel : Given(c) = have \union refused /\ Given(c)' = Given(c)
  BY <1>1 DEF Given, Unsaved
<1>3. PICK a \in Channel :
        /\ cursor' = [cursor EXCEPT ![a] = reply[a].next]
        /\ a = IF phase = "memoryCursor" THEN "memories" ELSE "sessions"
        /\ phase' = IF phase = "memoryCursor" THEN "sessionCursor" ELSE "decide"
  BY DEF StoreMemoryCursor, StoreSessionCursor, StoreCursor, Channel
<1>4. /\ cursor'[a] = reply[a].next
      /\ \A c \in Channel \ {a} : cursor'[c] = cursor[c]
  BY <1>3 DEF TypeOK
<1>5. Behind(a, reply[a].next) \subseteq have \union refused
  <2>1. CASE reply[a].more BY <1>1, <1>2, <2>1 DEF AnswerCovers
  <2>2. CASE ~reply[a].more
    <3>1. reply[a].next = Zero BY <1>1, <2>2 DEF AnswerCovers
    <3>2. Behind(a, Zero) = {} BY KeyType, RowFacts DEF Behind
    <3> QED BY <3>1, <3>2
  <2> QED BY <2>1, <2>2
<1>6. CursorsCover'
  <2>1. ASSUME NEW c \in Channel, NEW k, k = cursor'[c]
        PROVE  Behind(c, k) \subseteq have \union refused
    <3>1. CASE c = a BY <1>4, <1>5, <2>1, <3>1
    <3>2. CASE c # a BY <1>4, <2>1, <3>2 DEF CursorsCover
    <3> QED BY <3>1, <3>2
  <2> QED BY <1>1, <2>1 DEF CursorsCover, Behind, InWindow, Key, Before
<1>7. Stored'
  <2>1. CASE phase = "memoryCursor" BY <1>1, <1>3, <1>4, <2>1 DEF Stored
  <2>2. CASE phase = "sessionCursor"
    BY <1>1, <1>3, <1>4, <2>2 DEF Stored, Channel
  <2> QED BY <1>1, <2>1, <2>2
<1> QED BY <1>1, <1>2, <1>3, <1>4, <1>6, <1>7, InsideInv

(* A drain that stops by itself: both channels are done, so what was there *)
(* when it began is here.                                                  *)
LEMMA StopHasAll ==
  ASSUME IInv, StopFinished \/ StopStuck
  PROVE  \A c \in Channel : Older(c) \subseteq have \union refused
<1> USE DEF IInv
<1>1. phase = "decide" /\ Answered
  BY DEF StopFinished, StopStuck, Answered, Phase
<1>2. \A c \in Channel : ~reply[c].more
  <2>1. CASE StopFinished
    BY <2>1, ReplyParts DEF StopFinished, Finished, Channel
  <2>2. CASE StopStuck
    <3>1. cursor = previous BY <2>2 DEF StopStuck, PullAdvanced
    <3>2. ASSUME NEW c \in Channel, reply[c].more PROVE FALSE
      <4>1. cursor[c] = reply[c].next BY <1>1 DEF Stored, Channel
      <4>2. Before(cursor[c], cursor[c]) BY <1>1, <3>1, <3>2, <4>1 DEF Advances
      <4>3. cursor[c] \in Nat \X Nat BY KeyNat DEF TypeOK
      <4> QED BY <4>2, <4>3, BeforeOrders
    <3> QED BY <3>2
  <2> QED BY <2>1, <2>2
<1> QED BY <1>1, <1>2 DEF AnswerCovers, Given, Unsaved

(* However a drain stops, the watermark moves forward and the cursors      *)
(* stay, so they leave no more behind than they did.                       *)
LEMMA StopInv ==
  ASSUME IInv, TypeOK', Counted', phase # "idle", Stop
  PROVE  IInv'
<1> USE DEF IInv
<1>1. /\ UNCHANGED <<clock, stamp, have, cursor, refused>>
      /\ lastSync' = start /\ phase' = "idle" /\ reply' = NoReply /\ ~Answered'
  BY DEF Stop, DrainOver, Watermark, Answered, others
<1>2. lastSync <= start BY DEF Counted
<1>3. CursorsCover'
  <2>1. ASSUME NEW c \in Channel, NEW k, NEW r \in Behind(c, k)'
        PROVE  r \in Behind(c, k)
    <3>1. r \in RowsOf[c] /\ r \in Row /\ stamp[r] # 0 /\ ~Before(k, Key(r))
      BY <1>1, <2>1, RowFacts DEF Behind, Key, Before
    <3>2. stamp[r] >= start BY <1>1, <2>1 DEF Behind, InWindow
    <3>3. stamp[r] \in Nat /\ start \in Nat /\ lastSync \in Nat
      BY <3>1 DEF TypeOK
    <3> QED BY <1>2, <3>1, <3>2, <3>3 DEF Behind, InWindow
  <2> QED BY <1>1, <2>1 DEF CursorsCover
<1>4. Stamped'
  <2>1. \A c \in Channel : reply'[c].next[1] = 0
    BY <1>1 DEF NoReply, Nothing, Channel, Zero
  <2>2. \A c \in Channel : cursor[c][1] \in Nat /\ cursor[c][1] < clock
    BY KeyNat DEF TypeOK, Stamped
  <2>3. 0 < clock BY <2>2 DEF Channel, TypeOK
  <2> QED BY <1>1, <2>1, <2>3 DEF Stamped
<1>5. AnswerCovers' /\ Advances' /\ Stored'
  BY <1>1 DEF AnswerCovers, Advances, Stored
<1> QED BY <1>3, <1>4, <1>5

(* A drain that fails, begins or goes on keeps the cursors it has.         *)
LEMMA TurnInv ==
  ASSUME IInv, TypeOK', Counted',
         Fail \/ Continue \/ \E p \in Policies : StartDrain(p)
  PROVE  IInv'
<1> USE DEF IInv
<1>1. /\ UNCHANGED <<clock, stamp, have, lastSync, cursor, refused>>
      /\ phase' \in {"idle", "ask"} /\ ~Answered'
      /\ reply' \in {reply, NoReply}
      /\ phase' = "ask" => \A c \in Channel : previous'[c] \in {cursor[c], Zero}
  BY DEF Fail, Continue, StartDrain, DrainOver, others, kept, Answered, Phase, Counted
<1>2. \A c \in Channel : cursor[c][1] \in Nat /\ cursor[c][1] < clock
  BY KeyNat DEF TypeOK, Stamped
<1>3. Stamped'
  <2>1. "memories" \in Channel /\ 0 < clock
    <3>1. cursor["memories"][1] \in Nat /\ cursor["memories"][1] < clock /\ clock \in Nat
      BY <1>2 DEF Channel, TypeOK
    <3> QED BY <3>1 DEF Channel
  <2>2. \A c \in Channel : NoReply[c].next[1] = 0
    BY DEF NoReply, Nothing, Zero, Channel
  <2> QED BY <1>1, <2>1, <2>2 DEF Stamped
<1>4. CursorsCover' BY <1>1, SameWindows DEF CursorsCover
<1>5. AnswerCovers' /\ Advances' /\ Stored'
  BY <1>1 DEF AnswerCovers, Advances, Stored
<1> QED BY <1>3, <1>4, <1>5

LEMMA StutterInv == IInv /\ UNCHANGED vars => IInv'
BY SameWindows
   DEF IInv, vars, others, kept, drain, Stamped, Counted, CursorsCover,
       AnswerCovers, Advances, Stored, Answered, Given, Unsaved,
       Before, TypeOK, Key0, Answer

LEMMA NextInv ==
  ASSUME Lag = 0, IInv, [Next]_vars
  PROVE  IInv'
<1>1. TypeOK' /\ Counted' BY TypeStep DEF IInv
<1>2. CASE \E S \in SUBSET Row, at \in 1 .. clock : Write(S, at)
  BY <1>1, <1>2, WriteInv
<1>3. CASE StopFinished \/ StopAuto \/ StopStuck \/ StopAtCap
  BY <1>1, <1>3, StopInv DEF StopFinished, StopAuto, StopStuck, StopAtCap
<1>4. CASE UNCHANGED vars BY <1>4, StutterInv
<1> QED
  BY <1>1, <1>2, <1>3, <1>4, AskInv, SaveInv, StoreInv, TurnInv
     DEF Next, BatchStep

(* A drain that reports fully_synced has all that its window held when it  *)
(* began (FullySyncedHasAll): under either policy, and from wherever the   *)
(* drains before it, finished, failed or cut short, left the two cursors   *)
(* (syncer.go, DrainFullySynced and the hasMore of its last batch).        *)
THEOREM FullySynced ==
  ASSUME Lag = 0
  PROVE  Spec => FullySyncedHasAll
<1>1. IInv /\ [Next]_vars => IInv' BY NextInv
<1>2. ASSUME IInv, StopFinished PROVE Due \subseteq have \union refused
  <2>1. ASSUME NEW r \in Due PROVE \E c \in Channel : r \in Older(c)
    <3>1. PICK c \in Channel : r \in RowsOf[c]
      BY <2>1, RowFacts DEF Due, Row, Channel
    <3> QED BY <2>1, <3>1 DEF Due, Older
  <2> QED BY <1>2, <2>1, StopHasAll
<1>3. IInv /\ [Next]_vars => [StopFinished => Due \subseteq have \union refused]_vars
  BY <1>2
<1> QED BY <1>1, <1>3, InitInv, PTL DEF Spec, FullySyncedHasAll

-----------------------------------------------------------------------------
(* The watermark.  Only a stop moves it, and only rows of the drain's      *)
(* window come to be before it.                                            *)
LEMMA MissedStep ==
  ASSUME Lag = 0, IInv, NothingMissed, [Next]_vars, ~CutShort
  PROVE  NothingMissed'
<1> USE DEF IInv
<1>1. CASE \E S \in SUBSET Row, at \in 1 .. clock : Write(S, at)
  <2>1. PICK S \in SUBSET Row, at \in 1 .. clock : Write(S, at) BY <1>1
  <2>2. /\ clock \in Nat /\ lastSync \in 0 .. clock
        /\ \A r \in Row : stamp'[r] = IF r \in S THEN clock ELSE stamp[r]
        /\ UNCHANGED <<have, lastSync, refused>>
    BY <2>1 DEF Write, TypeOK, kept
  <2>3. ASSUME NEW r \in Passed' PROVE r \in Passed
    <3>1. r \in Row /\ stamp'[r] # 0 /\ stamp'[r] < lastSync
      BY <2>2, <2>3 DEF Passed
    <3>2. r \notin S BY <2>2, <3>1
    <3> QED BY <2>2, <3>1, <3>2 DEF Passed
  <2> QED BY <2>2, <2>3 DEF NothingMissed
<1>2. CASE StopFinished \/ StopStuck
  <2>1. lastSync' = start /\ UNCHANGED <<stamp, have, refused>>
    BY <1>2 DEF StopFinished, StopStuck, Stop, Watermark, others
  <2>2. ASSUME NEW r \in Passed' PROVE r \in have \union refused
    <3>1. r \in Row /\ stamp[r] # 0 /\ stamp[r] < start
      BY <2>1, <2>2 DEF Passed
    <3>2. stamp[r] \in Nat /\ lastSync \in Nat BY <3>1 DEF TypeOK
    <3>3. CASE stamp[r] < lastSync BY <3>1, <3>3 DEF NothingMissed, Passed
    <3>4. CASE stamp[r] >= lastSync
      <4>1. PICK c \in Channel : r \in RowsOf[c]
        BY <3>1, RowFacts DEF Row, Channel
      <4>2. r \in Older(c) BY <3>1, <3>4, <4>1 DEF Older, InWindow
      <4> QED BY <1>2, <4>1, <4>2, StopHasAll
    <3> QED BY <3>2, <3>3, <3>4
  <2> QED BY <2>1, <2>2 DEF NothingMissed
<1>3. CASE /\ UNCHANGED <<stamp, lastSync>>
           /\ have \union refused \subseteq have' \union refused'
  BY <1>3, SameWindows DEF NothingMissed
<1>4. \/ \E S \in SUBSET Row, at \in 1 .. clock : Write(S, at)
      \/ StopFinished \/ StopStuck
      \/ /\ UNCHANGED <<stamp, lastSync>>
         /\ have \union refused \subseteq have' \union refused'
  BY DEF Next, BatchStep, CutShort, StartDrain, Ask, Acknowledge, SaveSessions,
         SaveMemories, StoreMemoryCursor, StoreSessionCursor, Continue, Fail,
         vars, others, kept
<1> QED BY <1>1, <1>2, <1>3, <1>4

(* The watermark never passes a row the device was not given (NothingMissed) *)
(* if no drain is cut short, however drains fail, crash, resume from their  *)
(* stored cursors and run into other devices' writes (syncer.go, the loop   *)
(* of Drain and RecordSyncSuccess).                                         *)
THEOREM WatermarkIsSafe ==
  ASSUME Lag = 0
  PROVE  Spec /\ [][~CutShort]_vars => []NothingMissed
<1> DEFINE I == IInv /\ NothingMissed
<1>1. Init => I
  <2>1. Init => NothingMissed
    BY InitType DEF Init, NothingMissed, Passed, TypeOK
  <2> QED BY <2>1, InitInv
<1>2. I /\ [Next]_vars /\ [~CutShort]_vars => I'
  <2>1. ASSUME I, UNCHANGED vars PROVE NothingMissed'
    BY <2>1, SameWindows DEF NothingMissed, vars, others, kept
  <2> QED BY <2>1, NextInv, MissedStep
<1>3. I => NothingMissed OBVIOUS
<1> QED BY <1>1, <1>2, <1>3, PTL DEF Spec

-----------------------------------------------------------------------------
(* The inductive invariant of SessionsPrecede.                             *)
LEMMA InitSessions == Init => SInv
<1> SUFFICES ASSUME Init PROVE SInv
  OBVIOUS
<1>1. \A s \in Session : stamp[s] \in Nat
  <2>1. Joined \in Nat BY PullSweepAssumption
  <2> QED BY <2>1, RowFacts DEF Init
<1>2. HereBefore(lastSync) BY <1>1 DEF Init, HereBefore
<1>3. OnePage BY DEF Init, OnePage, NoReply, Nothing, Channel
<1> QED BY <1>2, <1>3 DEF Init, SInv, OwnersFirst, SessionsHere, OwnersDue

LEMMA OwnerType == \A m \in Memory : Owner[m] \in Session /\ Owner[m] \in Row
BY PullSweepAssumption, RowFacts

(* A window of sessions that fits a page is one page.                      *)
LEMMA AllOnOnePage ==
  ASSUME Cardinality(Session) <= Page,
         NEW S, IsFirstPage(S, Window("sessions"))
  PROVE  S = Window("sessions")
<1> DEFINE W == Window("sessions")
<1>1. W \in SUBSET Session BY WindowType, RowFacts DEF Channel
<1>2. IsFiniteSet(Session) BY PullSweepAssumption
<1>3. IsFiniteSet(W) /\ Cardinality(W) <= Cardinality(Session)
  BY <1>1, <1>2, FS_Subset
<1>4. Cardinality(W) \in Nat /\ Cardinality(Session) \in Nat /\ Page \in Nat
  BY <1>2, <1>3, FS_CardinalityType, PullSweepAssumption
<1>5. S \in SUBSET W /\ Cardinality(S) = Cardinality(W)
  BY <1>3, <1>4 DEF IsFirstPage
<1> QED BY <1>3, <1>5, FS_Subset

(* A session is written before, or with, its memories; what is written     *)
(* during a drain is not of before its start.                              *)
LEMMA WriteSessions ==
  ASSUME Lag = 0, TypeOK, SInv, NEW S \in SUBSET Row, NEW at \in 1 .. clock,
         Write(S, at)
  PROVE  SInv'
<1>1. /\ clock \in Nat \ {0} /\ at = clock
      /\ \A r \in Row : stamp'[r] = IF r \in S THEN clock ELSE stamp[r]
      /\ UNCHANGED <<have, lastSync, cursor, refused, phase, start, batches, reply>>
  BY DEF Write, TypeOK, kept, drain
<1>2. lastSync \in 0 .. clock /\ start \in 0 .. clock BY DEF TypeOK
<1>3. OwnersFirst'
  <2>1. ASSUME NEW m \in Memory, stamp'[m] # 0 PROVE stamp'[Owner[m]] # 0
    <3>1. m \in Row /\ Owner[m] \in Row BY RowFacts, OwnerType
    <3>2. CASE m \in S
      <4>1. Owner[m] \in S \/ stamp[Owner[m]] # 0 BY <3>2 DEF Write
      <4> QED BY <1>1, <3>1, <4>1
    <3>3. CASE m \notin S
      BY <1>1, <2>1, <3>1, <3>3 DEF SInv, OwnersFirst
    <3> QED BY <3>2, <3>3
  <2> QED BY <2>1 DEF OwnersFirst
<1>4. \A s \in Session : stamp'[s] < lastSync \/ stamp'[s] < start =>
        stamp'[s] = stamp[s]
  BY <1>1, <1>2, RowFacts
<1>5. HereBefore(lastSync) => HereBefore(lastSync)' BY <1>1, <1>4 DEF HereBefore
<1>6. HereBefore(start) => HereBefore(start)' BY <1>1, <1>4 DEF HereBefore
<1>7. Given("sessions")' = Given("sessions") BY <1>1 DEF Given, Unsaved
<1>8. SessionsHere'
  BY <1>1, <1>4, <1>5, <1>6, <1>7 DEF SInv, SessionsHere
<1> QED BY <1>1, <1>3, <1>7, <1>8 DEF SInv, OnePage, OwnersDue

LEMMA AskSessions ==
  ASSUME Cardinality(Session) <= Page, TypeOK, SInv, Ask
  PROVE  SInv'
<1>1. PICK S \in SUBSET Session, M \in SUBSET Memory :
        /\ IsFirstPage(S, Window("sessions"))
        /\ IsFirstPage(M, Window("memories"))
        /\ reply'["sessions"] = [page |-> S, more |-> S # Window("sessions"),
                                 next |-> NextOf(S, "sessions")]
        /\ reply'["memories"].page = M
  BY DEF Ask, NextOf
<1>2. /\ phase = "ask" /\ phase' = "ack"
      /\ UNCHANGED <<stamp, have, lastSync, cursor, start, batches, refused>>
  BY DEF Ask, others, kept
<1>3. S = Window("sessions") /\ reply'["sessions"].next = Zero
  BY <1>1, AllOnOnePage DEF NextOf
<1>4. Given("sessions")' = have \union refused \union S
  BY <1>1, <1>2 DEF Given, Unsaved
<1>5. ASSUME NEW s \in Session, stamp[s] # 0 PROVE s \in Given("sessions")'
  <2>1. stamp[s] \in Nat /\ lastSync \in Nat BY RowFacts DEF TypeOK
  <2>2. CASE stamp[s] < lastSync
    BY <1>4, <1>5, <2>2 DEF SInv, SessionsHere, HereBefore
  <2>3. CASE stamp[s] >= lastSync
    <3>1. Before(Zero, Key(s)) BY <1>5, KeyType, RowFacts
    <3>2. s \in Window("sessions")
      BY <1>5, <2>3, <3>1, RowFacts DEF Window, InWindow, SInv, OnePage
    <3> QED BY <1>3, <1>4, <3>2
  <2> QED BY <2>1, <2>2, <2>3
<1>6. SessionsHere'
  BY <1>2, <1>5 DEF SInv, SessionsHere, HereBefore
<1>7. OwnersDue'
  <2>1. ASSUME NEW m \in M PROVE Owner[m] \in Given("sessions")'
    <3>1. m \in Window("memories") BY <1>1, <2>1 DEF IsFirstPage
    <3>2. m \in Memory /\ stamp[m] # 0 BY <2>1, <3>1 DEF Window
    <3>3. Owner[m] \in Session /\ stamp[Owner[m]] # 0
      BY <3>2, OwnerType DEF SInv, OwnersFirst
    <3> QED BY <1>5, <3>3
  <2> QED BY <1>1, <1>2, <2>1 DEF OwnersDue
<1> QED BY <1>2, <1>3, <1>6, <1>7 DEF SInv, OnePage, OwnersFirst

(* Inside a batch: the sessions are saved before the memories that need    *)
(* them.                                                                   *)
LEMMA BatchSessions ==
  ASSUME TypeOK, SInv,
         \/ Acknowledge \/ SaveSessions \/ SaveMemories \/ StoreMemoryCursor
         \/ StoreSessionCursor \/ Continue
  PROVE  SInv'
<1>1. UNCHANGED <<stamp, lastSync, start, reply>> /\ have \subseteq have'
  BY DEF Acknowledge, SaveSessions, SaveMemories, StoreMemoryCursor,
         StoreSessionCursor, Continue, others, kept
<1>2. OwnersFirst' BY <1>1 DEF SInv, OwnersFirst
<1>3. OnePage'
  <2>1. cursor'["sessions"] = Zero
    BY DEF Acknowledge, SaveSessions, SaveMemories, StoreMemoryCursor, StoreCursor,
           StoreSessionCursor, Continue, kept, SInv, OnePage, TypeOK, Channel
  <2> QED BY <1>1, <2>1 DEF SInv, OnePage
<1>4. HereBefore(lastSync)' BY <1>1 DEF SInv, SessionsHere, HereBefore
<1>5. HereBefore(start) => HereBefore(start)' BY <1>1 DEF HereBefore
<1>6. CASE Acknowledge
  <2>1. /\ phase = "ack" /\ phase' = "sessions"
        /\ UNCHANGED <<have, refused, batches>>
    BY <1>6 DEF Acknowledge
  <2>2. Given("sessions")' = Given("sessions") BY <1>1, <2>1 DEF Given, Unsaved
  <2> QED BY <1>1, <1>2, <1>3, <1>4, <1>5, <2>1, <2>2
             DEF SInv, SessionsHere, OwnersDue
<1>7. CASE SaveSessions
  <2>1. /\ phase = "sessions" /\ phase' = "memories"
        /\ UNCHANGED <<refused, batches>>
        /\ have' = have \union reply["sessions"].page
    BY <1>7, ReplyParts DEF SaveSessions
  <2>2. Given("sessions") \subseteq have'
    BY <2>1 DEF Given, Unsaved, SInv
  <2>3. HereBefore(start)' BY <1>1, <2>1, <2>2 DEF SInv, SessionsHere, HereBefore
  <2>4. OwnersDue' BY <1>1, <2>1, <2>2 DEF SInv, OwnersDue
  <2> QED BY <1>2, <1>3, <1>4, <2>1, <2>3, <2>4 DEF SInv, SessionsHere
<1>8. CASE SaveMemories
  <2>1. phase = "memories" /\ phase' = "memoryCursor" BY <1>8 DEF SaveMemories
  <2>2. refused' = {}
    BY <1>8, <2>1, ReplyParts DEF SaveMemories, Storable, SInv, OwnersDue
  <2> QED BY <1>2, <1>3, <1>4, <1>5, <2>1, <2>2 DEF SInv, SessionsHere, OwnersDue
<1>9. CASE StoreMemoryCursor \/ StoreSessionCursor \/ Continue
  <2>1. /\ phase \in {"memoryCursor", "sessionCursor", "decide"}
        /\ phase' \in {"sessionCursor", "decide", "ask"} /\ refused' = refused
    BY <1>9 DEF StoreMemoryCursor, StoreSessionCursor, Continue
  <2> QED BY <1>2, <1>3, <1>4, <1>5, <2>1 DEF SInv, SessionsHere, OwnersDue
<1> QED BY <1>6, <1>7, <1>8, <1>9

(* The start of a drain that did a batch is a safe watermark, whatever     *)
(* stops it.                                                               *)
LEMMA TurnSessions ==
  ASSUME TypeOK, Counted, SInv,
         \/ StopFinished \/ StopAuto \/ StopStuck \/ StopAtCap \/ Fail
         \/ \E p \in Policies : StartDrain(p)
  PROVE  SInv'
<1>1. UNCHANGED <<stamp, have, cursor, refused>>
  BY DEF StopFinished, StopAuto, StopStuck, StopAtCap, Stop, Fail, StartDrain,
         others, kept
<1>2. reply'["sessions"].next = Zero
  BY DEF StopFinished, StopAuto, StopStuck, StopAtCap, Stop, Fail, StartDrain,
         DrainOver, NoReply, Nothing, SInv, OnePage
<1>3. OwnersFirst' /\ OnePage' BY <1>1, <1>2 DEF SInv, OwnersFirst, OnePage
<1>4. phase' = "idle" \/ (phase' = "ask" /\ batches' = 0)
  BY DEF StopFinished, StopAuto, StopStuck, StopAtCap, Stop, Fail, StartDrain,
         DrainOver, Counted
<1>5. HereBefore(lastSync)'
  <2>1. CASE Fail \/ \E p \in Policies : StartDrain(p)
    BY <1>1, <2>1 DEF Fail, StartDrain, kept, SInv, SessionsHere, HereBefore
  <2>2. CASE StopFinished \/ StopAuto \/ StopStuck \/ StopAtCap
    <3>1. lastSync' = start
      BY <2>2 DEF StopFinished, StopAuto, StopStuck, StopAtCap, Stop, Watermark
    <3>2. phase = "decide" \/ (phase = "ask" /\ batches # 0)
      BY <2>2, PullSweepAssumption
         DEF StopFinished, StopAuto, StopStuck, StopAtCap, AtCap, TypeOK
    <3>3. HereBefore(start) BY <3>2 DEF SInv, SessionsHere
    <3> QED BY <1>1, <3>1, <3>3 DEF HereBefore
  <2> QED BY <2>1, <2>2
<1> QED BY <1>1, <1>3, <1>4, <1>5 DEF SInv, SessionsHere, OwnersDue

LEMMA NextSessions ==
  ASSUME Lag = 0, Cardinality(Session) <= Page, TypeOK, Counted, SInv, [Next]_vars
  PROVE  SInv'
<1>1. CASE UNCHANGED vars
  BY <1>1 DEF vars, others, kept, drain, SInv, OwnersFirst, OnePage, SessionsHere,
              OwnersDue, HereBefore, Given, Unsaved
<1> QED
  BY <1>1, WriteSessions, AskSessions, BatchSessions, TurnSessions
     DEF Next, BatchStep

(* While one page holds all sessions, no memory is lost to the foreign key *)
(* (SessionsPrecede): whatever policy drains, wherever they stop, fail or  *)
(* resume, a memory's session came before it or comes with it              *)
(* (syncer.go:1121, sessions are saved before memories).                   *)
THEOREM NoneRefused ==
  ASSUME Lag = 0
  PROVE  Spec => []SessionsPrecede
<1>1. CASE ~(Cardinality(Session) <= Page)
  <2>1. SessionsPrecede BY <1>1 DEF SessionsPrecede
  <2> QED BY <2>1, PTL
<1>2. CASE Cardinality(Session) <= Page
  <2>1. Init => TypeOK /\ Counted /\ SInv BY InitType, InitSessions
  <2>2. TypeOK /\ Counted /\ SInv /\ [Next]_vars => (TypeOK /\ Counted /\ SInv)'
    BY <1>2, TypeStep, NextSessions
  <2>3. SInv => SessionsPrecede BY DEF SInv, SessionsPrecede
  <2> QED BY <2>1, <2>2, <2>3, PTL DEF Spec
<1> QED BY <1>1, <1>2
=============================================================================
