-------------------------- MODULE GpuLedgerProofs --------------------------
(***************************************************************************)
(* For every set of stage kinds and every bound: the accounting keeps its  *)
(* shape, a closed session has been charged for, no guard lets a stage     *)
(* work while a predecessor is missing from its arithmetic, and nothing is *)
(* charged that no stage or heartbeat vouches for.                         *)
(*                                                                         *)
(* ChargedSinceOpen is not inductive: the charge and the close row are two *)
(* steps, and anything may happen between them.  LInv adds what the first  *)
(* step leaves behind for the second (ClosingCharged); that the ledger     *)
(* never shrinks does the rest.                                            *)
(*                                                                         *)
(* NoInventedSeconds needs what each session can still be charged (Owed)   *)
(* and a share of the time vouched for that covers it (Shares): a charge   *)
(* takes from the share of its session what it adds to the ledger.  A      *)
(* split of the time among the sessions is enough; it is given step by     *)
(* step, so nothing has to be summed.                                      *)
(***************************************************************************)
EXTENDS GpuLedger, FiniteSetTheorems, SequenceTheorems, TLAPS

ClosingCharged ==
  \/ closing = NoClose
  \/ /\ closing.session # 0
     /\ ledger >= sessions[closing.session].atOpen + closing.observed

(* No open row records more than the ledger holds. *)
OpenedBelow == \A s \in Ids : sessions[s].atOpen <= ledger

LInv == LedgerTypeOK /\ ChargedSinceOpen /\ ClosingCharged /\ OpenedBelow

(* What the type says of the journal's records. *)
LEMMA SessionFields ==
  ASSUME LedgerTypeOK
  PROVE  /\ Len(sessions) \in Nat
         /\ \A s \in Ids : /\ sessions[s] \in Session
                           /\ sessions[s].opened \in Nat /\ sessions[s].atOpen \in Nat
                           /\ sessions[s].last \in Nat /\ sessions[s].closed \in BOOLEAN
                           /\ sessions[s].observed \in Nat
<1>1. sessions \in Seq(Session)
  BY DEF LedgerTypeOK
<1>2. Len(sessions) \in Nat /\ \A s \in Ids : sessions[s] \in Session
  BY <1>1 DEF Ids
<1> QED
  BY <1>2 DEF Session

LEMMA LInvInit == Init => LInv
<1> SUFFICES ASSUME Init PROVE LInv
  OBVIOUS
<1>1. sessions \in Seq(Session) /\ Len(sessions) = 0 /\ Ids = {}
  BY DEF Init, Ids
<1>2. LedgerTypeOK
  BY <1>1 DEF Init, LedgerTypeOK, NoTime, NoClose
<1> QED
  BY <1>1, <1>2 DEF Init, LInv, ChargedSinceOpen, ClosingCharged, NoClose, OpenedBelow

(* The steps that leave the journal alone only ever add to the ledger. *)
LEMMA JournalUntouched ==
  ASSUME LInv, LedgerTypeOK', sessions' = sessions, ledger' >= ledger,
         closing' = closing \/ closing' = NoClose
  PROVE  LInv'
<1>1. ChargedSinceOpen'
  BY SessionFields DEF LInv, LedgerTypeOK, ChargedSinceOpen, Ids, Open
<1>2. ClosingCharged'
  <2>1. CASE closing' = NoClose
    BY <2>1 DEF ClosingCharged, NoClose
  <2>2. CASE closing' = closing /\ closing.session # 0
    <3>1. closing.session \in Ids /\ closing.observed \in Nat /\ ledger \in Nat
      BY <2>2 DEF LInv, LedgerTypeOK
    <3>2. sessions[closing.session].atOpen \in Nat
      BY <3>1, SessionFields DEF LInv
    <3> QED
      BY <2>2, <3>1, <3>2 DEF LInv, LedgerTypeOK, ClosingCharged
  <2> QED
    BY <2>1, <2>2 DEF LInv, ClosingCharged
<1>3. OpenedBelow'
  BY SessionFields DEF LInv, LedgerTypeOK, OpenedBelow, Ids
<1> QED
  BY <1>1, <1>2, <1>3 DEF LInv

(* What a receipt adds is never negative. *)
LEMMA ReceiptGrows ==
  ASSUME LedgerTypeOK, timer # NoTime
  PROVE  ledger + (clock - timer) \in Nat /\ ledger + (clock - timer) >= ledger
  BY DEF LedgerTypeOK, NoTime

(* The sessions vouched for are finitely many. *)
LEMMA VouchedFinite ==
  ASSUME LedgerTypeOK
  PROVE  Cardinality(Vouched) \in Nat
<1>1. Vouched \subseteq 0..Len(sessions) /\ Len(sessions) \in Nat
  <2>1. Len(sessions) \in Nat /\ beating \subseteq 1..Len(sessions)
    BY SessionFields DEF LedgerTypeOK, Ids
  <2>2. 1..Len(sessions) \subseteq 0..Len(sessions) /\ Len(sessions) \in 0..Len(sessions)
    BY <2>1
  <2>3. Vouched \subseteq beating \cup {Len(sessions)}
    BY DEF Vouched
  <2> QED
    BY <2>1, <2>2, <2>3
<1>2. IsFiniteSet(0..Len(sessions))
  BY <1>1, FS_Interval
<1> QED
  BY <1>1, <1>2, FS_Subset, FS_CardinalityType

(* Where the ledger has not shrunk, a close counts its growth exactly. *)
LEMMA RemainderOfGrowth ==
  ASSUME LedgerTypeOK, OpenedBelow, NEW s \in Ids, NEW end
  PROVE  Remainder(s, end)
           = Larger(0, (end - sessions[s].opened) - (ledger - sessions[s].atOpen))
<1>1. ledger \in Nat /\ sessions[s].atOpen \in Nat /\ sessions[s].atOpen <= ledger
  BY SessionFields DEF LedgerTypeOK, OpenedBelow
<1>2. Larger(0, ledger - sessions[s].atOpen) = ledger - sessions[s].atOpen
  BY <1>1 DEF Larger
<1> QED
  BY <1>2 DEF Remainder

(* The first half of a close establishes what the second half records. *)
LEMMA ChargeCovers ==
  ASSUME LInv, NEW s \in Ids, NEW end \in Nat, sessions[s].opened <= end, Charge(s, end)
  PROVE  /\ ledger' \in Nat /\ ledger' >= ledger
         /\ closing' \in [session : Ids \cup {0}, observed : Nat]
         /\ closing'.session = s
         /\ ledger' >= sessions[s].atOpen + closing'.observed
<1>1. /\ ledger \in Nat /\ sessions[s].opened \in Nat /\ sessions[s].atOpen \in Nat
      /\ end - sessions[s].opened \in Nat
  BY SessionFields DEF LInv, LedgerTypeOK
<1>2. /\ Remainder(s, end) \in Nat
      /\ Remainder(s, end) >= (end - sessions[s].opened) - (ledger - sessions[s].atOpen)
  BY <1>1, RemainderOfGrowth DEF LInv, Larger
<1>3. /\ ledger' = ledger + Remainder(s, end)
      /\ closing' = [session |-> s, observed |-> end - sessions[s].opened]
  BY DEF Charge
<1>4. ledger' \in Nat /\ ledger' >= ledger
  BY <1>1, <1>2, <1>3
<1>5. ledger' >= sessions[s].atOpen + (end - sessions[s].opened)
  BY <1>1, <1>2, <1>3
<1> QED
  BY <1>1, <1>3, <1>4, <1>5

LEMMA ChargeKeepsLInv ==
  ASSUME LInv, NEW s \in Ids, NEW end \in Nat, sessions[s].opened <= end, Charge(s, end),
         beating' \subseteq beating,
         UNCHANGED <<clock, sessions, driver, stage, child, timer, cur, trap, ghosts>>
  PROVE  LInv'
<1>1. LedgerTypeOK'
  BY ChargeCovers DEF LInv, LedgerTypeOK, Ids, ghosts, Open
<1>2. ChargedSinceOpen'
  <2>1. ledger \in Nat /\ ledger' \in Nat /\ ledger' >= ledger /\ sessions' = sessions
    BY ChargeCovers DEF LInv, LedgerTypeOK
  <2>2. SUFFICES ASSUME NEW t \in Ids, ~ Open(t)
                 PROVE  ledger' >= sessions[t].atOpen + sessions[t].observed
    BY <2>1 DEF ChargedSinceOpen, Ids, Open
  <2>3. ledger >= sessions[t].atOpen + sessions[t].observed
    BY <2>2 DEF LInv, ChargedSinceOpen
  <2>4. sessions[t].atOpen \in Nat /\ sessions[t].observed \in Nat
    BY SessionFields DEF LInv
  <2> QED
    BY <2>1, <2>3, <2>4
<1>3. ClosingCharged'
  <2>1. sessions' = sessions /\ closing'.session = s
        /\ ledger' >= sessions[s].atOpen + closing'.observed
    BY ChargeCovers
  <2> QED
    BY <2>1, SessionFields DEF LInv, ClosingCharged, Ids
<1>4. OpenedBelow'
  <2>1. ledger \in Nat /\ ledger' \in Nat /\ ledger' >= ledger /\ sessions' = sessions
    BY ChargeCovers DEF LInv, LedgerTypeOK
  <2> QED
    BY <2>1, SessionFields DEF LInv, OpenedBelow, Ids
<1> QED
  BY <1>1, <1>2, <1>3, <1>4 DEF LInv

(* A heartbeat moves only the last beat of an open session. *)
LEMMA HeartbeatKeepsLInv ==
  ASSUME LInv, NEW s \in Ids, Heartbeat(s)
  PROVE  LInv'
<1>1. /\ sessions' = [sessions EXCEPT ![s].last = clock] /\ clock \in Nat
      /\ UNCHANGED <<clock, ledger, beating, driver, stage, child, timer, cur, closing,
                     trap, vouched, rejoined>>
  BY DEF LInv, LedgerTypeOK, Heartbeat, actors, ghosts
<1> DEFINE r == [sessions[s] EXCEPT !.last = clock]
<1>2. /\ sessions' \in Seq(Session) /\ Len(sessions') = Len(sessions) /\ Ids' = Ids
      /\ sessions'[s] = r /\ \A t \in Ids : t # s => sessions'[t] = sessions[t]
  <2>1. sessions[s] \in Session /\ r \in Session
    BY <1>1, SessionFields DEF LInv, Session
  <2>2. sessions' = [sessions EXCEPT ![s] = r] /\ sessions \in Seq(Session)
    BY <1>1 DEF LInv, LedgerTypeOK
  <2> HIDE DEF r
  <2> QED
    BY <2>1, <2>2, ExceptSeq DEF Ids
<1>3. \A t \in Ids : /\ sessions'[t].opened = sessions[t].opened
                     /\ sessions'[t].atOpen = sessions[t].atOpen
                     /\ sessions'[t].closed = sessions[t].closed
                     /\ sessions'[t].observed = sessions[t].observed
                     /\ sessions'[t].last = sessions[t].last \/ sessions'[t].last = clock
  BY <1>2, SessionFields DEF LInv, Session
<1>4. LedgerTypeOK'
  BY <1>1, <1>2, <1>3, SessionFields DEF LInv, LedgerTypeOK
<1>5. ChargedSinceOpen' /\ ClosingCharged' /\ OpenedBelow'
  BY <1>1, <1>2, <1>3 DEF LInv, LedgerTypeOK, ChargedSinceOpen, ClosingCharged, Open,
     OpenedBelow
<1> QED
  BY <1>4, <1>5 DEF LInv

(* A stage opens: the new session is open and nothing is closing. *)
LEMMA OpenKeepsLInv ==
  ASSUME LInv, NEW k \in Kinds, OpenStage(k)
  PROVE  LInv'
<1> DEFINE new == [opened |-> clock, atOpen |-> ledger, last |-> clock,
                   closed |-> FALSE, observed |-> 0]
<1>1. /\ sessions' = Append(sessions, new) /\ new \in Session /\ clock \in Nat
      /\ UNCHANGED <<clock, ledger, closing>> /\ closing = NoClose
  BY DEF LInv, LedgerTypeOK, OpenStage, InStage, DriverIdle, Session
<1>2. /\ sessions' \in Seq(Session) /\ Len(sessions') = Len(sessions) + 1
      /\ Ids' = Ids \cup {Len(sessions) + 1} /\ Len(sessions) + 1 \notin Ids
      /\ sessions'[Len(sessions) + 1] = new
      /\ \A t \in Ids : sessions'[t] = sessions[t]
  BY <1>1, SessionFields DEF LInv, LedgerTypeOK, Ids
<1>3. LedgerTypeOK'
  <2>1. /\ clock' \in Nat /\ ledger' \in Nat /\ vouched' \in Nat /\ rejoined' \in BOOLEAN
        /\ driver' \in {"up", "down"} /\ stage' \in Kinds \cup {"none"}
        /\ child' \in {"none", "guarding", "working"} /\ trap' \in {"none", "die", "term"}
        /\ timer' \in 0..clock' \cup {NoTime}
    BY DEF LInv, LedgerTypeOK, OpenStage, ghosts, NoTime
  <2>2. /\ beating' \subseteq Ids' /\ cur' \in Ids' \cup {0}
        /\ closing' \in [session : Ids' \cup {0}, observed : Nat]
    BY <1>1, <1>2 DEF LInv, LedgerTypeOK, OpenStage, NoClose
  <2>3. \A t \in Ids' : sessions'[t].opened <= sessions'[t].last
                        /\ sessions'[t].last <= clock'
    <3>1. new.opened = clock /\ new.last = clock
      OBVIOUS
    <3>2. \A t \in Ids : sessions[t].opened <= sessions[t].last /\ sessions[t].last <= clock
      BY DEF LInv, LedgerTypeOK
    <3>3. clock' = clock /\ clock \in Nat
      BY <1>1
    <3>4. ASSUME NEW t \in Ids
          PROVE  sessions'[t].opened <= sessions'[t].last /\ sessions'[t].last <= clock'
      <4>1. sessions'[t] = sessions[t]
        BY <1>2
      <4> QED
        BY <3>2, <3>3, <4>1
    <3>5. sessions'[Len(sessions) + 1].opened <= sessions'[Len(sessions) + 1].last
          /\ sessions'[Len(sessions) + 1].last <= clock'
      BY <1>2, <3>1, <3>3
    <3> QED
      BY <1>2, <3>4, <3>5
  <2> QED
    BY <1>2, <2>1, <2>2, <2>3 DEF LedgerTypeOK
<1>4. ChargedSinceOpen'
  <2>1. ~ new.closed
    OBVIOUS
  <2> QED
    BY <1>1, <1>2, <2>1 DEF LInv, ChargedSinceOpen, Open
<1>5. ClosingCharged'
  BY <1>1 DEF ClosingCharged
<1>6. OpenedBelow'
  <2>1. new.atOpen = ledger /\ ledger \in Nat /\ ledger' = ledger
    BY <1>1 DEF LInv, LedgerTypeOK
  <2> HIDE DEF new
  <2>2. ASSUME NEW t \in Ids PROVE sessions'[t].atOpen <= ledger'
    <3>1. sessions'[t] = sessions[t] /\ sessions[t].atOpen <= ledger
      BY <1>2 DEF LInv, OpenedBelow
    <3> QED
      BY <2>1, <3>1
  <2>3. sessions'[Len(sessions) + 1].atOpen <= ledger'
    BY <1>2, <2>1
  <2> QED
    BY <1>2, <2>2, <2>3 DEF OpenedBelow
<1> QED
  BY <1>3, <1>4, <1>5, <1>6 DEF LInv

(* The close row records what the charge has covered. *)
LEMMA CloseRowKeepsLInv ==
  ASSUME LInv, CloseRow
  PROVE  LInv'
<1> DEFINE s == closing.session
<1> DEFINE r == [sessions[s] EXCEPT !.closed = TRUE, !.observed = closing.observed]
<1>1. /\ s \in Ids /\ closing.observed \in Nat /\ clock \in Nat /\ ledger \in Nat
      /\ ledger >= sessions[s].atOpen + closing.observed
      /\ closing' = NoClose /\ UNCHANGED <<clock, ledger, driver, child, timer, trap, ghosts>>
  BY DEF LInv, LedgerTypeOK, CloseRow, ClosingCharged
<1>2. /\ sessions' \in Seq(Session) /\ Len(sessions') = Len(sessions) /\ Ids' = Ids
      /\ sessions'[s] = r /\ \A t \in Ids : t # s => sessions'[t] = sessions[t]
  <2>1. sessions[s] \in Session /\ r \in Session
    BY <1>1, SessionFields DEF LInv, Session
  <2>2. sessions' = [sessions EXCEPT ![s] = r] /\ sessions \in Seq(Session)
    BY DEF LInv, LedgerTypeOK, CloseRow
  <2> HIDE DEF r
  <2> QED
    BY <1>1, <2>1, <2>2, ExceptSeq DEF Ids
<1>6. \A t \in Ids : /\ sessions'[t].opened = sessions[t].opened
                     /\ sessions'[t].atOpen = sessions[t].atOpen
                     /\ sessions'[t].last = sessions[t].last
                     /\ t = s => sessions'[t].observed = closing.observed
  <2> SUFFICES ASSUME NEW t \in Ids
               PROVE  /\ sessions'[t].opened = sessions[t].opened
                      /\ sessions'[t].atOpen = sessions[t].atOpen
                      /\ sessions'[t].last = sessions[t].last
                      /\ t = s => sessions'[t].observed = closing.observed
    OBVIOUS
  <2>1. CASE t = s
    <3>1. sessions[s] \in Session
      BY <1>1, SessionFields DEF LInv
    <3>2. /\ r.opened = sessions[s].opened /\ r.atOpen = sessions[s].atOpen
          /\ r.last = sessions[s].last /\ r.observed = closing.observed
      BY <3>1 DEF Session
    <3> HIDE DEF r
    <3> QED
      BY <1>2, <2>1, <3>2
  <2>2. CASE t # s
    BY <1>2, <2>2
  <2> QED
    BY <2>1, <2>2
<1>3. LedgerTypeOK'
  <2>1. /\ beating' \subseteq Ids' /\ cur' \in Ids' \cup {0} /\ stage' \in Kinds \cup {"none"}
        /\ closing' \in [session : Ids' \cup {0}, observed : Nat]
    BY <1>1, <1>2 DEF LInv, LedgerTypeOK, CloseRow, NoClose
  <2>2. \A t \in Ids' : sessions'[t].opened <= sessions'[t].last /\ sessions'[t].last <= clock'
    <3>1. \A t \in Ids : sessions[t].opened <= sessions[t].last /\ sessions[t].last <= clock
      BY DEF LInv, LedgerTypeOK
    <3>2. clock' = clock /\ Ids' = Ids
      BY <1>1, <1>2
    <3> QED
      BY <1>6, <3>1, <3>2
  <2> QED
    BY <1>1, <1>2, <2>1, <2>2 DEF LInv, LedgerTypeOK, ghosts
<1>4. ChargedSinceOpen'
  <2> SUFFICES ASSUME NEW t \in Ids, ~ Open(t)' 
                PROVE ledger' >= sessions'[t].atOpen + sessions'[t].observed
    BY <1>2 DEF ChargedSinceOpen
  <2> HIDE DEF r
  <2>1. CASE t = s
    <3>1. sessions'[t].atOpen = sessions[s].atOpen
          /\ sessions'[t].observed = closing.observed /\ ledger' = ledger
      BY <1>1, <1>6, <2>1
    <3> QED
      BY <1>1, <3>1
  <2>2. CASE t # s
    <3>1. sessions'[t] = sessions[t] /\ ~ Open(t)
      BY <1>2, <2>2 DEF Open
    <3> QED
      BY <1>1, <3>1 DEF LInv, ChargedSinceOpen
  <2> QED
    BY <2>1, <2>2
<1>5. ClosingCharged'
  BY <1>1 DEF ClosingCharged
<1>7. OpenedBelow'
  BY <1>1, <1>2, <1>6 DEF LInv, OpenedBelow
<1> QED
  BY <1>3, <1>4, <1>5, <1>7 DEF LInv

(* Every other step leaves the journal alone; what it adds to the ledger is *)
(* the time since its timer was set.                                        *)
LEMMA LInvStep == LInv /\ [Next]_vars => LInv'
<1> SUFFICES ASSUME LInv, [Next]_vars PROVE LInv'
  OBVIOUS
<1> USE DEF files, actors, ghosts
<1>0. LedgerTypeOK
  BY DEF LInv
<1>1. CASE Tick
  <2>1. LedgerTypeOK'
    BY <1>0, <1>1, VouchedFinite, SessionFields DEF Tick, LedgerTypeOK, Ids, NoTime
  <2> QED
    BY <1>0, <1>1, <2>1, JournalUntouched DEF Tick, LedgerTypeOK
<1>2. ASSUME NEW s \in Ids, Heartbeat(s) PROVE LInv'
  BY <1>2, HeartbeatKeepsLInv
<1>3. ASSUME NEW k \in Kinds, OpenStage(k) PROVE LInv'
  BY <1>3, OpenKeepsLInv
<1>4. CASE StartDriver
  <2>1. LedgerTypeOK'
    BY <1>0, <1>4 DEF StartDriver, LedgerTypeOK, Ids
  <2> QED
    BY <1>0, <1>4, <2>1, JournalUntouched DEF StartDriver, LedgerTypeOK
<1>5. CASE RunChild
  <2>1. LedgerTypeOK'
    BY <1>0, <1>5 DEF RunChild, LedgerTypeOK, Ids, AtPrompt, DriverIdle
  <2> QED
    BY <1>0, <1>5, <2>1, JournalUntouched DEF RunChild, LedgerTypeOK
<1>6. CASE StartUnit
  <2>1. LedgerTypeOK'
    BY <1>0, <1>6 DEF StartUnit, LedgerTypeOK, Ids, NoTime
  <2> QED
    BY <1>0, <1>6, <2>1, JournalUntouched DEF StartUnit, LedgerTypeOK
<1>7. CASE ChildReturns
  <2>1. LedgerTypeOK'
    BY <1>0, <1>7 DEF ChildReturns, LedgerTypeOK, Ids
  <2> QED
    BY <1>0, <1>7, <2>1, JournalUntouched DEF ChildReturns, LedgerTypeOK
<1>8. CASE EndUnjournaled
  <2>1. LedgerTypeOK'
    BY <1>0, <1>8 DEF EndUnjournaled, LedgerTypeOK, Ids, AtPrompt, DriverIdle
  <2> QED
    BY <1>0, <1>8, <2>1, JournalUntouched DEF EndUnjournaled, LedgerTypeOK
<1>9. CASE GuardPasses
  <2>1. LedgerTypeOK'
    BY <1>0, <1>9 DEF GuardPasses, LedgerTypeOK, Ids
  <2> QED
    BY <1>0, <1>9, <2>1, JournalUntouched DEF GuardPasses, LedgerTypeOK
<1>10. CASE LeaveTrap
  <2>1. LedgerTypeOK'
    BY <1>0, <1>10 DEF LeaveTrap, LedgerTypeOK, Ids, NoTime
  <2> QED
    BY <1>0, <1>10, <2>1, JournalUntouched DEF LeaveTrap, LedgerTypeOK
<1>11. CASE KillDriver
  <2>1. LedgerTypeOK'
    BY <1>0, <1>11 DEF KillDriver, LedgerTypeOK, Ids, NoClose
  <2> QED
    BY <1>0, <1>11, <2>1, JournalUntouched DEF KillDriver, LedgerTypeOK
<1>12. CASE OrphanEnds
  <2>1. LedgerTypeOK'
    BY <1>0, <1>12 DEF OrphanEnds, LedgerTypeOK, Ids, NoTime, NoClose
  <2> QED
    BY <1>0, <1>12, <2>1, JournalUntouched DEF OrphanEnds, LedgerTypeOK
<1>13. CASE PowerLoss
  <2>1. LedgerTypeOK'
    BY <1>0, <1>13 DEF PowerLoss, ProcessesDie, LedgerTypeOK, Ids, NoTime, NoClose
  <2> QED
    BY <1>0, <1>13, <2>1, JournalUntouched DEF PowerLoss, ProcessesDie, LedgerTypeOK
<1>14. CASE UnitReceipt
  <2>1. LedgerTypeOK'
    BY <1>0, <1>14, ReceiptGrows DEF UnitReceipt, LedgerTypeOK, Ids, NoTime
  <2> QED
    BY <1>0, <1>14, <2>1, ReceiptGrows, JournalUntouched DEF UnitReceipt
<1>15. ASSUME NEW rotate \in BOOLEAN, DriverReceipt(rotate) PROVE LInv'
  <2>1. LedgerTypeOK'
    BY <1>0, <1>15, ReceiptGrows DEF DriverReceipt, LedgerTypeOK, Ids, NoTime
  <2> QED
    BY <1>0, <1>15, <2>1, ReceiptGrows, JournalUntouched DEF DriverReceipt
<1>16. ASSUME NEW why \in {"die", "term"}, OnExit(why) PROVE LInv'
  <2>1. ledger' \in Nat /\ ledger' >= ledger
    BY <1>0, <1>16, ReceiptGrows DEF OnExit, LedgerTypeOK
  <2>2. LedgerTypeOK'
    BY <1>0, <1>16, <2>1 DEF OnExit, LedgerTypeOK, Ids, NoTime, NoClose
  <2> QED
    BY <1>16, <2>1, <2>2, JournalUntouched DEF OnExit
<1>17. CASE CloseNormally
  <2>1. cur \in Ids /\ clock \in Nat /\ sessions[cur].opened <= clock
    BY <1>0, <1>17, SessionFields DEF CloseNormally, LedgerTypeOK
  <2> QED
    BY <1>17, <2>1, ChargeKeepsLInv DEF CloseNormally
<1>18. CASE CloseInterrupted
  <2>1. cur \in Ids /\ sessions[cur].last \in Nat /\ sessions[cur].opened <= sessions[cur].last
    BY <1>0, <1>18, SessionFields DEF CloseInterrupted, LedgerTypeOK
  <2> QED
    BY <1>18, <2>1, ChargeKeepsLInv DEF CloseInterrupted
<1>19. ASSUME NEW s \in Ids, Reconcile(s) PROVE LInv'
  <2>1. sessions[s].last \in Nat /\ sessions[s].opened <= sessions[s].last
    BY <1>0, SessionFields DEF LedgerTypeOK
  <2> QED
    BY <1>19, <2>1, ChargeKeepsLInv DEF Reconcile
<1>20. CASE CloseRow
  BY <1>20, CloseRowKeepsLInv
<1>21. CASE UNCHANGED vars
  <2>1. LedgerTypeOK'
    BY <1>0, <1>21 DEF vars, LedgerTypeOK, Ids
  <2> QED
    BY <1>0, <1>21, <2>1, JournalUntouched DEF vars, LedgerTypeOK
<1> QED
  BY <1>1, <1>2, <1>3, <1>4, <1>5, <1>6, <1>7, <1>8, <1>9, <1>10, <1>11, <1>12, <1>13, <1>14, <1>15, <1>16, <1>17, <1>18, <1>19, <1>20, <1>21 DEF Next

LEMMA LInvAlways == Spec => []LInv
  BY LInvInit, LInvStep, PTL DEF Spec

(* The journal's records are ordered in time and the processes keep to      *)
(* their states, whichever of them die.                                     *)
THEOREM LedgerType == Spec => []LedgerTypeOK
<1>1. LInv => LedgerTypeOK
  BY DEF LInv
<1> QED
  BY <1>1, LInvAlways, PTL

(* By the time a session is closed, normally, by the exit trap or by a      *)
(* later guard, the ledger has grown by at least what was observed of it,   *)
(* even if a first attempt died between its charge and its close row.       *)
THEOREM ClosedIsCharged == Spec => []ChargedSinceOpen
<1>1. LInv => ChargedSinceOpen
  BY DEF LInv
<1> QED
  BY <1>1, LInvAlways, PTL

(* No killed predecessor hides under the ceiling when a guard lets a stage  *)
(* touch the card.                                                          *)
THEOREM GuardCountsPredecessors == Spec => PredecessorsCounted
<1>1. ASSUME LInv, [Next]_vars
      PROVE  [(child = "guarding" /\ child' = "working") =>
                \A s \in Ids \ {cur} :
                  sessions[s].atOpen + Attested(s) + Projection <= Ceiling]_vars
  <2> SUFFICES ASSUME Next, child = "guarding", child' = "working", NEW s \in Ids \ {cur}
               PROVE  sessions[s].atOpen + Attested(s) + Projection <= Ceiling
    BY <1>1
  <2>1. GuardPasses
    BY DEF Next, Tick, Heartbeat, StartDriver, OpenStage, RunChild, StartUnit, UnitReceipt,
           ChildReturns, DriverReceipt, CloseNormally, CloseInterrupted, Reconcile, CloseRow,
           EndUnjournaled, OnExit, LeaveTrap, KillDriver, OrphanEnds, PowerLoss, ProcessesDie,
           files, actors, AtPrompt
  <2>2. s \in Ids /\ ~ Open(s)
    BY <2>1 DEF GuardPasses, Abandoned, Live
  <2>3. Attested(s) = sessions[s].observed
        /\ ledger >= sessions[s].atOpen + sessions[s].observed
    BY <1>1, <2>2 DEF LInv, ChargedSinceOpen, Attested
  <2>4. /\ sessions[s].atOpen \in Nat /\ sessions[s].observed \in Nat /\ ledger \in Nat
        /\ Projection \in Nat /\ Ceiling \in Nat
    BY <1>1, <2>2, SessionFields, LedgerAssumption DEF LInv, LedgerTypeOK, LedgerAssumption
  <2> QED
    BY <2>1, <2>3, <2>4 DEF GuardPasses
<1> QED
  BY <1>1, LInvAlways, PTL DEF Spec, PredecessorsCounted

-----------------------------------------------------------------------------
(* No second is charged that nothing vouches for.  A session can still be   *)
(* charged the time since the running timer was set, or what the ledger has *)
(* not grown by since it opened, never both: a receipt makes the ledger     *)
(* grow.  What is on the ledger and what each session can still be charged  *)
(* fit together under the time vouched for, split among the sessions.       *)
Pending(s) ==
  IF s = Len(sessions) /\ timer # NoTime /\ (driver = "up" \/ stage = "module")
  THEN clock - timer ELSE 0

Until(s) == IF s \in Vouched THEN clock ELSE sessions[s].last

Unwritten(s) ==
  IF Open(s) THEN Larger(0, (Until(s) - sessions[s].opened) - (ledger - sessions[s].atOpen))
  ELSE 0

Owed(s) == Larger(Pending(s), Unwritten(s))

Shares(part) ==
  /\ \A i, j \in 0..Len(sessions) : i <= j => part[i] <= part[j]
  /\ \A s \in Ids : part[s - 1] + Owed(s) <= part[s]
  /\ ledger + part[Len(sessions)] <= vouched

Accounted == \E part \in [0..Len(sessions) -> Nat] : Shares(part)

(* Where the processes stand while a timer runs or a session is open.       *)
Control ==
  /\ stage # "none" => Len(sessions) # 0
  /\ stage = "none" => timer = NoTime /\ child = "none"
  /\ stage = "module" /\ timer # NoTime => child = "working"
  /\ driver = "up" /\ stage # "none" => cur = Len(sessions) \/ ~ Open(Len(sessions))
  /\ cur # 0 => cur = Len(sessions) /\ stage # "none" /\ driver = "up" /\ Open(cur)
  /\ trap # "none" => timer = NoTime /\ child = "none" /\ driver = "up" /\ stage # "none"
  /\ closing # NoClose /\ closing.session = cur => timer = NoTime /\ child = "none"

AInv == LInv /\ (~ rejoined => Control /\ Accounted)

(* What a session may be charged grows no faster than its end, and falls as *)
(* the ledger grows.                                                        *)
LEMMA LargerMoves ==
  ASSUME NEW u \in Int, NEW v \in Int, NEW o \in Int, NEW g \in Int, NEW h \in Int,
         NEW k \in Nat, u <= v + k, g <= h
  PROVE  /\ Larger(0, (u - o) - h) <= Larger(0, (v - o) - g) + k
         /\ Larger(0, (u - o) - h) \in Nat
  BY DEF Larger

LEMMA OwedIsNatural ==
  ASSUME LedgerTypeOK, NEW s \in Ids
  PROVE  /\ Pending(s) \in Nat /\ Until(s) \in Nat /\ Unwritten(s) \in Nat /\ Owed(s) \in Nat
         /\ Pending(s) <= Owed(s) /\ Unwritten(s) <= Owed(s)
         /\ Owed(s) = Pending(s) \/ Owed(s) = Unwritten(s)
         /\ Open(s) => Unwritten(s) = Larger(0, (Until(s) - sessions[s].opened)
                                                - (ledger - sessions[s].atOpen))
<1>1. Pending(s) \in Nat
  BY DEF LedgerTypeOK, Pending, NoTime
<1>2. Until(s) \in Nat
  BY SessionFields DEF LedgerTypeOK, Until
<1>3. Unwritten(s) \in Nat
  <2>1. /\ Until(s) \in Int /\ ledger \in Int
        /\ sessions[s].opened \in Int /\ sessions[s].atOpen \in Int
    BY <1>2, SessionFields DEF LedgerTypeOK
  <2>2. (Until(s) - sessions[s].opened) - (ledger - sessions[s].atOpen) \in Int
    BY <2>1
  <2> QED
    BY <2>2 DEF Unwritten, Larger
<1> QED
  BY <1>1, <1>2, <1>3 DEF Owed, Larger, Unwritten

LEMMA OwedAreNatural ==
  LedgerTypeOK => \A s \in Ids : Until(s) \in Nat /\ Pending(s) \in Nat /\ Owed(s) \in Nat
  BY OwedIsNatural

LEMMA OwedAreNaturalNext ==
  ASSUME LedgerTypeOK'
  PROVE  \A s \in Ids' : Until(s)' \in Nat /\ Pending(s)' \in Nat /\ Owed(s)' \in Nat
<1>1. (LedgerTypeOK => \A s \in Ids : Until(s) \in Nat /\ Pending(s) \in Nat /\ Owed(s) \in Nat)'
  BY OwedAreNatural, PTL
<1> QED
  BY <1>1

(* A session is charged x, or nobody is; nobody can be charged more after.  *)
LEMMA SpendKeepsAccounts ==
  ASSUME LedgerTypeOK, LedgerTypeOK', Accounted, Len(sessions') = Len(sessions),
         vouched' = vouched, NEW s \in Ids, NEW x \in Nat, ledger' = ledger + x,
         Owed(s)' + x <= Owed(s),
         \A t \in Ids : t # s => Owed(t)' <= Owed(t)
  PROVE  Accounted'
<1> DEFINE n == Len(sessions)
<1>1. n \in Nat /\ Ids = 1..n /\ Ids' = Ids /\ ledger \in Nat
  BY SessionFields DEF Ids, LedgerTypeOK
<1>2. PICK part \in [0..n -> Nat] : Shares(part)
  BY DEF Accounted
<1> DEFINE less == [i \in 0..n |-> IF i < s THEN part[i] ELSE part[i] - x]
<1>3. \A t \in Ids : Owed(t) \in Nat /\ Owed(t)' \in Nat
  BY <1>1, OwedIsNatural, OwedAreNaturalNext
<1>4. x <= part[s] - part[s - 1] /\ part[s - 1] \in Nat /\ part[s] \in Nat
  <2>1. part[s - 1] + Owed(s) <= part[s]
    BY <1>2 DEF Shares
  <2>2. part[s - 1] \in Nat /\ part[s] \in Nat
    BY <1>1, <1>2
  <2>3. x <= Owed(s)
    BY <1>3
  <2> QED
    BY <1>3, <2>1, <2>2, <2>3
<1>5. \A i \in s..n : part[i] >= part[s] /\ part[i] \in Nat
  BY <1>1, <1>2 DEF Shares
<1>6. less \in [0..n -> Nat]
  BY <1>1, <1>4, <1>5
<1>7. \A i, j \in 0..n : i <= j => less[i] <= less[j]
  <2> SUFFICES ASSUME NEW i \in 0..n, NEW j \in 0..n, i <= j
               PROVE  less[i] <= less[j]
    OBVIOUS
  <2>1. part[i] <= part[j] /\ part[i] \in Nat /\ part[j] \in Nat
    BY <1>2 DEF Shares
  <2>2. i < s => part[i] <= part[s - 1]
    BY <1>1, <1>2 DEF Shares
  <2>3. j >= s => part[s] <= part[j]
    BY <1>1, <1>5
  <2> QED
    BY <1>1, <1>4, <2>1, <2>2, <2>3
<1>8. \A t \in Ids : less[t - 1] + Owed(t)' <= less[t]
  <2> SUFFICES ASSUME NEW t \in Ids
               PROVE  less[t - 1] + Owed(t)' <= less[t]
    OBVIOUS
  <2>1. /\ part[t - 1] + Owed(t) <= part[t] /\ t \in 0..n /\ t - 1 \in 0..n
        /\ part[t - 1] \in Nat /\ part[t] \in Nat
    <3>1. t \in 0..n /\ t - 1 \in 0..n
      BY <1>1
    <3> QED
      BY <1>2, <3>1 DEF Shares
  <2>2. CASE t = s
    BY <1>1, <1>3, <2>1, <2>2
  <2>3. CASE t # s
    BY <1>1, <1>3, <2>1, <2>3
  <2> QED
    BY <2>2, <2>3
<1>9. ledger' + less[n] <= vouched'
  <2>1. ledger + part[n] <= vouched /\ part[n] \in Nat /\ n \in 0..n /\ n >= s
    BY <1>1, <1>2 DEF Shares
  <2> QED
    BY <1>1, <2>1
<1>10. PICK rest \in [0..n -> Nat] :
         /\ \A i, j \in 0..n : i <= j => rest[i] <= rest[j]
         /\ \A t \in Ids : rest[t - 1] + Owed(t)' <= rest[t]
         /\ ledger' + rest[n] <= vouched'
  <2> HIDE DEF less
  <2> QED
    BY <1>6, <1>7, <1>8, <1>9
<1>11. Shares(rest)'
  BY <1>1, <1>10 DEF Shares
<1> QED
  BY <1>10, <1>11 DEF Accounted

LEMMA QuietKeepsAccounts ==
  ASSUME LedgerTypeOK, LedgerTypeOK', Accounted, Len(sessions') = Len(sessions),
         vouched' = vouched, ledger' = ledger,
         \A t \in Ids : Owed(t)' <= Owed(t)
  PROVE  Accounted'
<1>1. CASE Ids = {}
  <2>1. Len(sessions) = 0 /\ Ids' = {}
    BY <1>1, SessionFields DEF Ids
  <2>2. PICK part \in [0..Len(sessions) -> Nat] : Shares(part)
    BY DEF Accounted
  <2>3. Shares(part)'
    BY <1>1, <2>1, <2>2 DEF Shares
  <2> QED
    BY <2>2, <2>3 DEF Accounted
<1>2. CASE Ids # {}
  <2>1. PICK s \in Ids : TRUE
    BY <1>2
  <2>2. Owed(s) \in Nat /\ Owed(s)' \in Nat /\ ledger \in Nat
    BY OwedIsNatural, OwedAreNaturalNext DEF LedgerTypeOK, Ids
  <2>3. ledger' = ledger + 0 /\ Owed(s)' + 0 <= Owed(s)
    BY <2>2
  <2> QED
    BY <2>1, <2>3, SpendKeepsAccounts
<1> QED
  BY <1>1, <1>2

(* How many of a set of numbers are at most i. *)
LEMMA CountUpTo ==
  ASSUME NEW V, NEW n \in Nat, V \subseteq 1..n
  PROVE  /\ \A i \in 0..n : Cardinality(V \cap (1..i)) \in Nat
         /\ \A i, j \in 0..n : i <= j =>
              Cardinality(V \cap (1..i)) <= Cardinality(V \cap (1..j))
         /\ \A s \in 1..n : Cardinality(V \cap (1..s)) =
              Cardinality(V \cap (1..(s - 1))) + (IF s \in V THEN 1 ELSE 0)
         /\ Cardinality(V \cap (1..n)) = Cardinality(V)
<1>1. ASSUME NEW i \in 0..n
      PROVE  IsFiniteSet(V \cap (1..i)) /\ Cardinality(V \cap (1..i)) \in Nat
  <2>1. IsFiniteSet(1..i) /\ V \cap (1..i) \in SUBSET (1..i)
    BY FS_Interval
  <2> QED
    BY <2>1, FS_Subset, FS_CardinalityType
<1>2. ASSUME NEW i \in 0..n, NEW j \in 0..n, i <= j
      PROVE  Cardinality(V \cap (1..i)) <= Cardinality(V \cap (1..j))
  <2>1. V \cap (1..i) \in SUBSET (V \cap (1..j))
    BY <1>2
  <2> QED
    BY <1>1, <2>1, FS_Subset
<1>3. ASSUME NEW s \in 1..n
      PROVE  Cardinality(V \cap (1..s)) =
               Cardinality(V \cap (1..(s - 1))) + (IF s \in V THEN 1 ELSE 0)
  <2> DEFINE W == V \cap (1..(s - 1))
  <2>1. s - 1 \in 0..n /\ IsFiniteSet(W) /\ Cardinality(W) \in Nat /\ s \notin W
    BY <1>1
  <2>2. CASE s \in V
    <3>1. V \cap (1..s) = W \cup {s}
      BY <2>2
    <3> HIDE DEF W
    <3>2. Cardinality(W \cup {s}) = Cardinality(W) + 1
      BY <2>1, FS_AddElement
    <3> QED
      BY <2>2, <3>1, <3>2 DEF W
  <2>3. CASE s \notin V
    <3>1. V \cap (1..s) = W
      BY <2>3
    <3> QED
      BY <2>1, <2>3, <3>1
  <2> QED
    BY <2>2, <2>3
<1>4. V \cap (1..n) = V
  OBVIOUS
<1> QED
  BY <1>1, <1>2, <1>3, <1>4

(* A tick: who is vouched for may owe one more, and is vouched for one more. *)
LEMMA TickKeepsAccounts ==
  ASSUME LedgerTypeOK, LedgerTypeOK', Control, Accounted, Tick
  PROVE  Accounted'
<1> DEFINE n == Len(sessions)
           grown(s) == IF s \in Vouched THEN 1 ELSE 0
<1>1. /\ n \in Nat /\ Ids = 1..n /\ ledger \in Nat /\ vouched \in Nat /\ clock \in Nat
      /\ clock' = clock + 1 /\ vouched' = vouched + Cardinality(Vouched)
      /\ UNCHANGED <<sessions, ledger, beating, stage, driver, timer, child>>
      /\ Ids' = Ids /\ Vouched' = Vouched
  <2>1. /\ n \in Nat /\ Ids = 1..n /\ ledger \in Nat /\ vouched \in Nat /\ clock \in Nat
    BY SessionFields DEF Ids, LedgerTypeOK
  <2>2. /\ clock' = clock + 1 /\ vouched' = vouched + Cardinality(Vouched)
        /\ UNCHANGED <<sessions, ledger, beating, stage, driver, timer, child>>
    BY DEF Tick, files, actors
  <2>3. Ids' = Ids /\ Vouched' = Vouched
    BY <2>2 DEF Ids, Vouched
  <2> QED
    BY <2>1, <2>2, <2>3
<1>2. Vouched \subseteq 1..n
  <2>1. stage # "none" => n \in 1..n
    BY <1>1 DEF Control
  <2>2. beating \subseteq 1..n
    BY <1>1 DEF LedgerTypeOK
  <2> QED
    BY <2>1, <2>2 DEF Vouched
<1>3. ASSUME NEW s \in Ids
      PROVE  Owed(s)' <= Owed(s) + grown(s) /\ Owed(s) \in Nat /\ Owed(s)' \in Nat
  <2>1. Pending(s)' <= Pending(s) + grown(s)
    <3>1. CASE s = n /\ timer # NoTime /\ (driver = "up" \/ stage = "module")
      <4>1. Pending(s) = clock - timer /\ Pending(s)' = clock + 1 - timer /\ timer \in Nat
        BY <1>1, <3>1 DEF Pending, LedgerTypeOK, NoTime
      <4>2. grown(s) = 1
        BY <1>1, <3>1 DEF Vouched, Control
      <4> QED
        BY <1>1, <4>1, <4>2
    <3>2. CASE ~ (s = n /\ timer # NoTime /\ (driver = "up" \/ stage = "module"))
      BY <1>1, <3>2 DEF Pending, NoTime
    <3> QED
      BY <3>1, <3>2
  <2>2. Until(s)' <= Until(s) + grown(s)
    <3>1. Until(s) \in Nat
      BY OwedIsNatural
    <3>2. CASE s \in Vouched
      BY <1>1, <3>2 DEF Until
    <3>3. CASE s \notin Vouched
      <4>1. Until(s)' = Until(s) /\ grown(s) = 0
        BY <1>1, <3>3 DEF Until
      <4> QED
        BY <3>1, <4>1
    <3> QED
      BY <3>2, <3>3
  <2>3. /\ Until(s) \in Nat /\ Until(s)' \in Nat /\ Pending(s) \in Nat /\ Pending(s)' \in Nat
        /\ Owed(s) \in Nat /\ Owed(s)' \in Nat
        /\ sessions[s].opened \in Nat /\ sessions[s].atOpen \in Nat
    <3>1. Until(s) \in Nat /\ Pending(s) \in Nat /\ Owed(s) \in Nat
      BY OwedIsNatural
    <3>2. Until(s)' \in Nat
      BY <1>1, SessionFields DEF Until, LedgerTypeOK
    <3>3. Pending(s)' \in Nat
      BY <1>1 DEF Pending, LedgerTypeOK, NoTime
    <3> QED
      BY <1>1, <3>1, <3>2, <3>3, OwedAreNaturalNext, SessionFields
  <2>4. Unwritten(s)' = IF Open(s) THEN Larger(0, (Until(s)' - sessions[s].opened)
                                                  - (ledger - sessions[s].atOpen)) ELSE 0
    BY <1>1 DEF Unwritten, Open
  <2>5. /\ Unwritten(s) \in Nat /\ Unwritten(s)' \in Nat
        /\ Unwritten(s)' <= Unwritten(s) + grown(s)
    <3>1. PICK u \in Nat : u = Until(s)'
      BY <2>3
    <3>2. PICK v \in Nat : v = Until(s)
      BY <2>3
    <3>3. PICK o \in Nat : o = sessions[s].opened
      BY <2>3
    <3>4. PICK g \in Int : g = ledger - sessions[s].atOpen
      BY <1>1, <2>3
    <3>5. PICK k \in Nat : k = grown(s)
      OBVIOUS
    <3>6. Unwritten(s)' = IF Open(s) THEN Larger(0, (u - o) - g) ELSE 0
      BY <2>4, <3>1, <3>3, <3>4
    <3>7. Unwritten(s) = IF Open(s) THEN Larger(0, (v - o) - g) ELSE 0
      BY <3>2, <3>3, <3>4 DEF Unwritten
    <3>8. u <= v + k
      BY <2>2, <3>1, <3>2, <3>5
    <3>9. /\ Larger(0, (u - o) - g) <= Larger(0, (v - o) - g) + k
          /\ Larger(0, (u - o) - g) \in Nat /\ Larger(0, (v - o) - g) \in Nat
      BY <3>8 DEF Larger
    <3> HIDE DEF grown
    <3> QED
      BY <3>5, <3>6, <3>7, <3>9
  <2> QED
    BY <2>1, <2>3, <2>5 DEF Owed, Larger
<1>4. PICK part \in [0..n -> Nat] : Shares(part)
  BY DEF Accounted
<1> DEFINE count(i) == Cardinality(Vouched \cap (1..i))
           more == [i \in 0..n |-> part[i] + count(i)]
<1>5. /\ \A i \in 0..n : count(i) \in Nat
      /\ \A i, j \in 0..n : i <= j => count(i) <= count(j)
      /\ \A s \in 1..n : count(s) = count(s - 1) + grown(s)
      /\ count(n) = Cardinality(Vouched)
  BY <1>1, <1>2, CountUpTo
<1> HIDE DEF count
<1>6. more \in [0..n -> Nat]
  BY <1>5
<1>7. \A i, j \in 0..n : i <= j => more[i] <= more[j]
  <2> SUFFICES ASSUME NEW i \in 0..n, NEW j \in 0..n, i <= j
               PROVE  more[i] <= more[j]
    OBVIOUS
  <2>1. part[i] <= part[j] /\ part[i] \in Nat /\ part[j] \in Nat
    BY <1>4 DEF Shares
  <2>2. count(i) \in Nat /\ count(j) \in Nat /\ count(i) <= count(j)
    BY <1>5
  <2> QED
    BY <2>1, <2>2
<1>8. \A s \in Ids : more[s - 1] + Owed(s)' <= more[s]
  <2> SUFFICES ASSUME NEW s \in Ids
               PROVE  more[s - 1] + Owed(s)' <= more[s]
    OBVIOUS
  <2>1. s \in 0..n /\ s - 1 \in 0..n /\ grown(s) \in Nat
    BY <1>1
  <2>2. /\ part[s - 1] + Owed(s) <= part[s] /\ part[s - 1] \in Nat /\ part[s] \in Nat
        /\ count(s) = count(s - 1) + grown(s) /\ count(s - 1) \in Nat
    BY <1>1, <1>4, <1>5, <2>1 DEF Shares
  <2>3. more[s] = part[s] + count(s) /\ more[s - 1] = part[s - 1] + count(s - 1)
    BY <2>1
  <2>4. Owed(s)' <= Owed(s) + grown(s) /\ Owed(s) \in Nat /\ Owed(s)' \in Nat
    BY <1>3
  <2> HIDE DEF grown, more
  <2> QED
    BY <2>1, <2>2, <2>3, <2>4
<1>9. ledger' + more[n] <= vouched'
  <2>1. n \in 0..n /\ ledger + part[n] <= vouched /\ part[n] \in Nat
    BY <1>1, <1>4 DEF Shares
  <2>2. more[n] = part[n] + Cardinality(Vouched) /\ Cardinality(Vouched) \in Nat
    BY <1>5, <2>1
  <2> HIDE DEF more
  <2> QED
    BY <1>1, <2>1, <2>2
<1>10. PICK rest \in [0..n -> Nat] :
         /\ \A i, j \in 0..n : i <= j => rest[i] <= rest[j]
         /\ \A t \in Ids : rest[t - 1] + Owed(t)' <= rest[t]
         /\ ledger' + rest[n] <= vouched'
  <2> HIDE DEF more
  <2> QED
    BY <1>6, <1>7, <1>8, <1>9
<1>11. Shares(rest)'
  BY <1>1, <1>10 DEF Shares
<1> QED
  BY <1>1, <1>10, <1>11 DEF Accounted

(* A session owes no more when it is vouched for no longer, when its beat   *)
(* catches up with the clock, when the ledger grows, or when it closes.     *)
LEMMA OwedFalls ==
  ASSUME LedgerTypeOK, LedgerTypeOK', NEW t \in Ids, t \in Ids', ledger' >= ledger,
         sessions'[t].opened = sessions[t].opened, sessions'[t].atOpen = sessions[t].atOpen,
         Open(t)' => Open(t), Until(t)' <= Until(t), Pending(t)' <= Pending(t)
  PROVE  Owed(t)' <= Owed(t)
<1>1. /\ ledger \in Nat /\ ledger' \in Nat
      /\ sessions[t].opened \in Nat /\ sessions[t].atOpen \in Nat
  BY SessionFields DEF LedgerTypeOK
<1>2. Until(t) \in Nat /\ Pending(t) \in Nat /\ Unwritten(t) \in Nat /\ Owed(t) \in Nat
  BY OwedIsNatural
<1>3. Until(t)' \in Nat
  BY OwedAreNaturalNext
<1>4. Pending(t)' \in Nat
  BY OwedAreNaturalNext
<1>5. PICK u \in Nat, v \in Nat, o \in Nat, g \in Int, h \in Int :
        /\ u = Until(t)' /\ v = Until(t) /\ o = sessions[t].opened
        /\ g = ledger - sessions[t].atOpen /\ h = ledger' - sessions[t].atOpen
  <2>1. ledger - sessions[t].atOpen \in Int /\ ledger' - sessions[t].atOpen \in Int
    BY <1>1
  <2> QED
    BY <1>1, <1>2, <1>3, <2>1
<1>6. Unwritten(t)' = IF Open(t)' THEN Larger(0, (u - o) - h) ELSE 0
  BY <1>5 DEF Unwritten
<1>7. Unwritten(t) = IF Open(t) THEN Larger(0, (v - o) - g) ELSE 0
  BY <1>5 DEF Unwritten
<1>8. g <= h
  BY <1>1, <1>5
<1>9. /\ Larger(0, (u - o) - h) <= Larger(0, (v - o) - g)
      /\ Larger(0, (u - o) - h) \in Nat /\ Larger(0, (v - o) - g) \in Nat
  BY <1>5, <1>8 DEF Larger
<1>10. Unwritten(t)' \in Nat /\ Unwritten(t)' <= Unwritten(t)
  BY <1>6, <1>7, <1>9
<1> QED
  BY <1>2, <1>4, <1>10 DEF Owed, Larger

(* The end a session can be charged up to falls when nobody starts to vouch *)
(* for it.                                                                  *)
LEMMA UntilFalls ==
  ASSUME LedgerTypeOK, NEW t \in Ids, clock' = clock, sessions'[t].last = sessions[t].last,
         t \in Vouched' => t \in Vouched
  PROVE  Until(t)' <= Until(t)
<1>1. sessions[t].last <= clock /\ sessions[t].last \in Nat /\ clock \in Nat
  BY SessionFields DEF LedgerTypeOK
<1>2. Until(t)' = IF t \in Vouched' THEN clock ELSE sessions[t].last
  BY DEF Until
<1> QED
  BY <1>1, <1>2 DEF Until

LEMMA LetGoKeepsAccounts ==
  ASSUME LedgerTypeOK, LedgerTypeOK', Accounted, UNCHANGED <<clock, ledger, sessions, vouched>>,
         Vouched' \subseteq Vouched \cup {0},
         \A t \in Ids : Pending(t)' <= Pending(t)
  PROVE  Accounted'
<1>1. Ids' = Ids /\ ledger \in Nat /\ Len(sessions') = Len(sessions)
  BY DEF Ids, LedgerTypeOK
<1>2. ASSUME NEW t \in Ids PROVE Owed(t)' <= Owed(t)
  <2>1. t # 0
    BY SessionFields DEF Ids
  <2>2. Until(t)' <= Until(t)
    BY <2>1, UntilFalls
  <2>3. Open(t)' => Open(t)
    BY DEF Open
  <2>4. ledger' >= ledger
    BY <1>1
  <2> QED
    BY <1>1, <2>2, <2>3, <2>4, OwedFalls
<1> QED
  BY <1>1, <1>2, QuietKeepsAccounts

(* A receipt charges what was pending, and nothing is pending after it. *)
LEMMA ReceiptKeepsAccounts ==
  ASSUME LedgerTypeOK, LedgerTypeOK', Accounted, UNCHANGED <<clock, sessions, vouched>>,
         Vouched' \subseteq Vouched, Len(sessions) # 0, timer # NoTime,
         driver = "up" \/ stage = "module",
         ledger' = ledger + (clock - timer), timer' \in {NoTime, clock}
  PROVE  Accounted'
<1>0. PICK s \in Ids : s = Len(sessions)
  BY SessionFields DEF Ids
<1> DEFINE x == clock - timer
<1>1. /\ Ids' = Ids /\ x \in Nat /\ ledger \in Nat /\ clock \in Nat
      /\ Len(sessions') = Len(sessions)
  BY SessionFields DEF LedgerTypeOK, Ids, NoTime
<1>2. ASSUME NEW t \in Ids PROVE Pending(t)' = 0
  <2>1. clock' = clock /\ clock - clock = 0
    BY <1>1
  <2>2. CASE timer' = clock
    BY <2>1, <2>2 DEF Pending
  <2>3. CASE timer' = NoTime
    BY <2>3 DEF Pending
  <2> QED
    BY <2>2, <2>3
<1>3. Pending(s) = x /\ \A t \in Ids : t # s => Pending(t) = 0
  BY <1>0, <1>1 DEF Pending
<1>4. \A t \in Ids : Until(t)' <= Until(t)
  BY UntilFalls
<1>5. ASSUME NEW t \in Ids, t # s PROVE Owed(t)' <= Owed(t)
  <2>1. Pending(t)' <= Pending(t)
    BY <1>2, <1>3, <1>5
  <2>2. ledger' >= ledger
    BY <1>1
  <2>3. Open(t)' => Open(t)
    BY DEF Open
  <2> QED
    BY <1>1, <1>4, <2>1, <2>2, <2>3, OwedFalls
<1>6. Owed(s)' + x <= Owed(s)
  <2>1. /\ Until(s) \in Nat /\ sessions[s].opened \in Nat /\ sessions[s].atOpen \in Nat
        /\ Unwritten(s) \in Nat
    BY <1>1, OwedIsNatural, SessionFields
  <2>2. Until(s)' \in Nat
    BY <1>1, OwedAreNaturalNext
  <2>3. PICK u \in Nat, v \in Nat, o \in Nat, a \in Nat, w \in Nat :
          /\ u = Until(s)' /\ v = Until(s) /\ o = sessions[s].opened
          /\ a = sessions[s].atOpen /\ w = x
    BY <1>1, <2>1, <2>2
  <2>4. Owed(s)' = Larger(0, IF Open(s) THEN Larger(0, (u - o) - ((ledger + w) - a)) ELSE 0)
    BY <1>1, <1>2, <2>3 DEF Owed, Unwritten, Open
  <2>5. Owed(s) = Larger(w, IF Open(s) THEN Larger(0, (v - o) - (ledger - a)) ELSE 0)
    BY <1>3, <2>3 DEF Owed, Unwritten
  <2>6. u <= v
    BY <1>1, <1>4, <2>3
  <2> HIDE DEF x
  <2>7. CASE Open(s)
    <3>1. Larger(0, Larger(0, (u - o) - ((ledger + w) - a))) + w
            <= Larger(w, Larger(0, (v - o) - (ledger - a)))
      BY <1>1, <2>6 DEF Larger
    <3> QED
      BY <2>3, <2>4, <2>5, <2>7, <3>1
  <2>8. CASE ~ Open(s)
    <3>1. Owed(s)' = 0 /\ Owed(s) = w
      BY <2>4, <2>5, <2>8 DEF Larger
    <3> QED
      BY <2>3, <3>1
  <2> QED
    BY <2>7, <2>8
<1> HIDE DEF x
<1>7. ledger' = ledger + x
  BY DEF x
<1> QED
  BY <1>1, <1>5, <1>6, <1>7, SpendKeepsAccounts

(* A close charges what its receipts did not, up to an end that is vouched  *)
(* for.                                                                     *)
LEMMA ChargeKeepsAccounts ==
  ASSUME LedgerTypeOK, LedgerTypeOK', OpenedBelow, Accounted,
         UNCHANGED <<clock, sessions, vouched, driver, stage, timer>>, beating' \subseteq beating,
         NEW s \in Ids, NEW end \in Nat, end <= Until(s), Open(s), Pending(s) = 0,
         Charge(s, end)
  PROVE  Accounted'
<1>1. /\ Ids' = Ids /\ ledger \in Nat /\ ledger' \in Nat
      /\ Len(sessions') = Len(sessions) /\ Vouched' \subseteq Vouched
  BY DEF LedgerTypeOK, Ids, Vouched
<1>2. /\ Until(s) \in Nat /\ sessions[s].opened \in Nat /\ sessions[s].atOpen \in Nat
  BY OwedIsNatural, SessionFields
<1>3. Until(s)' \in Nat
  BY <1>1, OwedAreNaturalNext
<1>4. PICK u \in Nat, v \in Nat, o \in Nat, a \in Nat, x \in Nat :
        /\ u = Until(s)' /\ v = Until(s) /\ o = sessions[s].opened
        /\ a = sessions[s].atOpen /\ x = Larger(0, (end - o) - (ledger - a))
  <2>1. Larger(0, (end - sessions[s].opened) - (ledger - sessions[s].atOpen)) \in Nat
    BY <1>1, <1>2 DEF Larger
  <2> QED
    BY <1>2, <1>3, <2>1
<1>5. ledger' = ledger + x
  BY <1>4, RemainderOfGrowth DEF Charge
<1>6. \A t \in Ids : Pending(t)' = Pending(t) /\ Pending(t) \in Nat
  BY <1>1, OwedIsNatural DEF Pending
<1>7. \A t \in Ids : Until(t)' <= Until(t)
  BY <1>1, UntilFalls
<1>8. ASSUME NEW t \in Ids PROVE Owed(t)' <= Owed(t)
  <2>1. ledger' >= ledger
    BY <1>1, <1>5
  <2>2. Open(t)' => Open(t)
    BY DEF Open
  <2>3. Pending(t)' <= Pending(t)
    BY <1>6
  <2> QED
    BY <1>1, <1>7, <2>1, <2>2, <2>3, OwedFalls
<1>9. Owed(s)' + x <= Owed(s)
  <2>1. Owed(s)' = Larger(0, Larger(0, (u - o) - ((ledger + x) - a)))
    BY <1>1, <1>4, <1>5, <1>6 DEF Owed, Unwritten, Open
  <2>2. Owed(s) = Larger(0, Larger(0, (v - o) - (ledger - a)))
    BY <1>4 DEF Owed, Unwritten
  <2>3. u <= v /\ end <= v
    BY <1>4, <1>7
  <2>4. Larger(0, Larger(0, (u - o) - ((ledger + x) - a))) + x
          <= Larger(0, Larger(0, (v - o) - (ledger - a)))
    BY <1>1, <1>4, <2>3 DEF Larger
  <2> QED
    BY <2>1, <2>2, <2>4
<1> QED
  BY <1>1, <1>5, <1>8, <1>9, SpendKeepsAccounts

(* A new session owes nothing and takes its share from nobody. *)
LEMMA OpenKeepsAccounts ==
  ASSUME LedgerTypeOK, LedgerTypeOK', Control, Accounted, NEW k \in Kinds, OpenStage(k)
  PROVE  Accounted'
<1> DEFINE n == Len(sessions)
           new == [opened |-> clock, atOpen |-> ledger, last |-> clock,
                   closed |-> FALSE, observed |-> 0]
<1>1. /\ sessions' = Append(sessions, new) /\ sessions \in Seq(Session) /\ new \in Session
      /\ clock \in Nat /\ ledger \in Nat /\ stage = "none" /\ timer = NoTime
      /\ UNCHANGED <<clock, ledger, vouched>> /\ stage' # "none"
      /\ beating' = beating \cup {n + 1} /\ timer' \in {NoTime, clock}
      /\ driver' = "up"
  BY LedgerAssumption DEF LedgerTypeOK, OpenStage, InStage, DriverIdle, Session, Control,
     ghosts, LedgerAssumption
<1>2. /\ n \in Nat /\ Len(sessions') = n + 1 /\ Ids = 1..n /\ Ids' = 1..(n + 1)
      /\ sessions'[n + 1] = new /\ \A t \in Ids : sessions'[t] = sessions[t] /\ t # n + 1
  BY <1>1 DEF Ids
<1>3. Vouched = beating /\ Vouched' = beating \cup {n + 1}
  BY <1>1, <1>2 DEF Vouched
<1>4. ASSUME NEW t \in Ids PROVE Owed(t)' <= Owed(t)
  <2>1. Pending(t)' = 0 /\ Pending(t) = 0
    BY <1>1, <1>2 DEF Pending
  <2>2. Until(t)' <= Until(t)
    BY <1>1, <1>2, <1>3, UntilFalls
  <2>3. ledger' >= ledger /\ t \in Ids'
    BY <1>1, <1>2
  <2>4. Open(t)' => Open(t)
    BY <1>2 DEF Open
  <2> QED
    BY <1>2, <2>1, <2>2, <2>3, <2>4, OwedFalls
<1> PICK m \in Nat : m = n + 1
  BY <1>2
<1>5. Owed(m)' = 0
  <2>1. Pending(m)' = 0
    <3>1. clock' = clock /\ clock - clock = 0
      BY <1>1
    <3>2. CASE timer' = clock
      BY <3>1, <3>2 DEF Pending
    <3>3. CASE timer' = NoTime
      BY <3>3 DEF Pending
    <3> QED
      BY <1>1, <3>2, <3>3
  <2>2. Until(m)' = clock
    BY <1>1, <1>3 DEF Until
  <2>3. Unwritten(m)' = 0
    BY <1>1, <1>2, <2>2 DEF Unwritten, Larger
  <2> QED
    BY <2>1, <2>3 DEF Owed, Larger
<1>6. PICK part \in [0..n -> Nat] : Shares(part)
  BY DEF Accounted
<1> DEFINE more == [i \in 0..(n + 1) |-> IF i = n + 1 THEN part[n] ELSE part[i]]
<1>7. more \in [0..(n + 1) -> Nat]
  BY <1>2, <1>6
<1>8. \A i, j \in 0..(n + 1) : i <= j => more[i] <= more[j]
  <2> SUFFICES ASSUME NEW i \in 0..(n + 1), NEW j \in 0..(n + 1), i <= j
               PROVE  more[i] <= more[j]
    OBVIOUS
  <2>1. \A p, q \in 0..n : p <= q => part[p] <= part[q] /\ part[p] \in Nat /\ part[q] \in Nat
    BY <1>6 DEF Shares
  <2> QED
    BY <1>2, <2>1
<1>9. \A t \in Ids' : more[t - 1] + Owed(t)' <= more[t]
  <2> SUFFICES ASSUME NEW t \in Ids' PROVE more[t - 1] + Owed(t)' <= more[t]
    OBVIOUS
  <2>1. CASE t = n + 1
    <3>1. more[t] = part[n] /\ more[t - 1] = part[n] /\ part[n] \in Nat
      BY <1>2, <1>6, <2>1
    <3> HIDE DEF more
    <3> QED
      BY <1>5, <2>1, <3>1
  <2>2. CASE t # n + 1
    <3>1. t \in Ids /\ more[t] = part[t] /\ more[t - 1] = part[t - 1]
          /\ part[t] \in Nat /\ part[t - 1] \in Nat
      BY <1>2, <1>6, <2>2
    <3>2. part[t - 1] + Owed(t) <= part[t] /\ Owed(t) \in Nat
      BY <1>6, <3>1, OwedIsNatural DEF Shares
    <3>3. Owed(t)' \in Nat /\ Owed(t)' <= Owed(t)
      BY <1>4, <3>1, OwedAreNaturalNext
    <3> HIDE DEF more
    <3> QED
      BY <3>1, <3>2, <3>3
  <2> QED
    BY <2>1, <2>2
<1>10. ledger' + more[n + 1] <= vouched'
  BY <1>1, <1>2, <1>6 DEF Shares
<1>11. PICK rest \in [0..(n + 1) -> Nat] :
         /\ \A i, j \in 0..(n + 1) : i <= j => rest[i] <= rest[j]
         /\ \A t \in Ids' : rest[t - 1] + Owed(t)' <= rest[t]
         /\ ledger' + rest[n + 1] <= vouched'
  <2> HIDE DEF more
  <2> QED
    BY <1>7, <1>8, <1>9, <1>10
<1>12. Shares(rest)'
  BY <1>2, <1>11 DEF Shares
<1> QED
  BY <1>2, <1>11, <1>12 DEF Accounted
(* A beat and a close row each change one field or two of one record.       *)
LEMMA HeartbeatOnly ==
  ASSUME LedgerTypeOK, NEW s \in Ids, Heartbeat(s)
  PROVE  /\ Len(sessions') = Len(sessions) /\ Ids' = Ids
         /\ \A t \in Ids : /\ sessions'[t].opened = sessions[t].opened
                           /\ sessions'[t].atOpen = sessions[t].atOpen
                           /\ sessions'[t].closed = sessions[t].closed
                           /\ sessions'[t].last \in {sessions[t].last, clock}
                           /\ sessions'[t].last = clock => t = s \/ sessions[t].last = clock
<1>1. sessions' = [sessions EXCEPT ![s].last = clock]
  BY DEF Heartbeat
<1>2. \A t \in Ids : t # s => sessions'[t] = sessions[t]
  BY <1>1 DEF LedgerTypeOK, Ids
<1>3. sessions'[s] = [sessions[s] EXCEPT !.last = clock]
  BY <1>1 DEF LedgerTypeOK, Ids
<1>4. sessions[s] \in Session
  BY SessionFields
<1>5. /\ sessions'[s].opened = sessions[s].opened /\ sessions'[s].atOpen = sessions[s].atOpen
      /\ sessions'[s].closed = sessions[s].closed /\ sessions'[s].last = clock
  BY <1>3, <1>4 DEF Session
<1>6. Len(sessions') = Len(sessions)
  BY <1>1 DEF LedgerTypeOK
<1> QED
  BY <1>2, <1>5, <1>6 DEF Ids

LEMMA CloseRowOnly ==
  ASSUME LInv, CloseRow
  PROVE  /\ closing.session \in Ids /\ Len(sessions') = Len(sessions) /\ Ids' = Ids
         /\ sessions'[closing.session].closed
         /\ \A t \in Ids : /\ sessions'[t].opened = sessions[t].opened
                           /\ sessions'[t].atOpen = sessions[t].atOpen
                           /\ sessions'[t].last = sessions[t].last
                           /\ t # closing.session => sessions'[t] = sessions[t]
<1>1. PICK s \in Ids : s = closing.session
  BY DEF LInv, LedgerTypeOK, CloseRow, ClosingCharged
<1>2. PICK o \in Nat : o = closing.observed
  BY DEF LInv, LedgerTypeOK
<1> DEFINE r == [sessions[s] EXCEPT !.closed = TRUE, !.observed = o]
<1>6. sessions[s] \in Session /\ r \in Session
  BY SessionFields DEF LInv, Session
<1>3. sessions' = [sessions EXCEPT ![s] = r] /\ sessions \in Seq(Session)
  BY <1>1, <1>2 DEF CloseRow, LInv, LedgerTypeOK
<1>4. /\ Len(sessions') = Len(sessions) /\ sessions'[s] = r
      /\ \A t \in Ids : t # s => sessions'[t] = sessions[t]
  <2> HIDE DEF r
  <2> QED
    BY <1>3, <1>6, ExceptSeq DEF Ids
<1>5. /\ r.opened = sessions[s].opened /\ r.atOpen = sessions[s].atOpen
      /\ r.last = sessions[s].last /\ r.closed
  BY <1>6 DEF Session
<1> HIDE DEF r
<1> QED
  BY <1>1, <1>4, <1>5 DEF Ids

LEMMA HeartbeatKeepsAccounts ==
  ASSUME LedgerTypeOK, LedgerTypeOK', Accounted, NEW s \in Ids, Heartbeat(s)
  PROVE  Accounted'
<1>1. /\ UNCHANGED <<clock, ledger, beating, driver, stage, timer, vouched>> /\ s \in beating
      /\ Len(sessions') = Len(sessions) /\ Ids' = Ids /\ ledger' >= ledger
  <2>1. /\ UNCHANGED <<clock, ledger, beating, driver, stage, timer, vouched>>
        /\ s \in beating /\ ledger \in Nat
    BY DEF Heartbeat, actors, ghosts, LedgerTypeOK
  <2> QED
    BY <2>1, HeartbeatOnly
<1>2. ASSUME NEW t \in Ids PROVE Owed(t)' <= Owed(t)
  <2>1. Until(t)' <= Until(t)
    <3>1. Vouched' = Vouched /\ s \in Vouched /\ clock \in Nat
      BY <1>1 DEF Vouched, LedgerTypeOK
    <3>2. Until(t) \in Nat /\ sessions[t].last \in Nat
      BY OwedIsNatural, SessionFields
    <3>3. CASE t \in Vouched
      <4>1. Until(t)' = clock /\ Until(t) = clock
        BY <1>1, <3>1, <3>3 DEF Until
      <4> QED
        BY <3>1, <4>1
    <3>4. CASE t \notin Vouched
      <4>1. sessions'[t].last = sessions[t].last
        BY <3>1, <3>4, HeartbeatOnly
      <4>2. Until(t)' = Until(t)
        BY <3>1, <3>4, <4>1 DEF Until
      <4> QED
        BY <3>2, <4>2
    <3> QED
      BY <3>3, <3>4
  <2>2. Pending(t)' = Pending(t) /\ Pending(t) \in Nat
    BY <1>1, OwedIsNatural DEF Pending
  <2>3. Open(t)' => Open(t)
    BY HeartbeatOnly DEF Open
  <2>4. sessions'[t].opened = sessions[t].opened /\ sessions'[t].atOpen = sessions[t].atOpen
    BY HeartbeatOnly
  <2>5. Pending(t)' <= Pending(t)
    BY <2>2
  <2> QED
    BY <1>1, <2>1, <2>3, <2>4, <2>5, OwedFalls
<1> QED
  BY <1>1, <1>2, QuietKeepsAccounts

LEMMA CloseRowKeepsAccounts ==
  ASSUME LInv, LInv', Accounted, CloseRow
  PROVE  Accounted'
<1>1. LedgerTypeOK /\ LedgerTypeOK' /\ ledger \in Nat
  BY DEF LInv, LedgerTypeOK
<1>2. /\ UNCHANGED <<clock, ledger, driver, timer, vouched>> /\ beating' \subseteq beating
      /\ stage' \in {stage, "none"} /\ ledger' >= ledger
      /\ Len(sessions') = Len(sessions) /\ Ids' = Ids
  BY <1>1, CloseRowOnly DEF CloseRow, ghosts
<1>3. ASSUME NEW t \in Ids PROVE Owed(t)' <= Owed(t)
  <2>1. Until(t)' <= Until(t)
    <3>1. Vouched' \subseteq Vouched
      BY <1>2 DEF Vouched
    <3> QED
      BY <1>1, <1>2, <3>1, CloseRowOnly, UntilFalls
  <2>2. Pending(t)' <= Pending(t)
    <3>1. Pending(t)' \in {0, Pending(t)} /\ Pending(t) \in Nat
      BY <1>1, <1>2, OwedIsNatural DEF Pending
    <3> QED
      BY <3>1
  <2>3. Open(t)' => Open(t)
    BY CloseRowOnly DEF Open
  <2> QED
    BY <1>1, <1>2, <2>1, <2>2, <2>3, CloseRowOnly, OwedFalls
<1> QED
  BY <1>1, <1>2, <1>3, QuietKeepsAccounts

(* The steps by which the files do not change keep the processes in place.  *)
LEMMA ControlStep ==
  ASSUME LInv, LInv', Control, [Next]_vars, ~ rejoined'
  PROVE  Control'
<1> USE DEF files, actors, ghosts, NoTime, NoClose
<1>0. LedgerTypeOK
  BY DEF LInv
<1>1. CASE UNCHANGED vars
  BY <1>1 DEF vars, Control, Open
<1>2. CASE Tick
  BY <1>2 DEF Tick, Control, Open
<1>3. ASSUME NEW s \in Ids, Heartbeat(s) PROVE Control'
  <2>1. /\ UNCHANGED actors /\ Len(sessions') = Len(sessions)
        /\ \A t \in Ids : Open(t)' = Open(t)
    BY <1>0, <1>3, HeartbeatOnly DEF Open, Heartbeat
  <2> QED
    BY <1>0, <2>1 DEF Control, LedgerTypeOK, Ids
<1>4. CASE StartDriver
  BY <1>4 DEF StartDriver, Control, Open
<1>5. ASSUME NEW k \in Kinds, OpenStage(k) PROVE Control'
  <2>1. /\ sessions \in Seq(Session) /\ Len(sessions) \in Nat /\ k # "none"
    BY <1>0, SessionFields, LedgerAssumption DEF LedgerTypeOK, LedgerAssumption
  <2>2. /\ Len(sessions') = Len(sessions) + 1 /\ Len(sessions') # 0 /\ cur' = Len(sessions')
        /\ ~ sessions'[Len(sessions')].closed
    BY <1>5, <2>1 DEF OpenStage
  <2> QED
    BY <1>5, <2>1, <2>2 DEF OpenStage, InStage, DriverIdle, Control, Open
<1>6. CASE RunChild
  BY <1>6 DEF RunChild, AtPrompt, DriverIdle, Control, Open
<1>7. CASE StartUnit
  BY <1>7 DEF StartUnit, Control, Open
<1>8. CASE UnitReceipt
  BY <1>8 DEF UnitReceipt, Control, Open
<1>9. CASE ChildReturns
  BY <1>9 DEF ChildReturns, Control, Open
<1>10. ASSUME NEW rotate \in BOOLEAN, DriverReceipt(rotate) PROVE Control'
  BY <1>10 DEF DriverReceipt, AtPrompt, DriverIdle, Control, Open
<1>11. CASE CloseNormally
  BY <1>11 DEF CloseNormally, AtPrompt, DriverIdle, Control, Open, Charge
<1>12. CASE CloseInterrupted
  BY <1>12 DEF CloseInterrupted, Control, Open, Charge
<1>13. ASSUME NEW s \in Ids, Reconcile(s) PROVE Control'
  <2>1. s # cur /\ s # 0
    BY <1>13, SessionFields DEF Reconcile, Abandoned, Live, Control, Ids
  <2>2. closing'.session = s
    BY <1>13 DEF Reconcile, Charge
  <2> QED
    BY <1>13, <2>1, <2>2 DEF Reconcile, Control, Open
<1>14. CASE CloseRow
  <2>1. PICK s \in Ids : s = closing.session
    BY <1>14, CloseRowOnly
  <2>2. /\ Len(sessions') = Len(sessions) /\ ~ Open(s)'
        /\ \A t \in Ids : t # s => Open(t)' = Open(t)
    BY <1>14, <2>1, CloseRowOnly DEF Open
  <2>3. /\ UNCHANGED <<driver, child, timer, trap, rejoined>> /\ closing # NoClose
        /\ closing' = NoClose
        /\ cur' = IF s = cur THEN 0 ELSE cur
        /\ stage' = IF s = cur /\ trap = "none" THEN "none" ELSE stage
    BY <1>14, <2>1 DEF CloseRow
  <2>4. Len(sessions) # 0 /\ Len(sessions) \in Ids
    BY <1>0, SessionFields DEF Ids
  <2>5. cur' # 0 => Open(cur)' /\ cur' = Len(sessions) /\ stage' # "none" /\ driver = "up"
    BY <2>2, <2>3, <2>4 DEF Control
  <2>6. driver = "up" /\ stage' # "none" => cur' = Len(sessions) \/ ~ Open(Len(sessions))'
    <3>1. PICK m \in Ids : m = Len(sessions)
      BY <2>4
    <3> QED
      BY <2>2, <2>3, <3>1 DEF Control, Open
  <2> QED
    BY <2>1, <2>2, <2>3, <2>4, <2>5, <2>6 DEF Control
<1>15. CASE EndUnjournaled
  BY <1>15 DEF EndUnjournaled, AtPrompt, DriverIdle, Control, Open
<1>16. CASE GuardPasses
  BY <1>16 DEF GuardPasses, Control, Open
<1>17. ASSUME NEW why \in {"die", "term"}, OnExit(why) PROVE Control'
  BY <1>17 DEF OnExit, Control, Open
<1>18. CASE LeaveTrap
  BY <1>18 DEF LeaveTrap, Control, Open
<1>19. CASE KillDriver
  <2>1. closing' # NoClose => closing'.session # 0
    BY <1>19 DEF KillDriver, LInv, ClosingCharged
  <2> QED
    BY <1>19, <2>1 DEF KillDriver, Control, Open
<1>20. CASE OrphanEnds
  BY <1>20 DEF OrphanEnds, Control, Open
<1>21. CASE PowerLoss
  BY <1>21 DEF PowerLoss, ProcessesDie, Control, Open
<1> QED
  BY <1>1, <1>2, <1>3, <1>4, <1>5, <1>6, <1>7, <1>8, <1>9, <1>10, <1>11, <1>12, <1>13, <1>14,
     <1>15, <1>16, <1>17, <1>18, <1>19, <1>20, <1>21 DEF Next

LEMMA AccountsStep ==
  ASSUME LInv, LInv', Control, Accounted, [Next]_vars, ~ rejoined'
  PROVE  Accounted'
<1> USE DEF files, actors, ghosts
<1>0. LedgerTypeOK /\ LedgerTypeOK' /\ OpenedBelow
  BY DEF LInv
<1>p. ASSUME UNCHANGED <<clock, sessions>>, timer' \in {timer, NoTime, clock},
             (driver' = "up" \/ stage' = "module") /\ timer' = timer /\ timer # NoTime
               => driver = "up" \/ stage = "module"
      PROVE  \A t \in Ids : Pending(t)' <= Pending(t)
  <2> SUFFICES ASSUME NEW t \in Ids PROVE Pending(t)' <= Pending(t)
    OBVIOUS
  <2>1. /\ clock' = clock /\ clock - clock = 0 /\ Pending(t) \in Nat /\ Len(sessions') = Len(sessions)
    BY <1>0, <1>p, OwedIsNatural DEF LedgerTypeOK
  <2>2. CASE timer' = NoTime
    BY <2>1, <2>2 DEF Pending
  <2>3. CASE timer' = clock
    <3>1. Pending(t)' = 0
      BY <2>1, <2>3 DEF Pending
    <3> QED
      BY <2>1, <3>1
  <2>4. CASE timer' = timer
    <3>1. Pending(t)' = 0 \/ Pending(t)' = Pending(t)
      BY <1>p, <2>1, <2>4 DEF Pending
    <3> QED
      BY <2>1, <3>1
  <2> QED
    BY <1>p, <2>2, <2>3, <2>4
<1>q. ASSUME UNCHANGED <<clock, ledger, sessions, vouched>>, beating' \subseteq beating,
             stage' \in {stage, "none"},
             timer' \in {timer, NoTime, clock},
             (driver' = "up" \/ stage' = "module") /\ timer' = timer /\ timer # NoTime
               => driver = "up" \/ stage = "module"
      PROVE  Accounted'
  <2>1. Vouched' \subseteq Vouched \cup {0}
    BY <1>q DEF Vouched
  <2> QED
    BY <1>0, <1>p, <1>q, <2>1, LetGoKeepsAccounts
<1>1. CASE UNCHANGED vars
  BY <1>1, <1>q DEF vars
<1>2. CASE Tick
  BY <1>0, <1>2, TickKeepsAccounts
<1>3. ASSUME NEW s \in Ids, Heartbeat(s) PROVE Accounted'
  BY <1>0, <1>3, HeartbeatKeepsAccounts
<1>4. CASE StartDriver
  BY <1>4, <1>q DEF StartDriver, Control
<1>5. ASSUME NEW k \in Kinds, OpenStage(k) PROVE Accounted'
  BY <1>0, <1>5, OpenKeepsAccounts
<1>6. CASE RunChild
  BY <1>6, <1>q DEF RunChild
<1>7. CASE StartUnit
  BY <1>7, <1>q DEF StartUnit
<1>8. CASE UnitReceipt
  <2>1. Vouched' \subseteq Vouched /\ Len(sessions) # 0
    BY <1>8 DEF UnitReceipt, Vouched, Control
  <2> QED
    BY <1>0, <1>8, <2>1, ReceiptKeepsAccounts DEF UnitReceipt
<1>9. CASE ChildReturns
  BY <1>9, <1>q DEF ChildReturns
<1>10. ASSUME NEW rotate \in BOOLEAN, DriverReceipt(rotate) PROVE Accounted'
  <2>1. Vouched' \subseteq Vouched /\ Len(sessions) # 0 /\ driver = "up"
    BY <1>10 DEF DriverReceipt, AtPrompt, DriverIdle, Vouched, Control
  <2> QED
    BY <1>0, <1>10, <2>1, ReceiptKeepsAccounts DEF DriverReceipt
<1>11. CASE CloseNormally
  <2>1. /\ cur \in Ids /\ Open(cur) /\ cur = Len(sessions) /\ timer = NoTime
        /\ clock \in Nat /\ stage # "none"
    BY <1>0, <1>11 DEF CloseNormally, AtPrompt, Control, LedgerTypeOK
  <2>2. Pending(cur) = 0 /\ Until(cur) = clock /\ clock <= clock
    BY <2>1 DEF Pending, Until, Vouched
  <2> QED
    BY <1>0, <1>11, <2>1, <2>2, ChargeKeepsAccounts DEF CloseNormally
<1>12. CASE CloseInterrupted
  <2>1. cur \in Ids /\ Open(cur) /\ timer = NoTime
    BY <1>0, <1>12 DEF CloseInterrupted, Control, LedgerTypeOK
  <2>2. Pending(cur) = 0 /\ sessions[cur].last <= Until(cur) /\ sessions[cur].last \in Nat
    BY <1>0, <2>1, SessionFields DEF Pending, Until, LedgerTypeOK
  <2> QED
    BY <1>0, <1>12, <2>1, <2>2, ChargeKeepsAccounts DEF CloseInterrupted
<1>13. ASSUME NEW s \in Ids, Reconcile(s) PROVE Accounted'
  <2>1. Open(s) /\ (s = Len(sessions) /\ timer # NoTime => driver # "up" /\ stage # "module")
    BY <1>13 DEF Reconcile, Abandoned, Live, Control
  <2>2. Pending(s) = 0 /\ sessions[s].last <= Until(s) /\ sessions[s].last \in Nat
    BY <1>0, <2>1, SessionFields DEF Pending, Until, LedgerTypeOK
  <2> QED
    BY <1>0, <1>13, <2>1, <2>2, ChargeKeepsAccounts DEF Reconcile
<1>14. CASE CloseRow
  BY <1>14, CloseRowKeepsAccounts
<1>15. CASE EndUnjournaled
  BY <1>15, <1>q DEF EndUnjournaled
<1>16. CASE GuardPasses
  BY <1>16, <1>q DEF GuardPasses
<1>17. ASSUME NEW why \in {"die", "term"}, OnExit(why) PROVE Accounted'
  <2>1. CASE stage = "served" /\ timer # NoTime
    <3>1. /\ Vouched' \subseteq Vouched /\ Len(sessions) # 0
      BY <1>17 DEF OnExit, Vouched, Control
    <3> QED
      BY <1>0, <1>17, <2>1, <3>1, ReceiptKeepsAccounts DEF OnExit
  <2>2. CASE ~ (stage = "served" /\ timer # NoTime)
    BY <1>17, <2>2, <1>q DEF OnExit
  <2> QED
    BY <2>1, <2>2
<1>18. CASE LeaveTrap
  BY <1>18, <1>q DEF LeaveTrap
<1>19. CASE KillDriver
  BY <1>19, <1>q DEF KillDriver
<1>20. CASE OrphanEnds
  BY <1>20, <1>q DEF OrphanEnds
<1>21. CASE PowerLoss
  BY <1>21, <1>q DEF PowerLoss, ProcessesDie
<1> QED
  BY <1>1, <1>2, <1>3, <1>4, <1>5, <1>6, <1>7, <1>8, <1>9, <1>10, <1>11, <1>12, <1>13, <1>14,
     <1>15, <1>16, <1>17, <1>18, <1>19, <1>20, <1>21 DEF Next

LEMMA AInvInit == Init => AInv
<1> SUFFICES ASSUME Init PROVE AInv
  OBVIOUS
<1>1. LInv /\ Len(sessions) = 0 /\ Ids = {}
  BY LInvInit DEF Init, Ids
<1>2. Control
  BY <1>1 DEF Init, Control, NoClose
<1> DEFINE none == [i \in 0..0 |-> 0]
<1>3. none \in [0..0 -> Nat] /\ Shares(none)
  BY <1>1 DEF Shares, Init
<1> QED
  BY <1>1, <1>2, <1>3 DEF AInv, Accounted

LEMMA AInvStep == AInv /\ [Next]_vars => AInv'
<1> SUFFICES ASSUME AInv, [Next]_vars PROVE AInv'
  OBVIOUS
<1>1. LInv /\ LInv'
  BY LInvStep DEF AInv
<1>2. ~ rejoined' => ~ rejoined
  BY DEF Next, vars, Tick, Heartbeat, StartDriver, OpenStage, RunChild, StartUnit, UnitReceipt,
         ChildReturns, DriverReceipt, CloseNormally, CloseInterrupted, Reconcile, CloseRow,
         EndUnjournaled, GuardPasses, OnExit, LeaveTrap, KillDriver, OrphanEnds, PowerLoss, ProcessesDie, ghosts
<1> QED
  BY <1>1, <1>2, ControlStep, AccountsStep DEF AInv

(* Receipts, remainders and reconciliations never charge more than the time *)
(* stages and heartbeats vouch for, in whatever order they run and whoever  *)
(* dies between two of them; only a TERM during training is excepted.       *)
THEOREM NothingIsInvented == Spec => []NoInventedSeconds
<1>1. AInv => NoInventedSeconds
  <2> SUFFICES ASSUME AInv, ~ rejoined PROVE ledger <= vouched
    BY DEF NoInventedSeconds
  <2>1. PICK part \in [0..Len(sessions) -> Nat] : Shares(part)
    BY DEF AInv, Accounted
  <2>2. ledger \in Nat /\ vouched \in Nat /\ Len(sessions) \in Nat
    BY SessionFields DEF AInv, LInv, LedgerTypeOK
  <2>3. part[Len(sessions)] \in Nat /\ ledger + part[Len(sessions)] <= vouched
    BY <2>1, <2>2 DEF Shares
  <2> QED
    BY <2>2, <2>3
<1> QED
  BY <1>1, AInvInit, AInvStep, PTL DEF Spec
=============================================================================
