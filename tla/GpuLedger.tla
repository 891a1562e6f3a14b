----------------------------- MODULE GpuLedger -----------------------------
(***************************************************************************)
(* GPU accounting: the ledger and the session journal of suite/configio.py *)
(* driven by the GPU stages of scripts/run_multifaceted_chain.sh.          *)
(*                                                                         *)
(* Three processes share two append-only files: the driver, the foreground *)
(* child it runs (a stage module or an evaluator), and one background      *)
(* heartbeat per session.  Any of them can die at any step.                *)
(*                                                                         *)
(* A stage is of one of three kinds, by who writes its receipts:           *)
(*   module  the child, one receipt per engine start or unit of work       *)
(*   served  the driver, one receipt per server session (session_begin to  *)
(*           session_end, rotated between units)                           *)
(*   train   the driver, one receipt when training returns; no guard runs  *)
(*                                                                         *)
(* Time is a clock in whole units of at least JOURNAL_MIN_CHARGE_S, so any *)
(* positive charge is written.                                             *)
(***************************************************************************)
EXTENDS Integers, Sequences, FiniteSets

CONSTANTS
  Kinds,         \* the stage kinds a driver runs
  Ceiling,       \* budget.gpu_hours_ceiling
  Projection,    \* what the guard takes the remaining stage to cost
  MaxTime,       \* bound on the clock
  MaxSessions    \* bound on the sessions ever opened

LedgerAssumption ==
  /\ Kinds \subseteq {"module", "served", "train"}
  /\ Ceiling \in Nat /\ Projection \in Nat
  /\ MaxTime \in Nat /\ MaxSessions \in Nat
ASSUME LedgerAssumption

VARIABLES
  clock,
  ledger,      \* ledger_elapsed_s: the sum of the rows of gpu_ledger.jsonl
  sessions,    \* journal_state: one record per open row, in file order
  beating,     \* sessions whose heartbeat process is alive
  driver,      \* "up" or "down"
  stage,       \* the kind of stage that holds the card, or "none"
  child,       \* the foreground child: "none", "guarding", "working"
  timer,       \* start of the interval the next receipt covers (SESSION_T0, t0)
  cur,         \* JOURNAL_ID: the session of the live driver, or 0
  closing,     \* a journal_close between its charge and its close row
  trap,        \* on_exit is running because of: "die", "term"; or "none"
  vouched,     \* ghost: session-time some stage or heartbeat vouches for
  rejoined     \* ghost: a trapped TERM returned into a stage already timed

files   == <<ledger, sessions>>
actors  == <<beating, driver, stage, child, timer, cur, closing, trap>>
ghosts  == <<vouched, rejoined>>
vars    == <<clock, files, actors, ghosts>>

NoTime  == 0 - 1
NoClose == [session |-> 0, observed |-> 0]

Larger(a, b) == IF a >= b THEN a ELSE b

Ids     == 1..Len(sessions)
Open(s) == ~ sessions[s].closed

(* process_is_current: the pid recorded in the open row is the driver's. *)
Live(s)      == driver = "up" /\ s = cur
Abandoned    == {s \in Ids : Open(s) /\ ~ Live(s)}
DriverIdle   == driver = "up" /\ trap = "none" /\ closing = NoClose
InStage(k)   == DriverIdle /\ stage = k
AtPrompt     == DriverIdle /\ stage # "none" /\ child = "none"

Init ==
  /\ clock = 0 /\ ledger = 0 /\ sessions = <<>>
  /\ beating = {} /\ driver = "down" /\ stage = "none" /\ child = "none"
  /\ timer = NoTime /\ cur = 0 /\ closing = NoClose /\ trap = "none"
  /\ vouched = 0 /\ rejoined = FALSE

-----------------------------------------------------------------------------
(* The sessions some process vouches for: the one of the stage that holds   *)
(* the card, and those with a heartbeat.                                    *)
Vouched == beating \cup IF stage # "none" THEN {Len(sessions)} ELSE {}

(* Time passes; the heartbeat process of an open session appends a beat. *)
Tick ==
  /\ clock < MaxTime
  /\ clock' = clock + 1
  /\ vouched' = vouched + Cardinality(Vouched)
  /\ UNCHANGED <<files, actors, rejoined>>

Heartbeat(s) ==
  /\ s \in beating /\ Open(s)
  /\ sessions' = [sessions EXCEPT ![s].last = clock]
  /\ UNCHANGED <<clock, ledger, actors, ghosts>>

-----------------------------------------------------------------------------
(* The driver starts once nothing else holds the card (require_gpu). *)
StartDriver ==
  /\ driver = "down" /\ stage = "none"
  /\ driver' = "up"
  /\ UNCHANGED <<clock, files, beating, stage, child, timer, cur, closing, trap, ghosts>>

(* gpu_session_open, then session_begin or t0 where the driver keeps time. *)
OpenStage(k) ==
  /\ InStage("none") /\ Len(sessions) < MaxSessions
  /\ sessions' = Append(sessions, [opened |-> clock, atOpen |-> ledger, last |-> clock,
                                   closed |-> FALSE, observed |-> 0])
  /\ cur' = Len(sessions) + 1
  /\ beating' = beating \cup {cur'}
  /\ stage' = k
  /\ timer' = IF k = "module" THEN NoTime ELSE clock
  /\ UNCHANGED <<clock, ledger, driver, child, closing, trap, ghosts>>

(* The driver runs the stage's child.  Training is run once and unguarded;  *)
(* the others begin with ledger_guard.                                      *)
RunChild ==
  /\ AtPrompt
  /\ stage = "train" => timer # NoTime
  /\ child' = IF stage = "train" THEN "working" ELSE "guarding"
  /\ UNCHANGED <<clock, files, beating, driver, stage, timer, cur, closing, trap, ghosts>>

(* A stage module times and charges each unit of its own work. *)
StartUnit ==
  /\ stage = "module" /\ child = "working" /\ timer = NoTime
  /\ timer' = clock
  /\ UNCHANGED <<clock, files, beating, driver, stage, child, cur, closing, trap, ghosts>>

UnitReceipt ==
  /\ stage = "module" /\ child = "working" /\ timer # NoTime
  /\ ledger' = ledger + (clock - timer)
  /\ timer' = NoTime
  /\ UNCHANGED <<clock, sessions, beating, driver, stage, child, cur, closing, trap, ghosts>>

ChildReturns ==
  /\ child = "working" /\ driver = "up"
  /\ stage = "module" => timer = NoTime
  /\ child' = "none"
  /\ UNCHANGED <<clock, files, beating, driver, stage, timer, cur, closing, trap, ghosts>>

(* session_end, or ledger_note after training; a rotation begins a new      *)
(* server session in the same breath.                                       *)
DriverReceipt(rotate) ==
  /\ AtPrompt /\ stage \in {"served", "train"} /\ timer # NoTime
  /\ rotate => stage = "served"
  /\ ledger' = ledger + (clock - timer)
  /\ timer' = IF rotate THEN clock ELSE NoTime
  /\ UNCHANGED <<clock, sessions, beating, driver, stage, child, cur, closing, trap, ghosts>>

-----------------------------------------------------------------------------
(* Defective variants: the close charges the whole session beside its own *)
(* receipts; the close takes every older receipt for one of the session.  *)
RemainderWhole(s, end) == end - sessions[s].opened

RemainderOfLedger(s, end) == Larger(0, (end - sessions[s].opened) - ledger)

(* journal_close charges what the ledger has not grown by since the session *)
(* opened, then appends the close row: two appends to two files.            *)
Remainder(s, end) ==
  Larger(0, (end - sessions[s].opened) - Larger(0, ledger - sessions[s].atOpen))

Charge(s, end) ==
  /\ ledger' = ledger + Remainder(s, end)
  /\ closing' = [session |-> s, observed |-> end - sessions[s].opened]

CloseNormally ==
  /\ AtPrompt /\ cur # 0
  /\ stage # "module" => timer = NoTime
  /\ beating' = beating \ {cur}
  /\ Charge(cur, clock)
  /\ UNCHANGED <<clock, sessions, driver, stage, child, timer, cur, trap, ghosts>>

CloseInterrupted ==
  /\ trap # "none" /\ cur # 0 /\ closing = NoClose
  /\ Charge(cur, sessions[cur].last)
  /\ UNCHANGED <<clock, sessions, beating, driver, stage, child, timer, cur, trap, ghosts>>

(* reconcile_open_sessions, one abandoned session at a time, oldest first. *)
Reconcile(s) ==
  /\ child = "guarding" /\ closing = NoClose
  /\ s \in Abandoned /\ \A t \in Abandoned : s <= t
  /\ Charge(s, sessions[s].last)
  /\ UNCHANGED <<clock, sessions, beating, driver, stage, child, timer, cur, trap, ghosts>>

CloseRow ==
  /\ closing # NoClose
  /\ LET s == closing.session
     IN  /\ sessions' = [sessions EXCEPT ![s].closed = TRUE,
                                         ![s].observed = closing.observed]
         /\ beating' = beating \ {s}
         /\ cur' = IF s = cur THEN 0 ELSE cur
         /\ stage' = IF s = cur /\ trap = "none" THEN "none" ELSE stage
  /\ closing' = NoClose
  /\ UNCHANGED <<clock, ledger, driver, child, timer, trap, ghosts>>

(* The end of a stage whose session the trap has closed already. *)
EndUnjournaled ==
  /\ AtPrompt /\ cur = 0
  /\ timer = NoTime
  /\ stage' = "none"
  /\ UNCHANGED <<clock, files, beating, driver, child, timer, cur, closing, trap, ghosts>>

(* Defective variant: the guard reads the ledger without reconciling. *)
GuardPassesUnreconciled ==
  /\ child = "guarding" /\ closing = NoClose
  /\ ledger + Projection <= Ceiling
  /\ child' = "working"
  /\ UNCHANGED <<clock, files, beating, driver, stage, timer, cur, closing, trap, ghosts>>

(* The guard's decision, with every abandoned session charged.  A guard     *)
(* that refuses is a child that fails: OnExit("die") below.                 *)
GuardPasses ==
  /\ child = "guarding" /\ closing = NoClose /\ Abandoned = {}
  /\ ledger + Projection <= Ceiling
  /\ child' = "working"
  /\ UNCHANGED <<clock, files, beating, driver, stage, timer, cur, closing, trap, ghosts>>

-----------------------------------------------------------------------------
(* on_exit: stop the server, charge its session, kill the heartbeat.  It    *)
(* runs when the driver dies (the guard refused, the child failed, or both  *)
(* were interrupted) or, for a TERM, between two children: bash defers the  *)
(* trap until a child returns.                                              *)
OnExit(why) ==
  /\ driver = "up" /\ trap = "none" /\ stage # "none"
  /\ closing # NoClose => closing.session # cur
  /\ why = "term" => child = "none"
  /\ ledger' = IF stage = "served" /\ timer # NoTime THEN ledger + (clock - timer)
               ELSE ledger
  /\ timer' = IF stage = "train" /\ why = "term" THEN timer ELSE NoTime
  /\ rejoined' = (rejoined \/ (stage = "train" /\ why = "term" /\ timer # NoTime))
  /\ beating' = beating \ {cur}
  /\ child' = "none" /\ closing' = NoClose
  /\ trap' = why
  /\ UNCHANGED <<clock, sessions, driver, stage, cur, vouched>>

(* die exits the shell; the trap of a TERM returns into the stage. *)
LeaveTrap ==
  /\ trap # "none" /\ cur = 0
  /\ trap' = "none"
  /\ IF trap = "die"
     THEN driver' = "down" /\ stage' = "none" /\ timer' = NoTime
     ELSE UNCHANGED <<driver, stage, timer>>
  /\ UNCHANGED <<clock, files, beating, child, cur, closing, ghosts>>

(* SIGKILL of the driver alone: its child, its server and its heartbeat     *)
(* live on.  The card is free again once the orphan is gone.                *)
KillDriver ==
  /\ driver = "up"
  /\ driver' = "down" /\ cur' = 0 /\ trap' = "none"
  /\ closing' = IF closing.session = cur THEN NoClose ELSE closing
  /\ UNCHANGED <<clock, files, beating, stage, child, timer, ghosts>>

OrphanEnds ==
  /\ driver = "down" /\ stage # "none"
  /\ stage' = "none" /\ child' = "none" /\ timer' = NoTime /\ closing' = NoClose
  /\ UNCHANGED <<clock, files, beating, driver, cur, trap, ghosts>>

ProcessesDie ==
  /\ driver' = "down" /\ stage' = "none" /\ child' = "none" /\ beating' = {}
  /\ timer' = NoTime /\ cur' = 0 /\ closing' = NoClose /\ trap' = "none"

(* The machine stops and both files survive; GpuLedgerPower drops the latter. *)
PowerLoss ==
  /\ ProcessesDie
  /\ UNCHANGED <<clock, files, ghosts>>

Next ==
  \/ Tick
  \/ \E s \in Ids : Heartbeat(s)
  \/ StartDriver
  \/ \E k \in Kinds : OpenStage(k)
  \/ RunChild
  \/ StartUnit
  \/ UnitReceipt
  \/ ChildReturns
  \/ \E rotate \in BOOLEAN : DriverReceipt(rotate)
  \/ CloseNormally
  \/ CloseInterrupted
  \/ \E s \in Ids : Reconcile(s)
  \/ CloseRow
  \/ EndUnjournaled
  \/ GuardPasses
  \/ \E why \in {"die", "term"} : OnExit(why)
  \/ LeaveTrap
  \/ KillDriver
  \/ OrphanEnds
  \/ PowerLoss

Spec == Init /\ [][Next]_vars

-----------------------------------------------------------------------------
(* The files and the processes have their shape. *)
Session == [opened : Nat, atOpen : Nat, last : Nat, closed : BOOLEAN, observed : Nat]

LedgerTypeOK ==
  /\ clock \in Nat /\ ledger \in Nat /\ vouched \in Nat /\ rejoined \in BOOLEAN
  /\ sessions \in Seq(Session)
  /\ \A s \in Ids : sessions[s].opened <= sessions[s].last /\ sessions[s].last <= clock
  /\ beating \subseteq Ids /\ cur \in Ids \cup {0}
  /\ driver \in {"up", "down"} /\ stage \in Kinds \cup {"none"}
  /\ child \in {"none", "guarding", "working"} /\ trap \in {"none", "die", "term"}
  /\ timer \in 0..clock \cup {NoTime}
  /\ closing \in [session : Ids \cup {0}, observed : Nat]

(* "The close [...] cannot double-charge": receipts, remainders and         *)
(* reconciliations of crashed sessions together never charge more than the  *)
(* time for which stages and heartbeats vouch for each session, whatever    *)
(* dies between a charge and its close row.  (A TERM during training is the *)
(* exception, below.)                                                       *)
NoInventedSeconds == ~ rejoined => ledger <= vouched

(* When a session is closed the ledger has grown, since it opened, by at    *)
(* least what the journal observed of it.                                   *)
ChargedSinceOpen ==
  \A s \in Ids :
    ~ Open(s) => ledger >= sessions[s].atOpen + sessions[s].observed

(* "A killed predecessor cannot hide under the ceiling": the guard lets a   *)
(* stage work only if what each earlier session is known to have occupied,  *)
(* on top of the ledger it found, leaves room for the projection.           *)
Attested(s) ==
  IF Open(s) THEN sessions[s].last - sessions[s].opened ELSE sessions[s].observed

PredecessorsCounted ==
  [][(child = "guarding" /\ child' = "working") =>
       \A s \in Ids \ {cur} :
         sessions[s].atOpen + Attested(s) + Projection <= Ceiling]_vars

(* configio: an interrupted run charges exactly the part its own receipts   *)
(* never got to write.  Once every session is closed, all that was observed *)
(* is in the ledger.                                                        *)
Observed ==
  LET sum[n \in 0..Len(sessions)] ==
        IF n = 0 THEN 0 ELSE sum[n - 1] + sessions[n].observed
  IN  sum[Len(sessions)]

InterruptionsCharged == (\A s \in Ids : ~ Open(s)) => Observed <= ledger

(* The driver: the close cannot double-charge a stage whose receipts cover  *)
(* the same interval.                                                       *)
NeverDoubleCharged == ledger <= vouched
=============================================================================
