----------------------------- MODULE Warehouse -----------------------------
(***************************************************************************)
(* The stateful order a fulfillment episode works on: WarehouseState in    *)
(* suite/envs/fulfillment.py.  An order has lines; each line draws Qty[l]  *)
(* units from its own lot (the generator draws a fresh lot per line, so    *)
(* inventory is indexed by line; the distractor lots are never drawn from) *)
(* and Total[l] from one shared ledger.                                    *)
(*                                                                         *)
(* The state is the record env.  Reply and After give what a call answers  *)
(* and what it does to the state; they are operators on any such record,   *)
(* because the generator and the episode runtime both drive them.          *)
(***************************************************************************)
EXTENDS Integers, FiniteSets

CONSTANTS
  Lines,    \* the line numbers of the order
  Qty,      \* units a line reserves
  Total,    \* price of a line
  Stock,    \* units in the lot of a line when the order opens
  Budget,   \* the ledger when the order opens
  Owed,     \* Owed[S]: the summed price of the lines in S
  Express   \* one-line express order: reserve itself hands out the finalize token

(* Line numbers are positive: 0 stands for "no line" in calls and tokens. *)
LinesAssumption == Lines \subseteq Nat \ {0}
ASSUME LinesAssumption

AmountsAssumption ==
  /\ Qty \in [Lines -> Nat \ {0}]
  /\ Total \in [Lines -> Nat]
  /\ Stock \in [Lines -> Nat]
  /\ Budget \in Nat
  /\ Express \in BOOLEAN
ASSUME AmountsAssumption

(* An express order has one line: _LINES_FOR at the express horizon. *)
ExpressAssumption == Express => \A l, m \in Lines : l = m
ASSUME ExpressAssumption

(* Owed is summation, stated by the two facts that define it. *)
OwedAssumption ==
  /\ Owed \in [SUBSET Lines -> Nat]
  /\ Owed[{}] = 0
  /\ \A S \in SUBSET Lines : \A l \in Lines \ S :
        Owed[S \cup {l}] = Owed[S] + Total[l]
ASSUME OwedAssumption

VARIABLE env   \* the warehouse: EpisodeRuntime.env

EnvType ==
  [status    : {"open", "complete"},
   ledger    : Nat,
   inventory : [Lines -> Nat],
   reserved  : SUBSET Lines]

(***************************************************************************)
(* Calls and tokens.  arg is "exact" when the quantity and mass arguments  *)
(* are the line's and "other" when they are not; for a status query it     *)
(* says which of the two accepted tokens is passed.                        *)
(***************************************************************************)
Call(op, l, arg) == [op |-> op, line |-> l, arg |-> arg]

OrderToken       == <<"OTK", 0>>
LineToken(l)     == <<"LIN", l>>
QuoteToken(l)    == <<"QTE", l>>
ReserveToken(l)  == <<"RSV", l>>
FinalizeToken    == <<"FIN", 0>>
CompletionToken  == <<"CMP", 0>>

Payload(ok, says, gives) == [ok |-> ok, says |-> says, gives |-> gives]
Error(why)               == Payload(FALSE, why, {})

AllReserved(s) == s.reserved = Lines

(* What each mutating call needs to take effect, and its effect. *)
Reserves(s, l) ==
  /\ l \notin s.reserved
  /\ s.inventory[l] >= Qty[l]
  /\ s.ledger >= Total[l]

Reserved(s, l) ==
  [s EXCEPT !.inventory[l] = @ - Qty[l],
            !.ledger       = @ - Total[l],
            !.reserved     = @ \cup {l}]

(* Defective variant: a cancel still works on a complete order. *)
CancelsLate(s, l) == l \in s.reserved

Cancels(s, l) ==
  /\ l \in s.reserved
  /\ s.status # "complete"

(* Defective variant: a cancel returns the units but not the money. *)
ReleasedUnrefunded(s, l) ==
  [s EXCEPT !.inventory[l] = @ + Qty[l], !.reserved = @ \ {l}]

Released(s, l) ==
  [s EXCEPT !.inventory[l] = @ + Qty[l],
            !.ledger       = @ + Total[l],
            !.reserved     = @ \ {l}]

(* Defective variant: one reserved line is enough to finalize. *)
FinalizesEarly(s) == s.status # "complete" /\ s.reserved # {}

Finalizes(s) ==
  /\ s.status # "complete"
  /\ AllReserved(s)

Completed(s) == [s EXCEPT !.status = "complete"]

(* meta["mutated"] and meta["replay"] of a call. *)
Mutates(s, c) ==
  \/ c.op = "reserve"  /\ Reserves(s, c.line)
  \/ c.op = "cancel"   /\ Cancels(s, c.line)
  \/ c.op = "finalize" /\ Finalizes(s)

Replays(s, c) ==
  \/ c.op = "reserve"  /\ c.line \in s.reserved
  \/ c.op = "finalize" /\ s.status = "complete"

(* Defective variant: a replayed reserve draws from the order once more. *)
AfterTwice(s, c) ==
  IF Replays(s, c) /\ c.op = "reserve" THEN Reserved(s, c.line)
  ELSE IF ~ Mutates(s, c) THEN s
  ELSE CASE c.op = "reserve" -> Reserved(s, c.line)
         [] c.op = "cancel"  -> Released(s, c.line)
         [] OTHER            -> Completed(s)

After(s, c) ==
  IF ~ Mutates(s, c) THEN s
  ELSE CASE c.op = "reserve" -> Reserved(s, c.line)
         [] c.op = "cancel"  -> Released(s, c.line)
         [] OTHER            -> Completed(s)

(***************************************************************************)
(* The replies.  says tells payloads apart where equality with an expected *)
(* payload depends on it; gives is the set of tokens the payload carries.  *)
(***************************************************************************)
ReserveReply(s, l) ==
  LET reservation ==
        Payload(TRUE, "reserved",
                {ReserveToken(l)} \cup IF Express THEN {FinalizeToken} ELSE {})
  IN  IF l \in s.reserved \/ Reserves(s, l) THEN reservation
      ELSE IF s.inventory[l] < Qty[l] THEN Error("insufficient_inventory")
      ELSE Error("insufficient_funds")

(* Defective variant: any reserved line hands out the finalize token. *)
StatusReplyEager(s, l) ==
  IF l \notin s.reserved THEN Error("not_reserved")
  ELSE Payload(TRUE, "reserved", {ReserveToken(l), FinalizeToken})

StatusReply(s, l) ==
  IF l \notin s.reserved THEN Error("not_reserved")
  ELSE Payload(TRUE, "reserved",
               {ReserveToken(l)} \cup IF AllReserved(s) THEN {FinalizeToken} ELSE {})

CancelReply(s, l) ==
  IF l \notin s.reserved THEN Error("unknown_token")
  ELSE IF s.status = "complete" THEN Error("already_complete")
  ELSE Payload(TRUE, "cancelled", {})

FinalizeReply(s) ==
  IF s.status = "complete" \/ AllReserved(s)
  THEN Payload(TRUE, "complete", {CompletionToken})
  ELSE Error("incomplete_order")

(* The shared read-only tools (knowledge base, calculator, unit conversion) *)
(* answer from their arguments alone.                                       *)
Reply(s, c) ==
  CASE c.op = "order"    -> Payload(TRUE, s.status, {LineToken(l) : l \in Lines})
    [] c.op = "quote"    -> IF c.arg = "exact"
                            THEN Payload(TRUE, "quoted", {QuoteToken(c.line)})
                            ELSE Error("quote_mismatch")
    [] c.op = "reserve"  -> ReserveReply(s, c.line)
    [] c.op = "status"   -> StatusReply(s, c.line)
    [] c.op = "cancel"   -> CancelReply(s, c.line)
    [] c.op = "finalize" -> FinalizeReply(s)
    [] OTHER             -> Payload(TRUE, c.arg, {})

-----------------------------------------------------------------------------
(***************************************************************************)
(* The warehouse on its own: any order of the three mutating calls.  Every *)
(* other call, and a mutating call that is refused or replayed, leaves env *)
(* as it is, that is, stutters.                                            *)
(***************************************************************************)
Fresh ==
  [status |-> "open", ledger |-> Budget, inventory |-> Stock, reserved |-> {}]

WarehouseInit == env = Fresh

Reserve(l)  == Reserves(env, l) /\ env' = Reserved(env, l)
Cancel(l)   == Cancels(env, l)  /\ env' = Released(env, l)
Finalize    == Finalizes(env)   /\ env' = Completed(env)

WarehouseNext ==
  \/ \E l \in Lines : Reserve(l)
  \/ \E l \in Lines : Cancel(l)
  \/ Finalize

WarehouseSpec == WarehouseInit /\ [][WarehouseNext]_env

-----------------------------------------------------------------------------
(* The state record has the shape __init__ gives it, and neither the ledger *)
(* nor a lot ever goes below zero.                                          *)
WarehouseTypeOK == env \in EnvType

(* "A reservation decrements inventory and ledger atomically", and a cancel *)
(* gives back exactly what was taken: whatever calls came before, what is   *)
(* missing from the ledger and the lots is what the reserved lines hold.    *)
Conservation ==
  /\ env.ledger + Owed[env.reserved] = Budget
  /\ \A l \in Lines :
        env.inventory[l] + (IF l \in env.reserved THEN Qty[l] ELSE 0) = Stock[l]

(* A complete order is complete for good: it holds every line, and no later *)
(* call (a cancel, a replayed reserve or finalize) changes anything.        *)
CompleteHoldsEveryLine == env.status = "complete" => AllReserved(env)

CompleteIsFinal == [][env.status = "complete" => env' = env]_env
=============================================================================
