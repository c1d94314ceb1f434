--------------------------- MODULE DailyAllowance ---------------------------
(***************************************************************************)
(* What the daily cap of the event gate promises, without requests, locks  *)
(* or readings of the database: each business takes places of a day's      *)
(* allowance, and stores one event on a place it has taken or gives it     *)
(* back.  A restart gives back every place no event was stored on.         *)
(***************************************************************************)
EXTENDS Naturals

CONSTANTS Business, Cap

VARIABLES
  used,     \* business -> the places taken today
  stored    \* business -> the events stored today

allowanceVars == <<used, stored>>

AllowanceInit ==
  /\ used = [b \in Business |-> 0]
  /\ stored = [b \in Business |-> 0]

Take(b) ==
  /\ Cap = 0 \/ used[b] < Cap
  /\ used' = [used EXCEPT ![b] = @ + 1]
  /\ UNCHANGED stored

Store(b) ==
  /\ stored[b] < used[b]
  /\ stored' = [stored EXCEPT ![b] = @ + 1]
  /\ UNCHANGED used

GiveBack(b) ==
  /\ stored[b] < used[b]
  /\ used' = [used EXCEPT ![b] = @ - 1]
  /\ UNCHANGED stored

GiveAllBack == used' = stored /\ UNCHANGED stored

NewDay ==
  /\ used' = [b \in Business |-> 0]
  /\ stored' = [b \in Business |-> 0]

AllowanceNext ==
  (\E b \in Business : Take(b) \/ Store(b) \/ GiveBack(b)) \/ GiveAllBack \/ NewDay

AllowanceSpec == AllowanceInit /\ [][AllowanceNext]_allowanceVars
=============================================================================
