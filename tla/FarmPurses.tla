----------------------------- MODULE FarmPurses -----------------------------
(***************************************************************************)
(* What liquidity mining promises about money: every global farm has a     *)
(* purse of its own.  It is filled once, by the owner, and from then on it *)
(* only pays out, to users and at the end to the owner.  What one farm     *)
(* pays never comes out of the purse of another one, although in the       *)
(* implementation all rewards pass through one shared pot account.         *)
(***************************************************************************)
EXTENDS Integers

CONSTANT Farms

VARIABLES
  purse,   \* what is set aside for each farm
  paid     \* what was paid out by all farms

\* Nothing was paid yet; farms may have been funded before the behaviour begins.
Init ==
  /\ purse \in [Farms -> Nat]
  /\ paid = 0

\* The owner fills the purse of a new farm.
Fund(g) ==
  /\ paid' = paid
  /\ purse[g] = 0 /\ purse'[g] > 0
  /\ purse' = [purse EXCEPT ![g] = purse'[g]]

\* The farm pays out part of its purse.
Pay(g) ==
  /\ paid' > paid
  /\ paid' - paid <= purse[g]
  /\ purse' = [purse EXCEPT ![g] = @ - (paid' - paid)]

\* The farm is closed: the owner gets at most what is left, a remainder lost to rounding stays behind.
Close(g) ==
  /\ paid' >= paid
  /\ paid' - paid <= purse[g]
  /\ purse' = [purse EXCEPT ![g] = 0]

Next == \E g \in Farms : Fund(g) \/ Pay(g) \/ Close(g)

Spec == Init /\ [][Next]_<<purse, paid>>
=============================================================================
