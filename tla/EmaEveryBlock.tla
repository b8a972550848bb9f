--------------------------- MODULE EmaEveryBlock ---------------------------
(***************************************************************************)
(* What the EMA oracle promises: for each key and period, the moving       *)
(* average that takes in one value in every block, the last one reported   *)
(* in it or, in a block without reports, the one of the block before with  *)
(* no volume.                                                              *)
(***************************************************************************)
EXTENDS Integers

CONSTANTS
  None, Keys, Periods,
  LastBlock,            \* the period that keeps the last value only
  Smoothing(_)          \* of a period: the weight n / d of a new value

VARIABLES
  ema,                  \* of each key and period, up to the parent block; or None
  reported              \* what the current block has brought for each key; or None

vars == <<ema, reported>>

Average(prev, new, s) == (prev * (s.d - s.n) + new * s.n) \div s.d

Taken(prev, new, period) ==
  IF period = LastBlock THEN new
  ELSE [price |-> Average(prev.price, new.price, Smoothing(period)),
        volume |-> Average(prev.volume, new.volume, Smoothing(period)),
        shares |-> IF new.shares = None THEN None
                   ELSE Average(IF prev.shares = None THEN 0 ELSE prev.shares, new.shares, Smoothing(period))]

\* The value that a block brings.
BlockValue(k) == IF reported[k] # None THEN reported[k] ELSE [ema[k][LastBlock] EXCEPT !.volume = 0]

Init ==
  /\ ema = [k \in Keys |-> [p \in Periods |-> None]]
  /\ reported = [k \in Keys |-> None]

\* One more report for a key: its price and shares replace the ones before, its volume adds to them.
Report(k) ==
  /\ ema' = ema
  /\ \A other \in Keys \ {k} : reported'[other] = reported[other]
  /\ reported'[k] # None
  /\ reported[k] # None => reported'[k].volume >= reported[k].volume

Forget ==
  \E gone \in SUBSET Keys :
    /\ ema' = [k \in Keys |-> [p \in Periods |-> IF k \in gone THEN None ELSE ema[k][p]]]
    /\ reported' = [k \in Keys |-> IF k \in gone THEN None ELSE reported[k]]

EndBlock ==
  /\ ema' = [k \in Keys |-> [p \in Periods |->
               IF ema[k][p] = None THEN reported[k] ELSE Taken(ema[k][p], BlockValue(k), p)]]
  /\ reported' = [k \in Keys |-> None]

Next == (\E k \in Keys : Report(k)) \/ Forget \/ EndBlock

Spec == Init /\ [][Next]_vars
=============================================================================
