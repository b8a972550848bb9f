------------------------- MODULE WithdrawFuseProofs -------------------------
(***************************************************************************)
(* Proofs about WithdrawFuse for every limit, window, price, amount and    *)
(* number of assets and accounts.                                          *)
(***************************************************************************)
EXTENDS WithdrawFuse, TLAPS

(***************************************************************************)
(* Why the net egress of a window is bounded.  Once something has been     *)
(* noted since the observation began, the accumulator is below the limit,  *)
(* and what was noted is either still in it or has decayed; the decay over *)
(* a time t is at most (limit - 1) * t / window.                           *)
(***************************************************************************)
NetExplained ==
  observed # None =>
    /\ LimitApplies
    /\ \/ observed.net <= 0
       \/ /\ accumulator.last >= observed.since
          /\ accumulator.current < globalWithdrawLimit.limit
          /\ observed.net * globalWithdrawLimit.window
               <= accumulator.current * globalWithdrawLimit.window
                  + (globalWithdrawLimit.limit - 1)
                      * (accumulator.last - observed.since)

(* The pre-check vouches for all the withdrawals of the message, so for    *)
(* whatever the deposits leave of them.                                    *)
WithdrawalsVouched ==
  xcmBuffer # None /\ plainMessage =>
    xcmBuffer.withdrawn = 0 \/ CanNoteEgress(xcmBuffer.withdrawn)

IInv == TypeOK /\ NetExplained /\ WithdrawalsVouched

-----------------------------------------------------------------------------
(* Arithmetic.                                                             *)

(* Division rounds down.                                                   *)
LEMMA DivFacts ==
  ASSUME NEW x \in Nat, NEW d \in Nat, d >= 1
  PROVE  x \div d \in Nat /\ (x \div d) * d <= x
  OBVIOUS

(* Multiplication by a natural number keeps the order.                     *)
LEMMA MultMonotone ==
  ASSUME NEW x \in Int, NEW y \in Int, NEW k \in Nat, x <= y
  PROVE  x * k <= y * k
  OBVIOUS

(* A positive factor may be cancelled from an inequality.                  *)
LEMMA CancelFactor ==
  ASSUME NEW x \in Int, NEW y \in Int, NEW k \in Nat, k >= 1, x * k <= y * k
  PROVE  x <= y
  OBVIOUS

(* The part of c that decays in a time dt out of a window w, computed with *)
(* a fraction of n parts, is at most c * dt / w.                           *)
LEMMA DecayBound ==
  ASSUME NEW c \in Nat, NEW dt \in Nat, NEW w \in Nat, NEW n \in Nat,
         w >= 1, n >= 1, dt <= w
  PROVE  LET part == (dt * n) \div w
             decay == (c * part) \div n
         IN decay \in 0 .. c /\ decay * w <= c * dt
  <1> DEFINE part == (dt * n) \div w
             decay == (c * part) \div n
  <1>1. dt * n \in Nat
    OBVIOUS
  <1>2. part \in Nat /\ part * w <= dt * n
    BY <1>1, DivFacts
  <1>3. c * part \in Nat
    BY <1>2
  <1>4. decay \in Nat /\ decay * n <= c * part
    BY <1>3, DivFacts
  <1> HIDE DEF part, decay
  <1>5. (decay * n) * w <= (c * part) * w
    BY <1>3, <1>4, MultMonotone
  <1>6. (part * w) * c <= (dt * n) * c
    BY <1>1, <1>2, MultMonotone
  <1>7. (decay * w) * n <= (c * dt) * n
    <2>1. (decay * n) * w = (decay * w) * n
      BY <1>4
    <2>2. (c * part) * w = (part * w) * c
      BY <1>2
    <2>3. (dt * n) * c = (c * dt) * n
      OBVIOUS
    <2>4. (decay * n) * w \in Int /\ (part * w) * c \in Int /\ (c * dt) * n \in Int
      BY <1>2, <1>4
    <2> QED BY <1>5, <1>6, <2>1, <2>2, <2>3, <2>4
  <1>8. decay * w \in Int /\ c * dt \in Int
    BY <1>4
  <1>9. decay * w <= c * dt
    BY <1>7, <1>8, CancelFactor
  <1>10. dt * c <= w * c
    BY MultMonotone
  <1>11. decay * w <= c * w
    BY <1>8, <1>9, <1>10
  <1>12. decay <= c
    BY <1>4, <1>11, CancelFactor
  <1> QED
    BY <1>4, <1>9, <1>12 DEF part, decay

-----------------------------------------------------------------------------
(* The helpers.                                                            *)

(* convert_to_hdx returns an amount.                                       *)
LEMMA ConvertIsNat ==
  ASSUME NEW a \in Assets, NEW amount \in Nat, Convertible(a)
  PROVE  ConvertToHdx(a, amount) \in Nat
  <1>1. CASE a = NativeAsset
    BY <1>1 DEF ConvertToHdx
  <1>2. CASE a # NativeAsset
    <2>1. Price[a][1] \in Nat /\ Price[a][1] >= 1 /\ Price[a][2] \in Nat
      BY <1>2, FuseAssumption DEF Convertible
    <2>2. amount * Price[a][2] \in Nat
      BY <2>1
    <2>3. amount * Price[a][2] + Price[a][1] - 1 \in Nat
      BY <2>1, <2>2
    <2> QED
      BY <1>2, <2>1, <2>3, DivFacts DEF ConvertToHdx
  <1> QED
    BY <1>1, <1>2

(* try_to_decay_withdraw_limit_accumulator never raises the accumulator,   *)
(* and takes off at most its share of the time that passed.                *)
LEMMA DecayedFacts ==
  ASSUME TypeOK
  PROVE  LET acc == Decayed(accumulator)
         IN /\ acc \in [current : Balance, last : 0 .. now]
            /\ acc.current <= accumulator.current
            /\ acc.last >= accumulator.last
            /\ LimitApplies =>
                 (accumulator.current - acc.current) * globalWithdrawLimit.window
                   <= accumulator.current * (acc.last - accumulator.last)
            /\ LimitApplies /\ ~IsLockdownAt(now) => acc.last = now
  <1>1. /\ accumulator.current \in Nat /\ accumulator.current <= MaxBalance
        /\ accumulator.last \in Nat /\ accumulator.last <= now
        /\ now \in Nat /\ MaxBalance \in Nat
    BY FuseAssumption DEF TypeOK, Balance, Time
  <1>2. CASE globalWithdrawLimit = None \/ globalWithdrawLimit.window < 1
               \/ now = accumulator.last \/ IsLockdownAt(now)
    <2>1. Decayed(accumulator) = accumulator
      BY <1>2 DEF Decayed
    <2>2. LimitApplies => globalWithdrawLimit.window \in Nat
      BY DEF LimitApplies, TypeOK
    <2>3. LimitApplies => (accumulator.current - accumulator.current) * globalWithdrawLimit.window
                            <= accumulator.current * (accumulator.last - accumulator.last)
      BY <1>1, <2>2
    <2>4. LimitApplies /\ ~IsLockdownAt(now) => accumulator.last = now
      BY <1>2, <2>2 DEF LimitApplies
    <2> QED
      BY <1>1, <2>1, <2>3, <2>4 DEF TypeOK
  <1>3. CASE ~(globalWithdrawLimit = None \/ globalWithdrawLimit.window < 1
               \/ now = accumulator.last \/ IsLockdownAt(now))
    <2> DEFINE window == globalWithdrawLimit.window
               dt == Min(now - accumulator.last, window)
               decay == (accumulator.current * ((dt * Accuracy) \div window)) \div Accuracy
    <2>1. window \in Nat /\ window >= 1
      BY <1>3 DEF TypeOK
    <2>2. dt \in Nat /\ dt <= window /\ dt <= now - accumulator.last
      BY <1>1, <2>1 DEF Min
    <2>3. Decayed(accumulator) = [current |-> accumulator.current - decay, last |-> now]
      BY <1>3 DEF Decayed
    <2>4. Accuracy \in Nat /\ Accuracy >= 1
      BY FuseAssumption
    <2> HIDE DEF window, dt
    <2>5. decay \in 0 .. accumulator.current /\ decay * window <= accumulator.current * dt
      BY <1>1, <2>1, <2>2, <2>4, DecayBound, Zenon
    <2> HIDE DEF decay
    <2>6. dt * accumulator.current <= (now - accumulator.last) * accumulator.current
      BY <1>1, <2>2, MultMonotone
    <2>7. decay * window <= accumulator.current * (now - accumulator.last)
      <3>1. dt * accumulator.current = accumulator.current * dt
        BY <1>1, <2>2
      <3>2. (now - accumulator.last) * accumulator.current
              = accumulator.current * (now - accumulator.last)
        BY <1>1
      <3>3. decay * window \in Int /\ accumulator.current * dt \in Int
        BY <1>1, <2>1, <2>2, <2>5
      <3> QED BY <1>1, <2>5, <2>6, <3>1, <3>2, <3>3
    <2>8. accumulator.current - (accumulator.current - decay) = decay
      BY <1>1, <2>5
    <2>9. accumulator.current - decay \in Balance
      BY <1>1, <2>5 DEF Balance
    <2>10. now \in 0 .. now
      BY <1>1
    <2> QED
      BY <1>1, <2>3, <2>5, <2>7, <2>8, <2>9, <2>10 DEF window
  <1> QED
    BY <1>2, <1>3

-----------------------------------------------------------------------------
(* The net egress stays explained by the accumulator.                      *)

Explains(acc, net) ==
  \/ net <= 0
  \/ /\ acc.last >= observed.since
     /\ acc.current < globalWithdrawLimit.limit
     /\ net * globalWithdrawLimit.window
          <= acc.current * globalWithdrawLimit.window
             + (globalWithdrawLimit.limit - 1) * (acc.last - observed.since)

(* What the decay takes off is made up for by the time that passed.        *)
LEMMA DecayExplained ==
  ASSUME IInv, observed # None
  PROVE  Explains(Decayed(accumulator), observed.net)
  <1> DEFINE acc == Decayed(accumulator)
             W == globalWithdrawLimit.window
             top == globalWithdrawLimit.limit - 1
             cur == accumulator.current
             last == accumulator.last
             since == observed.since
  <1>1. /\ W \in Nat /\ W >= 1 /\ top \in Int
        /\ cur \in Nat /\ last \in Nat /\ since \in Nat /\ observed.net \in Int
    BY FuseAssumption DEF IInv, TypeOK, NetExplained, LimitApplies, Balance, Time
  <1>2. /\ acc.current \in Nat /\ acc.last \in Nat
        /\ acc.current <= cur /\ acc.last >= last
        /\ (cur - acc.current) * W <= cur * (acc.last - last)
    BY DecayedFacts, FuseAssumption DEF IInv, NetExplained, Balance, Time, TypeOK
  <1>3. CASE observed.net <= 0
    BY <1>3 DEF Explains
  <1>4. CASE observed.net > 0
    <2>1. /\ last >= since /\ cur < globalWithdrawLimit.limit
          /\ observed.net * W <= cur * W + top * (last - since)
      BY <1>1, <1>4 DEF IInv, NetExplained
    <2>2. globalWithdrawLimit.limit \in Nat
      BY DEF IInv, TypeOK, NetExplained, LimitApplies
    <2>3. cur <= top
      BY <1>1, <2>1, <2>2
    <2>8. acc.current < globalWithdrawLimit.limit
      BY <1>1, <1>2, <2>1, <2>2
    <2> DEFINE ac == acc.current
               al == acc.last
               net == observed.net
    <2>9. ac \in Nat /\ al \in Nat /\ ac <= cur /\ al >= last /\ net \in Int
          /\ (cur - ac) * W <= cur * (al - last)
          /\ net * W <= cur * W + top * (last - since)
          /\ W \in Nat /\ top \in Int /\ cur \in Nat /\ last \in Nat /\ since \in Nat
          /\ al >= since
      BY <1>1, <1>2, <2>1
    <2> HIDE DEF ac, al, net, W, top, cur, last, since, acc
    <2>4. cur * (al - last) <= top * (al - last)
      BY <2>3, <2>9, MultMonotone
    <2>5. (cur - ac) * W = cur * W - ac * W
      BY <2>9
    <2>6. top * (al - last) + top * (last - since) = top * (al - since)
      BY <2>9
    <2>7. net * W <= ac * W + top * (al - since)
      <3>1. /\ net * W \in Int /\ cur * W \in Int /\ ac * W \in Int
            /\ top * (al - last) \in Int /\ top * (last - since) \in Int
            /\ top * (al - since) \in Int /\ cur * (al - last) \in Int
        BY <2>9
      <3> QED BY <2>4, <2>5, <2>6, <2>9, <3>1
    <2> QED
      BY <2>7, <2>8, <2>9 DEF Explains, ac, al, net, W, top, since, acc
  <1> QED
    BY <1>1, <1>3, <1>4

(* An accumulator and a net egress that change by the same amount.         *)
LEMMA ShiftExplained ==
  ASSUME IInv, observed # None, LimitApplies,
         NEW x \in Int, NEW last \in Nat, last = Decayed(accumulator).last,
         last >= observed.since,
         Decayed(accumulator).current + x \in Nat,
         \/ x <= 0
         \/ Decayed(accumulator).current + x < globalWithdrawLimit.limit
  PROVE  Explains([current |-> Decayed(accumulator).current + x, last |-> last],
                  observed.net + x)
  <1> DEFINE ac == Decayed(accumulator).current
             W == globalWithdrawLimit.window
             top == globalWithdrawLimit.limit - 1
             net == observed.net
             since == observed.since
  <1>1. /\ W \in Nat /\ W >= 1 /\ top \in Int /\ net \in Int /\ since \in Nat
        /\ globalWithdrawLimit.limit \in Nat
    BY FuseAssumption DEF IInv, TypeOK, LimitApplies, Time
  <1>2. ac \in Nat
    BY DecayedFacts, FuseAssumption DEF IInv, Balance
  <1>3. Explains(Decayed(accumulator), net)
    BY DecayExplained
  <1>4. CASE net + x <= 0
    BY <1>4 DEF Explains
  <1>5. CASE net + x > 0
    <2>1. ac + x < globalWithdrawLimit.limit
      BY <1>1, <1>2, <1>3, <1>5 DEF Explains
    <2>2. (net + x) * W <= (ac + x) * W + top * (last - since)
      <3> DEFINE lim == globalWithdrawLimit.limit
      <3>0. top = lim - 1 /\ lim \in Nat /\ ac + x < lim /\ last >= since /\ ac + x \in Nat
        BY <1>1, <2>1
      <3>1. CASE net <= 0
        <4>1. net + x <= ac + x
          BY <1>1, <1>2, <3>1
        <4> HIDE DEF net, ac, W, top, since, lim
        <4>2. (net + x) * W <= (ac + x) * W
          BY <1>1, <1>2, <4>1, MultMonotone
        <4>3. top \in Nat /\ last - since \in Nat
          BY <1>1, <3>0
        <4>4. top * (last - since) \in Nat
          BY <4>3
        <4>5. (net + x) * W \in Int /\ (ac + x) * W \in Int
          BY <1>1, <1>2
        <4> QED BY <4>2, <4>4, <4>5
      <3>2. CASE net > 0
        <4>1. net * W <= ac * W + top * (last - since)
          BY <1>1, <1>3, <3>2 DEF Explains
        <4> HIDE DEF net, ac, W, top, since, lim
        <4>2. (net + x) * W = net * W + x * W /\ (ac + x) * W = ac * W + x * W
          BY <1>1, <1>2
        <4>3. /\ net * W \in Int /\ x * W \in Int /\ ac * W \in Int
              /\ top * (last - since) \in Int
          BY <1>1, <1>2
        <4> QED BY <4>1, <4>2, <4>3
      <3> QED BY <1>1, <3>1, <3>2
    <2> QED
      BY <2>1, <2>2 DEF Explains
  <1> QED
    BY <1>1, <1>4, <1>5

-----------------------------------------------------------------------------
(* The entry points of the accumulator keep what the induction needs.      *)

AccountingKept ==
  /\ accumulator' \in [current : Balance, last : 0 .. now']
  /\ observed' \in [since : 0 .. now', net : Int] \cup {None}
  /\ NetExplained'

(* A step that leaves the accounting alone keeps what explains it.         *)
LEMMA UnchangedAccounting ==
  ASSUME IInv, UNCHANGED <<now, globalWithdrawLimit, accumulator, observed>>
  PROVE  AccountingKept
  BY DEF IInv, TypeOK, NetExplained, LimitApplies, AccountingKept

(* try_to_decay_withdraw_limit_accumulator keeps the account of the noted  *)
(* egress.                                                                 *)
LEMMA DecayKeeps ==
  ASSUME IInv, UNCHANGED <<now, globalWithdrawLimit, observed>>,
         accumulator' = Decayed(accumulator)
  PROVE  AccountingKept
  <1>1. accumulator' \in [current : Balance, last : 0 .. now']
    BY DecayedFacts DEF IInv
  <1>2. observed' \in [since : 0 .. now', net : Int] \cup {None}
    BY DEF IInv, TypeOK
  <1>3. NetExplained'
    BY DecayExplained DEF IInv, NetExplained, LimitApplies, Explains
  <1> QED
    BY <1>1, <1>2, <1>3 DEF AccountingKept

(* note_egress adds the same amount to the accumulator and to the noted    *)
(* egress.                                                                 *)
LEMMA NoteEgressKeeps ==
  ASSUME IInv, UNCHANGED <<now, globalWithdrawLimit>>,
         NEW amount \in Nat, NoteEgress(amount)
  PROVE  AccountingKept
  <1>1. CASE ~LimitApplies
    BY <1>1, UnchangedAccounting DEF NoteEgress
  <1>2. CASE LimitApplies
    <2> DEFINE acc == Decayed(accumulator)
    <2>1. /\ ~IsLockdownAt(now)
          /\ acc.current + amount <= MaxBalance
          /\ acc.current + amount < globalWithdrawLimit.limit
          /\ accumulator' = [current |-> acc.current + amount, last |-> now]
          /\ Observe(amount)
      BY <1>2 DEF NoteEgress, CanNoteEgress, LimitApplies
    <2>2. acc.current \in Nat /\ acc.last = now /\ now \in Nat
      BY <1>2, <2>1, DecayedFacts, FuseAssumption DEF IInv, TypeOK, Balance, Time
    <2>3. acc.current + amount \in Balance /\ now \in 0 .. now
      BY <2>1, <2>2, FuseAssumption DEF Balance
    <2>4. accumulator' \in [current : Balance, last : 0 .. now']
      BY <2>1, <2>3
    <2>5. CASE observed = None
      BY <2>1, <2>4, <2>5 DEF AccountingKept, NetExplained, Observe
    <2>6. CASE observed # None
      <3>1. observed \in [since : 0 .. now, net : Int]
        BY <2>6 DEF IInv, TypeOK
      <3>2. observed' = [observed EXCEPT !.net = @ + amount]
        BY <2>1, <2>6 DEF Observe
      <3>3. /\ observed' \in [since : 0 .. now, net : Int]
            /\ observed'.since = observed.since /\ observed'.net = observed.net + amount
        BY <3>1, <3>2
      <3>4. observed.since \in Nat /\ now >= observed.since
        BY <2>2, <3>1
      <3>5. Explains([current |-> acc.current + amount, last |-> now],
                     observed.net + amount)
        BY <1>2, <2>1, <2>2, <2>3, <2>6, <3>4, ShiftExplained
      <3>6. NetExplained'
        BY <1>2, <2>1, <3>3, <3>5 DEF NetExplained, Explains, LimitApplies
      <3> QED
        BY <2>4, <3>3, <3>6 DEF AccountingKept
    <2> QED
      BY <2>5, <2>6
  <1> QED
    BY <1>1, <1>2

(* note_deposit lowers the accumulator and the noted egress by the same    *)
(* amount.                                                                 *)
LEMMA NoteDepositKeeps ==
  ASSUME IInv, UNCHANGED <<now, globalWithdrawLimit>>,
         NEW amount \in Nat, NoteDeposit(amount)
  PROVE  AccountingKept
  <1>1. CASE IsLockdownAt(now)
    BY <1>1, UnchangedAccounting DEF NoteDeposit
  <1>2. CASE ~IsLockdownAt(now)
    <2> DEFINE before == Decayed(accumulator).current
               after == Saturating(before - amount)
    <2>1. /\ accumulator' = [current |-> after, last |-> now]
          /\ Observe(after - before)
      BY <1>2 DEF NoteDeposit
    <2>2. before \in Nat /\ before <= MaxBalance /\ now \in Nat /\ MaxBalance \in Nat
      BY DecayedFacts, FuseAssumption DEF IInv, TypeOK, Balance, Time
    <2>3. after \in Nat /\ after <= before
      BY <2>2 DEF Saturating
    <2>4. after \in Balance /\ now \in 0 .. now
      BY <2>2, <2>3 DEF Balance
    <2>5. accumulator' \in [current : Balance, last : 0 .. now']
      BY <2>1, <2>4
    <2>6. CASE observed = None
      BY <2>1, <2>5, <2>6 DEF AccountingKept, NetExplained, Observe
    <2>7. CASE observed # None
      <3> DEFINE change == after - before
      <3>1. observed \in [since : 0 .. now, net : Int] /\ LimitApplies
        BY <2>7 DEF IInv, TypeOK, NetExplained
      <3>2. observed' = [observed EXCEPT !.net = @ + change]
        BY <2>1, <2>7 DEF Observe
      <3>3. change \in Int /\ change <= 0 /\ before + change = after
        BY <2>2, <2>3
      <3> HIDE DEF change
      <3>4. /\ observed' \in [since : 0 .. now, net : Int]
            /\ observed'.since = observed.since /\ observed'.net = observed.net + change
        BY <3>1, <3>2, <3>3
      <3>5. observed.since \in Nat /\ now >= observed.since
        BY <2>2, <3>1
      <3>6. Decayed(accumulator).last = now
        BY <1>2, <3>1, DecayedFacts DEF IInv
      <3> HIDE DEF after
      <3>7. Explains([current |-> before + change, last |-> now], observed.net + change)
        BY <2>2, <2>3, <2>7, <3>1, <3>3, <3>5, <3>6, ShiftExplained
      <3>8. NetExplained'
        BY <2>1, <3>1, <3>3, <3>4, <3>7 DEF NetExplained, Explains, LimitApplies
      <3> QED
        BY <2>5, <3>4, <3>8 DEF AccountingKept
    <2> QED
      BY <2>6, <2>7
  <1> QED
    BY <1>1, <1>2

-----------------------------------------------------------------------------
(* The steps.                                                              *)

Buffers == [withdrawn : Balance, deposited : Balance]

(* Adding to the buffer saturates at the largest Balance.                  *)
LEMMA SaturatedAdd ==
  ASSUME NEW x \in Balance, NEW value \in Nat
  PROVE  /\ Min(x + value, MaxBalance) \in Balance
         /\ x + value <= MaxBalance => Min(x + value, MaxBalance) = x + value
  BY FuseAssumption DEF Min, Balance

(* note_egress accepts less whenever it accepts more.                      *)
LEMMA CanNoteLess ==
  ASSUME TypeOK, NEW x \in Nat, NEW y \in Nat, y <= x, CanNoteEgress(x)
  PROVE  CanNoteEgress(y)
  <1>1. Decayed(accumulator).current \in Nat
    BY DecayedFacts, FuseAssumption DEF Balance
  <1>2. LimitApplies => globalWithdrawLimit.limit \in Nat
    BY DEF LimitApplies, TypeOK
  <1> QED
    BY <1>1, <1>2, FuseAssumption DEF CanNoteEgress

(* The chain starts without a limit and outside of any message.            *)
LEMMA InitInv ==
  Init => IInv
  BY FuseAssumption
  DEF Init, IInv, TypeOK, NetExplained, WithdrawalsVouched, Balance, Time, Categories

(* A withdrawal, in or out of a message, keeps the invariant.              *)
LEMMA WithdrawInv ==
  ASSUME IInv, NEW a \in Assets, NEW amount \in Amounts, Withdraw(a, amount)
  PROVE  IInv'
  <1> DEFINE value == ConvertToHdx(a, amount)
  <1>1. UNCHANGED <<now, governed, pendingFee>> /\ OnWithdraw(a, amount)
        /\ plainMessage' = (plainMessage /\ xcmBuffer = None)
    BY DEF Withdraw
  <1>2. amount \in Nat
    BY FuseAssumption DEF Balance
  <1>3. UNCHANGED <<now, globalWithdrawLimit>>
    BY <1>1 DEF governed
  <1>4. CASE ~ShouldAccountWithdraw(a)
    <2>1. UNCHANGED <<accumulator, observed, xcmBuffer>>
      BY <1>1, <1>4 DEF OnWithdraw
    <2>2. AccountingKept
      BY <1>3, <2>1, UnchangedAccounting
    <2> QED
      BY <1>1, <2>1, <2>2, Zenon
      DEF IInv, TypeOK, AccountingKept, WithdrawalsVouched, governed, policy
  <1>5. CASE ShouldAccountWithdraw(a) /\ xcmBuffer = None
    <2>1. NoteEgress(value) /\ UNCHANGED xcmBuffer /\ Convertible(a)
      BY <1>1, <1>5 DEF OnWithdraw
    <2>2. value \in Nat
      BY <1>2, <2>1, ConvertIsNat
    <2> HIDE DEF value
    <2>3. AccountingKept
      BY <1>3, <2>1, <2>2, NoteEgressKeeps
    <2> QED
      BY <1>1, <1>5, <2>1, <2>3
      DEF IInv, TypeOK, AccountingKept, WithdrawalsVouched, governed, policy
  <1>6. CASE ShouldAccountWithdraw(a) /\ xcmBuffer # None
    <2>1. /\ xcmBuffer' = [xcmBuffer EXCEPT !.withdrawn = Min(@ + value, MaxBalance)]
          /\ UNCHANGED <<accumulator, observed>> /\ Convertible(a)
      BY <1>1, <1>6 DEF OnWithdraw
    <2>2. value \in Nat
      BY <1>2, <2>1, ConvertIsNat
    <2> HIDE DEF value
    <2>3. xcmBuffer \in Buffers /\ xcmBuffer.withdrawn \in Balance
      BY <1>6 DEF IInv, TypeOK, Buffers
    <2>4. xcmBuffer' \in Buffers
      BY <2>1, <2>2, <2>3, SaturatedAdd DEF Buffers
    <2>5. AccountingKept
      BY <1>3, <2>1, UnchangedAccounting
    <2>6. WithdrawalsVouched'
      BY <1>1, <1>6, Zenon DEF WithdrawalsVouched
    <2> QED
      BY <1>1, <2>1, <2>4, <2>5, <2>6
      DEF IInv, TypeOK, AccountingKept, Buffers, governed, policy
  <1> QED
    BY <1>4, <1>5, <1>6

(* A deposit, in or out of a message, keeps the invariant.                 *)
LEMMA DepositInv ==
  ASSUME IInv, NEW a \in Assets, NEW who \in Accounts, NEW amount \in Amounts,
         Deposit(a, who, amount)
  PROVE  IInv'
  <1> DEFINE value == ConvertToHdx(a, amount)
  <1>1. UNCHANGED <<now, governed, pendingFee, plainMessage>>
    BY DEF Deposit
  <1>2. amount \in Nat
    BY FuseAssumption DEF Balance
  <1>3. UNCHANGED <<now, globalWithdrawLimit, lockdownUntil>>
    BY <1>1 DEF governed
  <1>4. CASE UNCHANGED <<accumulator, observed, xcmBuffer>>
    <2>1. AccountingKept
      BY <1>3, <1>4, UnchangedAccounting
    <2>2. WithdrawalsVouched'
      BY <1>1, <1>3, <1>4
      DEF IInv, WithdrawalsVouched, CanNoteEgress, LimitApplies, Decayed, IsLockdownAt
    <2> QED
      BY <1>1, <1>4, <2>1, <2>2
      DEF IInv, TypeOK, AccountingKept, governed, policy
  <1>5. CASE Convertible(a) /\ xcmBuffer = None /\ NoteDeposit(value) /\ UNCHANGED xcmBuffer
    <2>1. value \in Nat
      BY <1>2, <1>5, ConvertIsNat
    <2> HIDE DEF value
    <2>2. AccountingKept
      BY <1>3, <1>5, <2>1, NoteDepositKeeps
    <2> QED
      BY <1>1, <1>5, <2>2
      DEF IInv, TypeOK, AccountingKept, WithdrawalsVouched, governed, policy
  <1>6. CASE /\ Convertible(a) /\ xcmBuffer # None
             /\ xcmBuffer' = [xcmBuffer EXCEPT !.deposited = Min(@ + value, MaxBalance)]
             /\ UNCHANGED <<accumulator, observed>>
    <2>1. value \in Nat
      BY <1>2, <1>6, ConvertIsNat
    <2> HIDE DEF value
    <2>2. xcmBuffer \in Buffers /\ xcmBuffer.deposited \in Balance
      BY <1>6 DEF IInv, TypeOK, Buffers
    <2>3. xcmBuffer' \in Buffers /\ xcmBuffer'.withdrawn = xcmBuffer.withdrawn
      BY <1>6, <2>1, <2>2, SaturatedAdd DEF Buffers
    <2>4. AccountingKept
      BY <1>3, <1>6, UnchangedAccounting
    <2>5. WithdrawalsVouched'
      BY <1>1, <1>3, <1>6, <2>3
      DEF IInv, WithdrawalsVouched, CanNoteEgress, LimitApplies, Decayed, IsLockdownAt
    <2> QED
      BY <1>1, <1>6, <2>3, <2>4, <2>5
      DEF IInv, TypeOK, AccountingKept, Buffers, governed, policy
  <1> QED
    BY <1>4, <1>5, <1>6 DEF Deposit

(* A transfer, to an egress account or not, keeps the invariant.           *)
LEMMA TransferInv ==
  ASSUME IInv, NEW a \in Assets, NEW from \in Accounts, NEW to \in Accounts,
         NEW amount \in Amounts, Transfer(a, from, to, amount)
  PROVE  IInv'
  <1> DEFINE value == ConvertToHdx(a, amount)
  <1>1. UNCHANGED <<now, governed, xcmBuffer, pendingFee>>
    BY DEF Transfer
  <1>2. amount \in Nat
    BY FuseAssumption DEF Balance
  <1>3. UNCHANGED <<now, globalWithdrawLimit, lockdownUntil>>
    BY <1>1 DEF governed
  <1>4. plainMessage' \in BOOLEAN /\ (plainMessage' => plainMessage)
    BY DEF Transfer, IInv, TypeOK
  <1>5. CASE UNCHANGED <<accumulator, observed>>
    <2>1. AccountingKept
      BY <1>3, <1>5, UnchangedAccounting
    <2>2. WithdrawalsVouched'
      BY <1>1, <1>3, <1>4, <1>5, Zenon
      DEF IInv, WithdrawalsVouched, CanNoteEgress, LimitApplies, Decayed, IsLockdownAt
    <2> QED
      BY <1>1, <1>4, <2>1, <2>2
      DEF IInv, TypeOK, AccountingKept, governed, policy
  <1>6. CASE /\ NoteEgress(value) \/ NoteDeposit(value)
             /\ Convertible(a)
             /\ plainMessage' => xcmBuffer = None
    <2>1. value \in Nat
      BY <1>2, <1>6, ConvertIsNat
    <2> HIDE DEF value
    <2>2. AccountingKept
      BY <1>3, <1>6, <2>1, NoteEgressKeeps, NoteDepositKeeps
    <2>3. WithdrawalsVouched'
      BY <1>1, <1>6 DEF WithdrawalsVouched
    <2> QED
      BY <1>1, <1>4, <2>2, <2>3
      DEF IInv, TypeOK, AccountingKept, governed, policy
  <1> QED
    BY <1>5, <1>6, Zenon DEF Transfer

(* A message begins with an empty buffer, for which nothing needs to be    *)
(* vouched.                                                                *)
LEMMA XcmBeginInv ==
  ASSUME IInv, XcmBegin
  PROVE  IInv'
  <1>1. /\ xcmBuffer' = [withdrawn |-> 0, deposited |-> 0] /\ plainMessage' = TRUE
        /\ UNCHANGED <<now, governed, accumulator, pendingFee, observed>>
    BY DEF XcmBegin
  <1>2. xcmBuffer' \in Buffers
    BY <1>1, FuseAssumption DEF Buffers, Balance
  <1>3. AccountingKept
    BY <1>1, UnchangedAccounting DEF governed
  <1>4. WithdrawalsVouched'
    BY <1>1 DEF WithdrawalsVouched
  <1> QED
    BY <1>1, <1>2, <1>3, <1>4
    DEF IInv, TypeOK, AccountingKept, Buffers, governed, policy

(* After the decay of the pre-check the accumulator decays no further in   *)
(* the same block.                                                         *)
LEMMA DecayedTwice ==
  ASSUME TypeOK, accumulator' = Decayed(accumulator),
         UNCHANGED <<now, globalWithdrawLimit, lockdownUntil>>
  PROVE  Decayed(accumulator)' = Decayed(accumulator)
  BY DEF Decayed, IsLockdownAt

(* The pre-check of a withdrawal vouches for all the withdrawals of the    *)
(* message so far.                                                         *)
LEMMA XcmWithdrawInv ==
  ASSUME IInv, NEW a \in Assets, NEW amount \in Amounts, XcmWithdraw(a, amount)
  PROVE  IInv'
  <1> DEFINE value == ConvertToHdx(a, amount)
  <1>1. UNCHANGED <<now, governed, pendingFee, plainMessage, observed>> /\ xcmBuffer # None
    BY DEF XcmWithdraw
  <1>2. amount \in Nat
    BY FuseAssumption DEF Balance
  <1>3. UNCHANGED <<now, globalWithdrawLimit, lockdownUntil>>
    BY <1>1 DEF governed
  <1>4. CASE UNCHANGED <<accumulator, xcmBuffer>>
    <2>1. AccountingKept
      BY <1>1, <1>3, <1>4, UnchangedAccounting
    <2>2. WithdrawalsVouched'
      BY <1>1, <1>3, <1>4
      DEF IInv, WithdrawalsVouched, CanNoteEgress, LimitApplies, Decayed, IsLockdownAt
    <2> QED
      BY <1>1, <1>4, <2>1, <2>2
      DEF IInv, TypeOK, AccountingKept, governed, policy
  <1>5. CASE /\ Convertible(a) /\ CanNoteEgress(xcmBuffer.withdrawn + value)
             /\ accumulator' = Decayed(accumulator)
             /\ xcmBuffer' = [xcmBuffer EXCEPT !.withdrawn = Min(@ + value, MaxBalance)]
    <2>1. value \in Nat
      BY <1>2, <1>5, ConvertIsNat
    <2> HIDE DEF value
    <2>2. xcmBuffer \in Buffers /\ xcmBuffer.withdrawn \in Balance
      BY <1>1 DEF IInv, TypeOK, Buffers
    <2>3. /\ xcmBuffer' \in Buffers
          /\ xcmBuffer'.withdrawn = Min(xcmBuffer.withdrawn + value, MaxBalance)
      BY <1>5, <2>1, <2>2, SaturatedAdd DEF Buffers
    <2>4. AccountingKept
      BY <1>1, <1>3, <1>5, DecayKeeps
    <2>5. Decayed(accumulator)' = Decayed(accumulator)
      BY <1>3, <1>5, DecayedTwice DEF IInv
    <2>6. Decayed(accumulator).current \in Nat
      BY DecayedFacts, FuseAssumption DEF IInv, Balance
    <2>7. CanNoteEgress(xcmBuffer.withdrawn)'
      <3>1. CASE LimitApplies
        <4>1. xcmBuffer.withdrawn + value <= MaxBalance
          BY <1>5, <2>1, <2>2, <2>6, <3>1, FuseAssumption
          DEF CanNoteEgress, LimitApplies, Balance
        <4>2. xcmBuffer'.withdrawn = xcmBuffer.withdrawn + value
          BY <2>1, <2>2, <2>3, <4>1, SaturatedAdd
        <4> QED
          BY <1>3, <1>5, <2>5, <4>2 DEF CanNoteEgress, LimitApplies, IsLockdownAt
      <3>2. CASE ~LimitApplies
        BY <1>3, <1>5, <3>2 DEF CanNoteEgress, LimitApplies, IsLockdownAt
      <3> QED BY <3>1, <3>2
    <2>8. WithdrawalsVouched'
      BY <1>5, <2>7 DEF WithdrawalsVouched
    <2> QED
      BY <1>1, <2>3, <2>4, <2>8
      DEF IInv, TypeOK, AccountingKept, Buffers, governed, policy
  <1> QED
    BY <1>4, <1>5 DEF XcmWithdraw, EnsureXcmWithdrawCanProceed

(* The end of a message notes the net amount of the buffer and closes it.  *)
LEMMA XcmEndInv ==
  ASSUME IInv, XcmEnd
  PROVE  IInv'
  <1>1. /\ xcmBuffer # None /\ xcmBuffer' = None /\ plainMessage' = TRUE
        /\ UNCHANGED <<now, governed, pendingFee>>
    BY DEF XcmEnd
  <1>2. NetEgress \in Nat
    BY <1>1, FuseAssumption DEF IInv, TypeOK, NetEgress, Saturating, Balance
  <1>3. UNCHANGED <<now, globalWithdrawLimit>>
    BY <1>1 DEF governed
  <1>4. AccountingKept
    BY <1>2, <1>3, UnchangedAccounting, NoteEgressKeeps, DecayKeeps DEF XcmEnd
  <1> QED
    BY <1>1, <1>4
    DEF IInv, TypeOK, AccountingKept, WithdrawalsVouched, governed, policy

(* Withdrawing a fee with the fuse switched off leaves the accumulator     *)
(* alone.                                                                  *)
LEMMA FeeWithdrawInv ==
  ASSUME IInv, NEW a \in Assets, NEW who \in Accounts, NEW amount \in Amounts,
         FeeWithdraw(a, who, amount)
  PROVE  IInv'
  <1>1. /\ xcmBuffer = None /\ pendingFee' = [asset |-> a, who |-> who, amount |-> amount]
        /\ UNCHANGED <<now, governed, accumulator, xcmBuffer, plainMessage, observed>>
    BY DEF FeeWithdraw
  <1>2. amount \in Balance
    BY FuseAssumption
  <1>3. AccountingKept
    BY <1>1, UnchangedAccounting DEF governed
  <1> QED
    BY <1>1, <1>2, <1>3
    DEF IInv, TypeOK, AccountingKept, WithdrawalsVouched, governed, policy

(* The refund and the fee are deposited, and noted like other deposits.    *)
LEMMA FeeSettleInv ==
  ASSUME IInv, NEW refund \in Nat, FeeSettle(refund)
  PROVE  IInv'
  <1>1. /\ xcmBuffer = None /\ pendingFee # None /\ pendingFee' = None
        /\ refund \in 0 .. pendingFee.amount
        /\ UNCHANGED <<now, governed, xcmBuffer, plainMessage>>
    BY DEF FeeSettle
  <1>2. UNCHANGED <<now, globalWithdrawLimit>>
    BY <1>1 DEF governed
  <1> DEFINE counted == Convertible(pendingFee.asset) /\ SettledInflow(refund) > 0
  <1>3. counted => AccountingKept
    <2> SUFFICES ASSUME counted PROVE AccountingKept
      OBVIOUS
    <2>1. NoteDeposit(SettledInflow(refund))
      BY DEF FeeSettle
    <2>2. SettledInflow(refund) \in Nat
      <3>1. pendingFee.asset \in Assets /\ pendingFee.amount \in Nat
        BY <1>1, FuseAssumption DEF IInv, TypeOK, Balance
      <3>2. refund \in Nat /\ pendingFee.amount - refund \in Nat
        BY <1>1, <3>1
      <3> QED BY <3>1, <3>2, ConvertIsNat DEF SettledInflow
    <2> QED BY <1>2, <2>1, <2>2, NoteDepositKeeps
  <1>4. ~counted => AccountingKept
    BY <1>2, UnchangedAccounting DEF FeeSettle
  <1> QED
    BY <1>1, <1>3, <1>4
    DEF IInv, TypeOK, AccountingKept, WithdrawalsVouched, governed, policy

(* A new block leaves the accumulator alone and may begin an observation.  *)
LEMMA NewBlockInv ==
  ASSUME IInv, NEW dt \in Time, NewBlock(dt)
  PROVE  IInv'
  <1>1. /\ xcmBuffer = None /\ now' = now + dt /\ now + dt <= MaxTime
        /\ lockdownUntil' \in {lockdownUntil, None}
        /\ UNCHANGED <<globalWithdrawLimit, accumulator, policy, xcmBuffer,
                       pendingFee, plainMessage>>
    BY DEF NewBlock
  <1>2. now \in Nat /\ dt \in Nat /\ now' \in Nat /\ now <= now' /\ now' \in Time
    BY <1>1, FuseAssumption DEF IInv, TypeOK, Time
  <1>3. 0 .. now \subseteq 0 .. now'
    BY <1>2
  <1>4. accumulator' \in [current : Balance, last : 0 .. now']
    BY <1>1, <1>3 DEF IInv, TypeOK
  <1>5. CASE observed' = observed
    <2>1. observed' \in [since : 0 .. now', net : Int] \cup {None}
      BY <1>3, <1>5 DEF IInv, TypeOK
    <2>2. NetExplained'
      BY <1>1, <1>5 DEF IInv, NetExplained, LimitApplies
    <2> QED
      BY <1>1, <1>2, <1>4, <2>1, <2>2 DEF IInv, TypeOK, WithdrawalsVouched, policy
  <1>6. CASE LimitApplies /\ observed' = [since |-> now + dt, net |-> 0]
    <2>1. observed' \in [since : 0 .. now', net : Int]
      BY <1>1, <1>2, <1>6
    <2>2. NetExplained'
      BY <1>1, <1>6 DEF NetExplained, LimitApplies
    <2> QED
      BY <1>1, <1>2, <1>4, <2>1, <2>2 DEF IInv, TypeOK, WithdrawalsVouched, policy
  <1> QED
    BY <1>5, <1>6 DEF NewBlock

GovernanceStep ==
  \/ \E params \in Params : SetGlobalWithdrawLimitParams(params)
  \/ ResetWithdrawLockdown
  \/ \E until \in Lockdowns : SetGlobalWithdrawLockdown(until)
  \/ \E who \in PolicyAccounts : AddEgressAccount(who)
  \/ \E who \in PolicyAccounts : RemoveEgressAccount(who)
  \/ \E a \in PolicyAssets, c \in Categories \cup {None} : SetAssetCategory(a, c)

(* The governance calls end the observation or leave the accounting alone. *)
LEMMA GovernanceInv ==
  ASSUME IInv, GovernanceStep
  PROVE  IInv'
  <1>1. xcmBuffer = None /\ UNCHANGED <<now, xcmBuffer, pendingFee, plainMessage>>
    BY DEF GovernanceStep, Governance, SetGlobalWithdrawLimitParams,
           ResetWithdrawLockdown, SetGlobalWithdrawLockdown, AddEgressAccount,
           RemoveEgressAccount, SetAssetCategory
  <1>2. WithdrawalsVouched'
    BY <1>1 DEF WithdrawalsVouched
  <1>3. CASE \E params \in Params : SetGlobalWithdrawLimitParams(params)
    BY <1>1, <1>2, <1>3, FuseAssumption
    DEF SetGlobalWithdrawLimitParams, IInv, TypeOK, NetExplained, policy
  <1>4. CASE ResetWithdrawLockdown
    <2>1. now \in 0 .. now /\ 0 \in Balance
      BY FuseAssumption DEF IInv, TypeOK, Time, Balance
    <2> QED
      BY <1>1, <1>2, <1>4, <2>1
      DEF ResetWithdrawLockdown, IInv, TypeOK, NetExplained, policy
  <1>5. CASE \E until \in Lockdowns : SetGlobalWithdrawLockdown(until)
    BY <1>1, <1>2, <1>5, FuseAssumption
    DEF SetGlobalWithdrawLockdown, IInv, TypeOK, NetExplained, LimitApplies, policy
  <1>6. CASE \E who \in PolicyAccounts : AddEgressAccount(who)
    BY <1>1, <1>2, <1>6, FuseAssumption
    DEF AddEgressAccount, IInv, TypeOK, NetExplained, LimitApplies
  <1>7. CASE \E who \in PolicyAccounts : RemoveEgressAccount(who)
    BY <1>1, <1>2, <1>7, FuseAssumption
    DEF RemoveEgressAccount, IInv, TypeOK, NetExplained, LimitApplies
  <1>8. CASE \E a \in PolicyAssets, c \in Categories \cup {None} : SetAssetCategory(a, c)
    BY <1>1, <1>2, <1>8, FuseAssumption
    DEF SetAssetCategory, IInv, TypeOK, NetExplained, LimitApplies
  <1> QED
    BY <1>3, <1>4, <1>5, <1>6, <1>7, <1>8 DEF GovernanceStep

(* Every step keeps the invariant.                                         *)
LEMMA StepInv ==
  IInv /\ [Next]_vars => IInv'
  <1> SUFFICES ASSUME IInv, [Next]_vars PROVE IInv'
    OBVIOUS
  <1>1. CASE UNCHANGED vars
    <2>1. AccountingKept
      BY <1>1, UnchangedAccounting DEF vars
    <2> QED
      BY <1>1, <2>1, Zenon
      DEF vars, policy, IInv, TypeOK, AccountingKept, WithdrawalsVouched,
          CanNoteEgress, LimitApplies, Decayed, IsLockdownAt
  <1>2. CASE \E a \in Assets, x \in Amounts : Withdraw(a, x)
    BY <1>2, WithdrawInv
  <1>3. CASE \E a \in Assets, who \in Accounts, x \in Amounts : Deposit(a, who, x)
    BY <1>3, DepositInv
  <1>4. CASE \E a \in Assets, from, to \in Accounts, x \in Amounts :
               Transfer(a, from, to, x)
    BY <1>4, TransferInv
  <1>5. CASE XcmBegin
    BY <1>5, XcmBeginInv
  <1>6. CASE \E a \in Assets, x \in Amounts : XcmWithdraw(a, x)
    BY <1>6, XcmWithdrawInv
  <1>7. CASE XcmEnd
    BY <1>7, XcmEndInv
  <1>8. CASE \E a \in Assets, who \in Accounts, x \in Amounts : FeeWithdraw(a, who, x)
    BY <1>8, FeeWithdrawInv
  <1>9. CASE \E refund \in Amounts \cup {0} : FeeSettle(refund)
    <2>1. Amounts \cup {0} \subseteq Nat
      BY FuseAssumption DEF Balance
    <2> QED BY <1>9, <2>1, FeeSettleInv
  <1>10. CASE \E dt \in Time \ {0} : NewBlock(dt)
    BY <1>10, NewBlockInv
  <1>11. CASE GovernanceStep
    BY <1>11, GovernanceInv
  <1> QED
    BY <1>1, <1>2, <1>3, <1>4, <1>5, <1>6, <1>7, <1>8, <1>9, <1>10, <1>11
    DEF Next, GovernanceStep

(* The inductive invariant holds in every reachable state.                 *)
THEOREM FuseInvariant == Spec => []IInv
  BY InitInv, StepInv, PTL DEF Spec

-----------------------------------------------------------------------------
(* The net egress note_egress lets through in any span of a window is at   *)
(* most twice what the limit admits at once.                               *)
THEOREM WindowBounded == Spec => []WindowBound
  <1>1. IInv => WindowBound
    <2> SUFFICES ASSUME IInv, observed # None,
                        now - observed.since <= globalWithdrawLimit.window
                 PROVE  observed.net <= Saturating(2 * (globalWithdrawLimit.limit - 1))
      BY DEF WindowBound
    <2> DEFINE W == globalWithdrawLimit.window
               top == globalWithdrawLimit.limit - 1
               cur == accumulator.current
               elapsed == accumulator.last - observed.since
               net == observed.net
    <2>1. /\ W \in Nat /\ W >= 1 /\ top \in Int /\ net \in Int /\ cur \in Nat
          /\ elapsed \in Int /\ elapsed <= W
          /\ accumulator.last \in Int /\ observed.since \in Int
          /\ globalWithdrawLimit.limit \in Int
      BY FuseAssumption DEF IInv, TypeOK, NetExplained, LimitApplies, Time, Balance
    <2>2. CASE net <= 0
      BY <2>1, <2>2 DEF Saturating
    <2>3. CASE net > 0
      <3>1. /\ elapsed >= 0 /\ cur <= top
            /\ net * W <= cur * W + top * elapsed
        <4>1. /\ accumulator.last >= observed.since
              /\ cur < globalWithdrawLimit.limit
              /\ net * W <= cur * W + top * elapsed
          BY <2>1, <2>3 DEF IInv, NetExplained
        <4> QED BY <2>1, <4>1
      <3> HIDE DEF W, top, cur, elapsed, net
      <3>2. cur * W <= top * W
        BY <2>1, <3>1, MultMonotone
      <3>3. top * elapsed <= top * W
        <4>1. top \in Nat
          BY <2>1, <3>1
        <4>2. elapsed * top <= W * top
          BY <2>1, <4>1, MultMonotone
        <4> QED BY <2>1, <4>1, <4>2
      <3>4. net * W <= (2 * top) * W
        <4>1. (2 * top) * W = top * W + top * W
          BY <2>1
        <4>2. /\ net * W \in Int /\ cur * W \in Int /\ top * W \in Int
              /\ top * elapsed \in Int
          BY <2>1
        <4> QED BY <3>1, <3>2, <3>3, <4>1, <4>2
      <3>5. net <= 2 * top
        BY <2>1, <3>4, CancelFactor
      <3>6. 2 * top = 2 * (globalWithdrawLimit.limit - 1)
        BY DEF top
      <3> QED
        BY <2>1, <3>1, <3>5, <3>6 DEF Saturating, net
    <2> QED BY <2>1, <2>2, <2>3
  <1> QED
    BY <1>1, FuseInvariant, PTL

(* The result process_message drops is Ok for every message that only      *)
(* moves assets in and out of its holding.                                 *)
THEOREM PlainMessagesAccounted == Spec => []PlainMessageAccounted
  <1>1. IInv => PlainMessageAccounted
    <2> SUFFICES ASSUME IInv, xcmBuffer # None, plainMessage
                 PROVE  NetEgress = 0 \/ CanNoteEgress(NetEgress)
      BY DEF PlainMessageAccounted
    <2>1. /\ xcmBuffer.withdrawn \in Nat /\ NetEgress \in Nat
          /\ NetEgress <= xcmBuffer.withdrawn
      BY FuseAssumption DEF IInv, TypeOK, NetEgress, Saturating, Balance
    <2> QED
      BY <2>1, CanNoteLess DEF IInv, WithdrawalsVouched
  <1> QED
    BY <1>1, FuseInvariant, PTL

(* An active lockdown freezes the accumulator.                             *)
THEOREM LockdownFreezes == Spec => FrozenInLockdown
  <1>1. ASSUME [Next]_vars, IsLockdownAt(now), accumulator' # accumulator
        PROVE  ResetWithdrawLockdown
    <2>1. Decayed(accumulator) = accumulator
      BY <1>1 DEF Decayed
    <2>2. ASSUME NEW x, NoteEgress(x) \/ NoteDeposit(x)
          PROVE  FALSE
      BY <1>1, <2>2 DEF NoteEgress, CanNoteEgress, LimitApplies, NoteDeposit
    <2> QED
      BY <1>1, <2>1, <2>2
      DEF Next, vars, Withdraw, OnWithdraw, Deposit, Transfer, XcmBegin, XcmWithdraw,
          XcmEnd, FeeWithdraw, FeeSettle, NewBlock, SetGlobalWithdrawLimitParams,
          SetGlobalWithdrawLockdown, AddEgressAccount, RemoveEgressAccount,
          SetAssetCategory
  <1> QED
    BY <1>1, PTL DEF Spec, FrozenInLockdown
=============================================================================
