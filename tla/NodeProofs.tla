----------------------------- MODULE NodeProofs -----------------------------
(***************************************************************************)
(* The two workers of the node.                                            *)
(*                                                                         *)
(* Liquidation: the limits on what is sent in a block (SendsLimited) hold  *)
(* for every set of users, every list and every capacity.  They are not    *)
(* inductive: try_liquidate looks at liquidated_users, not at what was     *)
(* sent.  The link is that liquidated_users holds every user a transaction *)
(* was sent for since the header changed, and at least as many entries.    *)
(*                                                                         *)
(* Mapping: there are no gaps but those a torn round leaves, whatever tree *)
(* of blocks the node imports and however often the best block changes or  *)
(* the worker stops.  NoGapsUnlessTorn is not inductive: WriteTips forgets *)
(* the old tips.  It needs to know that a round keeps every tip somewhere  *)
(* (Kept).                                                                 *)
(***************************************************************************)
EXTENDS LiquidationWorker, MappingSync, FiniteSetTheorems, SequenceTheorems, TLAPS

AreSequences == \E S : sent \in Seq(S) /\ liquidated_users \in Seq(S)

Recorded ==
  /\ \A i \in DOMAIN sent : sent[i] \in ToSet(liquidated_users)
  /\ Len(sent) <= Len(liquidated_users)

IInv == AreSequences /\ max_transactions \in Nat /\ Recorded /\ OncePerBlock /\ BlockCapacity

-----------------------------------------------------------------------------
(* A sequence over a set is one over every larger set.                     *)
LEMMA SeqLarger ==
  ASSUME NEW S, NEW T, S \subseteq T, NEW s \in Seq(S)
  PROVE  s \in Seq(T)
  BY SMT

(* A new last element leaves the others where they were.                   *)
LEMMA AppendKeeps ==
  ASSUME NEW S, NEW s \in Seq(S), NEW e \in S
  PROVE  /\ Append(s, e) \in Seq(S)
         /\ Len(Append(s, e)) = Len(s) + 1
         /\ DOMAIN Append(s, e) = 1 .. Len(s) + 1
         /\ DOMAIN s = 1 .. Len(s)
         /\ \A i \in DOMAIN s : Append(s, e)[i] = s[i]
         /\ Append(s, e)[Len(s) + 1] = e
         /\ Len(s) \in Nat
  BY SMT

(* Before the first message nothing is sent.                               *)
LEMMA InitIInv == Init => IInv
  <1> SUFFICES ASSUME Init PROVE IInv
    OBVIOUS
  <1>1. sent = <<>> /\ liquidated_users = <<>> /\ max_transactions \in Nat
    BY CapacitiesAssumption DEF Init
  <1>2. sent \in Seq(Users) /\ liquidated_users \in Seq(Users) /\ Len(sent) = 0 /\ DOMAIN sent = {}
    BY <1>1
  <1> QED
    BY <1>1, <1>2 DEF IInv, AreSequences, Recorded, OncePerBlock, BlockCapacity

(* IInv is about four variables only.                                      *)
LEMMA IInvKept ==
  ASSUME IInv, UNCHANGED <<sent, liquidated_users, max_transactions>>
  PROVE  IInv'
  BY DEF IInv, AreSequences, Recorded, OncePerBlock, BlockCapacity

(* Send, for a user who is not skipped while the block has room.           *)
LEMMA SendKeeps ==
  ASSUME IInv, NEW user, ~Skipped(user), ~BlockFull, Send(user), UNCHANGED max_transactions
  PROVE  IInv'
  <1>1. PICK S : sent \in Seq(S) /\ liquidated_users \in Seq(S)
    BY DEF IInv, AreSequences
  <1> DEFINE T == S \cup {user}
  <1>2. sent \in Seq(T) /\ liquidated_users \in Seq(T) /\ user \in T
    BY <1>1, SeqLarger
  <1> HIDE DEF T
  <1>3. sent' = Append(sent, user) /\ liquidated_users' = Append(liquidated_users, user)
    BY DEF Send
  <1>4. /\ sent' \in Seq(T) /\ Len(sent') = Len(sent) + 1 /\ Len(sent) \in Nat
        /\ DOMAIN sent' = 1 .. Len(sent) + 1 /\ DOMAIN sent = 1 .. Len(sent)
        /\ \A i \in DOMAIN sent : sent'[i] = sent[i]
        /\ sent'[Len(sent) + 1] = user
    BY <1>2, <1>3, AppendKeeps
  <1>5. /\ liquidated_users' \in Seq(T) /\ Len(liquidated_users') = Len(liquidated_users) + 1
        /\ Len(liquidated_users) \in Nat
        /\ DOMAIN liquidated_users' = 1 .. Len(liquidated_users) + 1
        /\ DOMAIN liquidated_users = 1 .. Len(liquidated_users)
        /\ \A i \in DOMAIN liquidated_users : liquidated_users'[i] = liquidated_users[i]
        /\ liquidated_users'[Len(liquidated_users) + 1] = user
    BY <1>2, <1>3, AppendKeeps
  <1>6. ToSet(liquidated_users) \subseteq ToSet(liquidated_users)' /\ user \in ToSet(liquidated_users)'
    <2>1. ASSUME NEW u \in ToSet(liquidated_users) PROVE u \in ToSet(liquidated_users)'
      <3>1. PICK i \in DOMAIN liquidated_users : u = liquidated_users[i]
        BY DEF ToSet
      <3>2. i \in DOMAIN liquidated_users' /\ u = liquidated_users'[i]
        BY <3>1, <1>5
      <3> QED
        BY <3>2 DEF ToSet
    <2>2. Len(liquidated_users) + 1 \in DOMAIN liquidated_users'
      BY <1>5
    <2> QED
      BY <2>1, <2>2, <1>5 DEF ToSet
  <1>7. user \notin ToSet(liquidated_users)
    BY DEF Skipped
  <1>8. \A i \in DOMAIN sent : sent[i] \in ToSet(liquidated_users) /\ sent[i] # user
    BY <1>7 DEF IInv, Recorded
  <1>9. ASSUME NEW i \in DOMAIN sent' PROVE i \in DOMAIN sent \/ i = Len(sent) + 1
    BY <1>4
  <1>10. Recorded'
    <2>1. \A i \in DOMAIN sent' : sent'[i] \in ToSet(liquidated_users)'
      BY <1>4, <1>6, <1>8, <1>9
    <2>2. Len(sent') <= Len(liquidated_users')
      BY <1>4, <1>5 DEF IInv, Recorded
    <2> QED
      BY <2>1, <2>2 DEF Recorded
  <1>11. OncePerBlock'
    BY <1>4, <1>8, <1>9 DEF IInv, OncePerBlock
  <1>12. BlockCapacity'
    BY <1>4, <1>5 DEF IInv, Recorded, BlockFull, BlockCapacity
  <1>13. AreSequences'
    BY <1>4, <1>5 DEF AreSequences
  <1> QED
    BY <1>10, <1>11, <1>12, <1>13 DEF IInv

(* process_new_block: nothing is sent yet under the new header, and the    *)
(* record of the old one is cleared or kept whole.                         *)
LEMMA ReceiveKeeps ==
  ASSUME IInv, Receive, UNCHANGED max_transactions
  PROVE  IInv'
  <1>1. CASE Head(channel).type # "Block"
    BY <1>1, IInvKept DEF Receive, listVars, historyVars
  <1>2. CASE Head(channel).type = "Block"
    <2>1. sent' = <<>> /\ (liquidated_users' = <<>> \/ liquidated_users' = liquidated_users)
      BY <1>2 DEF Receive, ProcessNewBlock
    <2>2. PICK S : liquidated_users \in Seq(S)
      BY DEF IInv, AreSequences
    <2>3. sent' \in Seq(S) /\ liquidated_users' \in Seq(S) /\ Len(sent') = 0 /\ DOMAIN sent' = {}
      <3>1. <<>> \in Seq(S) /\ Len(<<>>) = 0 /\ DOMAIN <<>> = {}
        OBVIOUS
      <3> QED
        BY <2>1, <2>2, <3>1, Zenon
    <2>4. Len(liquidated_users') \in Nat
      BY <2>3
    <2>5. AreSequences' /\ OncePerBlock'
      BY <2>3 DEF AreSequences, OncePerBlock
    <2>6. Recorded' /\ BlockCapacity' /\ max_transactions' \in Nat
      BY <2>3, <2>4 DEF IInv, Recorded, BlockCapacity
    <2> QED
      BY <2>5, <2>6 DEF IInv
  <1> QED
    BY <1>1, <1>2

(* try_liquidate.                                                          *)
LEMMA TryLiquidateKeeps ==
  ASSUME IInv, NEW user, TryLiquidate(user), UNCHANGED max_transactions
  PROVE  IInv'
  <1>1. CASE Skipped(user)
    BY <1>1, IInvKept DEF TryLiquidate, listVars, historyVars
  <1>2. CASE ~Skipped(user)
    <2>1. (~BlockFull /\ Send(user)) \/ UNCHANGED <<liquidated_users, tx_waitlist, sent>>
      BY <1>2 DEF TryLiquidate
    <2> QED
      BY <1>2, <2>1, SendKeeps, IInvKept
  <1> QED
    BY <1>1, <1>2

(* Every step of the task or the thread preserves IInv.                    *)
LEMMA NextKeeps == IInv /\ [Next]_vars => IInv'
  <1> SUFFICES ASSUME IInv, [Next]_vars PROVE IInv'
    OBVIOUS
  <1>1. CASE ImportBlock \/ NotifyBlock \/ NotifyTransaction \/ EndOfStreams \/ UNCHANGED vars
    <2>1. UNCHANGED <<sent, liquidated_users, max_transactions>>
      BY <1>1 DEF ImportBlock, NotifyBlock, NotifyTransaction, EndOfStreams, vars, notifierVars, listVars, historyVars
    <2> QED
      BY <2>1, IInvKept
  <1>2. CASE Worker
    <2>1. UNCHANGED max_transactions
      BY <1>2 DEF Worker, notifierVars
    <2>2. CASE Receive
      BY <2>1, <2>2, ReceiveKeeps
    <2>3. CASE NextBorrower
      BY <2>1, <2>3, TryLiquidateKeeps DEF NextBorrower
    <2>4. CASE UNCHANGED <<sent, liquidated_users>>
      BY <2>1, <2>4, IInvKept
    <2> QED
      BY <1>2, <2>2, <2>3, <2>4
      DEF Worker, TopOfLoop, StartTask, AwaitMessage, Interrupted, EndOfPass, Exit, listVars, historyVars
  <1> QED
    BY <1>1, <1>2 DEF Next

(***************************************************************************)
(* The passes of one block send at most one transaction for a user, and no *)
(* more than calculate_max_number_of_liquidations_in_block allows          *)
(* (try_liquidate, process_new_block).                                     *)
(***************************************************************************)
THEOREM LimitsKept == Spec => []SendsLimited
  <1>1. IInv => SendsLimited
    BY DEF IInv, SendsLimited
  <1> QED
    BY <1>1, InitIInv, NextKeeps, PTL DEF Spec

-----------------------------------------------------------------------------
\* The blocks in the books are blocks of the node, and every one of them but genesis has its parent there.
Known ==
  /\ parent = [b \in DOMAIN parent |-> parent[b]]
  /\ IsFiniteSet(Blocks)
  /\ 0 \in Blocks /\ \A b \in Blocks \ {0} : parent[b] \in Blocks
  /\ best_hash \in Blocks /\ synced \subseteq Blocks
  /\ tips \in Seq(Blocks) /\ rest \in Seq(Blocks)
  /\ phase \in {"idle", "found", "mapped"}
  /\ phase # "idle" => op \in Blocks

\* During a round a tip is mapped already, or is the block of the round, or waits among the rest.
Kept ==
  /\ phase # "idle" => Range(tips) \subseteq synced \cup {op} \cup Range(rest)
  /\ phase = "mapped" => op \in synced

SyncIInv == Known /\ Kept /\ NoGapsUnlessTorn

-----------------------------------------------------------------------------
(* The start: nothing is mapped and genesis is the only block              *)
(* (sync_one_block on an empty database).                                  *)
LEMMA Starts == SyncInit => SyncIInv
<1> SUFFICES ASSUME SyncInit PROVE SyncIInv
  OBVIOUS
<1>1. Blocks = {0} /\ IsFiniteSet({0})
  BY FS_Singleton DEF SyncInit, Blocks
<1>2. <<>> \in Seq(Blocks)
  OBVIOUS
<1> QED BY <1>1, <1>2 DEF SyncInit, SyncIInv, Known, Kept, NoGapsUnlessTorn, Blocks

(* What TipsAfter and WithBest put on the stack.                           *)
LEMMA RangeOfAppend ==
  ASSUME NEW S, NEW s \in Seq(S), NEW x \in S
  PROVE  Append(s, x) \in Seq(S) /\ Range(Append(s, x)) = Range(s) \cup {x}
<1>1. DOMAIN s = 1 .. Len(s) /\ DOMAIN Append(s, x) = 1 .. Len(s) + 1 /\ Len(s) \in Nat
  BY LenProperties, AppendProperties
<1>2. \A y : y \in Range(Append(s, x)) <=> y \in Range(s) \cup {x}
  BY <1>1, AppendProperties DEF Range
<1> QED BY <1>2, AppendProperties

(* The node imports a block or takes another one as the best: the books of *)
(* the worker stay as they are and the parents of the old blocks too.      *)
LEMMA NodeMoves ==
  ASSUME SyncIInv, NEW p \in Blocks, Import(p) \/ NewBest(p)
  PROVE  SyncIInv'
<1>1. /\ Blocks \subseteq Blocks' /\ \A b \in Blocks : parent'[b] = parent[b]
      /\ \A b \in Blocks' \ Blocks : parent'[b] \in Blocks
      /\ best_hash' \in Blocks
  BY DEF SyncIInv, Known, Import, NewBest, Blocks
<1>2. UNCHANGED <<synced, tips, phase, op, rest, torn>>
  BY DEF Import, NewBest
<1>3. tips' \in Seq(Blocks') /\ rest' \in Seq(Blocks')
  BY <1>1, <1>2, SeqLarger DEF SyncIInv, Known
<1>4. IsFiniteSet(Blocks')
  <2>1. CASE Import(p)
    BY <2>1, FS_AddElement DEF SyncIInv, Known, Import, Blocks
  <2> QED BY <2>1 DEF SyncIInv, Known, NewBest, Blocks
<1>5. parent' = [b \in DOMAIN parent' |-> parent'[b]]
  BY DEF SyncIInv, Known, Import, NewBest
<1>6. Known'
  BY <1>1, <1>2, <1>3, <1>4, <1>5 DEF SyncIInv, Known
<1>7. Kept'
  BY <1>2, Zenon DEF SyncIInv, Kept
<1>8. NoGapsUnlessTorn'
  BY <1>1, <1>2 DEF SyncIInv, Known, NoGapsUnlessTorn
<1> QED BY <1>6, <1>7, <1>8 DEF SyncIInv

(* The round starts (fetch_header): the tips above the block it takes are  *)
(* mapped already, the ones below it are kept for later.                   *)
LEMMA FetchKeeps == SyncIInv /\ Fetch => SyncIInv'
<1> SUFFICES ASSUME SyncIInv, Fetch PROVE SyncIInv'
  OBVIOUS
<1>1. UNCHANGED <<parent, best_hash, synced, torn>> /\ phase = "idle"
  BY DEF Fetch, blockTree
<1>2. PICK leaves \in [1 .. Cardinality(Leaves) -> Leaves] :
        LET stack == WithBest(IF tips = <<>> THEN leaves ELSE tips)
            unsynced == {i \in DOMAIN stack : stack[i] \notin synced}
        IN \/ /\ unsynced = {}
              /\ tips' = <<>> /\ UNCHANGED <<phase, op, rest>>
           \/ \E last \in unsynced :
                /\ \A i \in unsynced : i <= last
                /\ op' = stack[last] /\ rest' = SubSeq(stack, 1, last - 1)
                /\ phase' = "found" /\ UNCHANGED tips
  BY DEF Fetch
<1> DEFINE stack == WithBest(IF tips = <<>> THEN leaves ELSE tips)
           unsynced == {i \in DOMAIN stack : stack[i] \notin synced}
<1>3. leaves \in Seq(Blocks)
  <2>1. Leaves \subseteq Blocks /\ Cardinality(Leaves) \in Nat
    BY FS_Subset, FS_CardinalityType DEF SyncIInv, Known, Leaves
  <2> QED BY <2>1, SeqLarger
<1>4. /\ stack \in Seq(Blocks)
      /\ Range(tips) \subseteq Range(stack)
  <2>1. tips = <<>> => Range(tips) = {}
    BY DEF Range
  <2>2. CASE best_hash \in synced
    BY <1>3, <2>1, <2>2 DEF SyncIInv, Known, WithBest
  <2>3. CASE best_hash \notin synced
    BY <1>3, <2>1, <2>3, RangeOfAppend DEF SyncIInv, Known, WithBest
  <2> QED BY <2>2, <2>3
<1>5. DOMAIN stack = 1 .. Len(stack) /\ Len(stack) \in Nat /\ \A i \in DOMAIN stack : stack[i] \in Blocks
  BY <1>4, LenProperties
<1> HIDE DEF stack
<1>6. CASE unsynced = {} /\ tips' = <<>> /\ UNCHANGED <<phase, op, rest>>
  <2>1. Range(tips) \subseteq synced
    BY <1>4, <1>6 DEF Range
  <2>2. Known'
    BY <1>1, <1>6 DEF SyncIInv, Known, Blocks
  <2>3. Kept'
    BY <1>1, <1>6 DEF Kept
  <2>4. NoGapsUnlessTorn'
    BY <1>1, <1>6, <2>1 DEF SyncIInv, NoGapsUnlessTorn
  <2> QED BY <2>2, <2>3, <2>4 DEF SyncIInv
<1>7. ASSUME NEW last \in unsynced,
             \A i \in unsynced : i <= last,
             op' = stack[last] /\ rest' = SubSeq(stack, 1, last - 1),
             phase' = "found" /\ UNCHANGED tips
      PROVE  SyncIInv'
  <2>1. last \in 1 .. Len(stack) /\ \A i \in 1 .. last - 1 : stack[i] \in Blocks
    BY <1>5
  <2>2. /\ rest' \in Seq(Blocks) /\ Len(rest') = last - 1
        /\ \A i \in 1 .. last - 1 : rest'[i] = stack[i]
    BY <1>5, <1>7, <2>1, SubSeqProperties
  <2>3. Range(stack) \subseteq synced \cup {op'} \cup Range(rest')
    <3> SUFFICES ASSUME NEW i \in DOMAIN stack, i < last
                 PROVE  stack[i] \in Range(rest')
      BY <1>5, <1>7, <2>1 DEF Range
    <3>1. i \in DOMAIN rest' /\ rest'[i] = stack[i]
      BY <1>5, <2>1, <2>2, LenProperties
    <3> QED BY <3>1 DEF Range
  <2>4. Known'
    BY <1>1, <1>5, <1>7, <2>2 DEF SyncIInv, Known, Blocks
  <2>5. Kept'
    BY <1>1, <1>4, <1>7, <2>3, Zenon DEF Kept
  <2>6. NoGapsUnlessTorn'
    BY <1>1, <1>7 DEF SyncIInv, NoGapsUnlessTorn
  <2> QED BY <2>4, <2>5, <2>6 DEF SyncIInv
<1> QED BY <1>2, <1>6, <1>7 DEF stack

(* The block of the round is mapped (sync_block): its parent is owed until *)
(* the tips are written.                                                   *)
LEMMA SyncKeeps == SyncIInv /\ SyncBlock => SyncIInv'
<1> SUFFICES ASSUME SyncIInv, SyncBlock PROVE SyncIInv'
  OBVIOUS
<1>1. /\ UNCHANGED <<parent, best_hash, tips, op, rest, torn>>
      /\ phase = "found" /\ phase' = "mapped" /\ synced' = synced \cup {op}
  BY DEF SyncBlock, blockTree
<1>2. Known'
  BY <1>1 DEF SyncIInv, Known, Blocks
<1>3. Kept'
  BY <1>1 DEF SyncIInv, Kept
<1>4. NoGapsUnlessTorn'
  BY <1>1 DEF SyncIInv, NoGapsUnlessTorn
<1> QED BY <1>2, <1>3, <1>4 DEF SyncIInv

(* The tips are written (write_current_syncing_tips): the parent of the    *)
(* mapped block joins the rest, and the tips forgotten are mapped.         *)
LEMMA WriteKeeps == SyncIInv /\ WriteTips => SyncIInv'
<1> SUFFICES ASSUME SyncIInv, WriteTips PROVE SyncIInv'
  OBVIOUS
<1>1. /\ UNCHANGED <<parent, best_hash, synced, torn>>
      /\ phase = "mapped" /\ phase' = "idle" /\ rest' = <<>> /\ tips' = TipsAfter
  BY DEF WriteTips, EndRound, blockTree
<1>2. /\ tips' \in Seq(Blocks) /\ Range(rest) \subseteq Range(tips')
      /\ op # 0 => parent[op] \in Range(tips')
  BY <1>1, RangeOfAppend DEF SyncIInv, Known, TipsAfter
<1>3. Range(tips) \subseteq synced \cup Range(rest)
  BY <1>1 DEF SyncIInv, Kept
<1>4. Known'
  BY <1>1, <1>2 DEF SyncIInv, Known, Blocks
<1>5. Kept'
  BY <1>1 DEF Kept
<1>6. NoGapsUnlessTorn'
  BY <1>1, <1>2, <1>3 DEF SyncIInv, NoGapsUnlessTorn
<1> QED BY <1>4, <1>5, <1>6 DEF SyncIInv

(* A round that ends without writing its tips: the block waits, or the     *)
(* node stops, and a block already mapped is torn.                         *)
LEMMA EndKeeps == SyncIInv /\ (TooHigh \/ Stop) => SyncIInv'
<1> SUFFICES ASSUME SyncIInv, TooHigh \/ Stop PROVE SyncIInv'
  OBVIOUS
<1>1. /\ UNCHANGED <<parent, best_hash, synced, tips>>
      /\ phase' = "idle" /\ rest' = <<>>
      /\ torn \subseteq torn' /\ (phase = "mapped" => op \in torn')
  BY DEF TooHigh, Stop, EndRound, blockTree
<1>2. Known'
  BY <1>1 DEF SyncIInv, Known, Blocks
<1>3. Kept'
  BY <1>1 DEF Kept
<1>4. NoGapsUnlessTorn'
  BY <1>1 DEF SyncIInv, NoGapsUnlessTorn
<1> QED BY <1>2, <1>3, <1>4 DEF SyncIInv

-----------------------------------------------------------------------------
(* Whatever blocks arrive and wherever the worker stops, the parent of a   *)
(* mapped block is mapped or among the tips the next round starts from,    *)
(* unless the worker stopped between the two writes of the round that      *)
(* mapped the block (sync_one_block).                                      *)
THEOREM NoGaps == SyncSpec => []NoGapsUnlessTorn
<1>1. SyncInit => SyncIInv
  BY Starts
<1>2. SyncIInv /\ [SyncNext]_syncVars => SyncIInv'
  <2> SUFFICES ASSUME SyncIInv, [SyncNext]_syncVars PROVE SyncIInv'
    OBVIOUS
  <2>1. ASSUME NEW b \in Blocks, Import(b) \/ NewBest(b) PROVE SyncIInv'
    BY <2>1, NodeMoves
  <2>2. CASE SyncOneBlock
    BY <2>2, FetchKeeps, SyncKeeps, WriteKeeps, EndKeeps DEF SyncOneBlock
  <2>3. CASE Stop
    BY <2>3, EndKeeps
  <2>4. CASE UNCHANGED syncVars
    <3>1. SyncIInv' <=> SyncIInv
      BY <2>4, Zenon DEF syncVars, SyncIInv, Known, Kept, NoGapsUnlessTorn, Blocks
    <3> QED BY <3>1
  <2> QED BY <2>1, <2>2, <2>3, <2>4, Zenon DEF SyncNext
<1>3. SyncIInv => NoGapsUnlessTorn
  BY DEF SyncIInv
<1> QED BY <1>1, <1>2, <1>3, PTL DEF SyncSpec
=============================================================================
