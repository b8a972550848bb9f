---------------------------- MODULE MCBlockStart ----------------------------
(***************************************************************************)
(* The two pallets that work through their own agenda at the beginning of  *)
(* every block: DCA executes schedules, democracy launches and ends        *)
(* referenda.  `pallet` says which of them a behaviour is about; the other *)
(* one does not move.                                                      *)
(***************************************************************************)
EXTENDS MCDCA, TLC

CONSTANTS ann, eli, member, p1, p2, MaxBlock

VARIABLES
  pallet,
  publicProps, depositOf, publicPropCount, referendumInfoOf, referendumCount, lowestUnbaked, votingOf,
  lastTabledWasExternal, nextExternal, blacklist, cancellations, agenda, lock, held, slashed, block, left, owed

Standard(aye, conviction, balance) == [type |-> "Standard", aye |-> aye, conviction |-> conviction, balance |-> balance]
Split(ayes, nays) == [type |-> "Split", ayes |-> ayes, nays |-> nays]
Running(p, threshold, end, delay) ==
  [state |-> "Ongoing", end |-> end, proposal |-> p, threshold |-> threshold, delay |-> delay,
   tally |-> [ayes |-> 0, nays |-> 0, turnout |-> 0]]

\* Seven ayes against two nays of an electorate of 130 just fail; a split vote counts for a tenth.
MCBallots == {Standard(TRUE, 1, 7), Standard(FALSE, 1, 2), Split(10, 2)}
MCDelegable == {<<1, 5>>, <<2, 2>>}
MCStarts ==
  {[referenda |-> <<>>, proposed |-> 0, calls |-> 3],
   [referenda |-> <<Running(p1, "SuperMajorityApprove", 2, 1), Running(p2, "SuperMajorityAgainst", 3, 0)>>,
    proposed |-> 2, calls |-> 4]}

Democracy == INSTANCE Democracy WITH
  Voters <- {ann, eli}, Members <- {member}, Proposals <- {p1, p2}, Endowment <- 12, TotalIssuance <- 130,
  Ballots <- MCBallots, Delegable <- MCDelegable, Starts <- MCStarts, Deposits <- {1, 2}, FastTracks <- {0, 1},
  LaunchPeriod <- 2, VotingPeriod <- 2, EnactmentPeriod <- 1, VoteLockingPeriod <- 2, CooloffPeriod <- 1,
  MaxVotes <- 2, MaxProposals <- 2, MaxDeposits <- 2, MaxReferenda <- 2, MaxPublic <- 2

democracyVars ==
  <<publicProps, depositOf, publicPropCount, referendumInfoOf, referendumCount, lowestUnbaked, votingOf,
    lastTabledWasExternal, nextExternal, blacklist, cancellations, agenda, lock, held, slashed, block, left, owed>>
blockStartVars == <<vars, democracyVars, pallet>>

BlockStartInit ==
  /\ Init /\ Democracy!DemocracyInit
  /\ pallet \in {"dca", "democracy"}
  /\ pallet = "dca" => referendumCount = 0

BlockStartNext ==
  \/ pallet = "dca" /\ Next /\ UNCHANGED <<democracyVars, pallet>>
  \/ pallet = "democracy" /\ Democracy!DemocracyNext /\ UNCHANGED <<vars, pallet>>

BlockStartSpec == BlockStartInit /\ [][BlockStartNext]_blockStartVars

Symmetry == Permutations({ann, eli})

-----------------------------------------------------------------------------
(* An ongoing referendum will be baked, and its tally is what the votes on *)
(* it come to, with what is delegated to the voters now (try_vote,         *)
(* try_delegate, begin_block).                                             *)
VotesCounted == Democracy!VotesCounted

(* Whoever won a referendum, or delegated, keeps the balance locked for    *)
(* the periods of the conviction (try_remove_vote, update_lock).           *)
WinnersStayLocked == Democracy!WinnersStayLocked
=============================================================================
