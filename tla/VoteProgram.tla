---------------------------- MODULE VoteProgram ----------------------------
(***************************************************************************)
(* Package programs/vote: the Vote Program's instructions.  The compact    *)
(* forms write each lockout as the distance from the one before, starting  *)
(* at the root, with MaxUint64 in the place of a missing root.             *)
(***************************************************************************)
EXTENDS Instruction

CONSTANTS MaxSeedLength, MaxLockoutHistory

BLSPublicKeyCompressedSize         == (3 * KeyLength) \div 2
BLSProofOfPossessionCompressedSize == 3 * KeyLength

Seed           == AtMost(MaxSeedLength, Bincode)
CommissionKind == Below(2, U32)
\* Voter, Withdrawer, VoterWithBLS: the last carries a key and a proof.
VoteAuthorize  == Tagged(U32, <<Bytes(0), Bytes(0),
  Needed(BLSPublicKeyCompressedSize + BLSProofOfPossessionCompressedSize)>>)

VoteInit == <<f("NodePubkey", Key), f("AuthorizedVoter", Key),
              f("AuthorizedWithdrawer", Key), f("Commission", U8)>>
VoteInitV2 == <<f("NodePubkey", Key), f("AuthorizedVoter", Key),
  f("BLSPubkey", Bytes(BLSPublicKeyCompressedSize)),
  f("BLSProofOfPossession", Bytes(BLSProofOfPossessionCompressedSize)),
  f("AuthorizedWithdrawer", Key), f("InflationRewardsCommissionBps", U16),
  f("BlockRevenueCommissionBps", U16)>>

voteData == <<
  f("Slots", Bounded(U64, U64, Bytes64, KeyLength + 1, MaxLockoutHistory)),
  f("Hash", Key), f("Timestamp", Opt(I64))>>
VoteStateUpdate == <<
  f("Lockouts", Bounded(U64, Tuple(<<U64, U32>>), Bytes64 + Bytes32, KeyLength + 2,
                        MaxLockoutHistory)),
  f("Root", Opt(U64)), f("Hash", Key), f("Timestamp", Opt(I64))>>
CompactUpdate == <<
  f("Root", U64),
  f("Lockouts", Bounded(Compact, Tuple(<<Var, U8>>), 2, KeyLength + 1, MaxLockoutHistory)),
  f("Hash", Key), f("Timestamp", Opt(I64))>>
TowerSyncUpdate == Append(CompactUpdate, f("BlockID", Key))
ProofHash == f("ProofHash", Key)

CheckedWithSeedArgs ==
  <<f("AuthorizationType", VoteAuthorize), f("Owner", Key), f("Seed", Seed)>>
WithSeedArgs == Append(CheckedWithSeedArgs, f("NewAuthority", Key))

InitializeAccount == Ix("InitializeAccount", 0, VoteInit, <<W, R, R, S>>)
Authorize == Ix("Authorize", 1,
  <<f("NewAuthority", Key), f("AuthorizationType", VoteAuthorize)>>, <<W, R, S>>)
Vote == Ix("Vote", 2, voteData, <<W, R, R, S>>)
Withdraw == Ix("Withdraw", 3, <<f("Lamports", U64)>>, <<W, W, S>>)
UpdateValidatorIdentity == Ix("UpdateValidatorIdentity", 4, <<>>, <<W, S, S>>)
UpdateCommission == Ix("UpdateCommission", 5, <<f("Commission", U8)>>, <<W, S>>)
VoteSwitch == Ix("VoteSwitch", 6, Append(voteData, ProofHash), <<W, R, R, S>>)
AuthorizeChecked == Ix("AuthorizeChecked", 7,
  <<f("AuthorizationType", VoteAuthorize)>>, <<W, R, S, S>>)
UpdateVoteState == Ix("UpdateVoteState", 8, VoteStateUpdate, <<W, S>>)
UpdateVoteStateSwitch == Ix("UpdateVoteStateSwitch", 9,
  Append(VoteStateUpdate, ProofHash), <<W, S>>)
AuthorizeWithSeed == Checked(Ix("AuthorizeWithSeed", 10, WithSeedArgs, <<W, R, S>>))
AuthorizeCheckedWithSeed ==
  Checked(Ix("AuthorizeCheckedWithSeed", 11, CheckedWithSeedArgs, <<W, R, S, S>>))
CompactUpdateVoteState == Ix("CompactUpdateVoteState", 12, CompactUpdate, <<W, S>>)
CompactUpdateVoteStateSwitch ==
  Ix("CompactUpdateVoteStateSwitch", 13, Append(CompactUpdate, ProofHash), <<W, S>>)
TowerSync == Ix("TowerSync", 14, TowerSyncUpdate, <<W, S>>)
TowerSyncSwitch == Ix("TowerSyncSwitch", 15, Append(TowerSyncUpdate, ProofHash), <<W, S>>)
InitializeAccountV2 == Ix("InitializeAccountV2", 16, VoteInitV2, <<W, S, W, W>>)
UpdateCommissionCollector == Ix("UpdateCommissionCollector", 17,
  <<f("Kind", CommissionKind)>>, <<W, W, S>>)
UpdateCommissionBps == Ix("UpdateCommissionBps", 18,
  <<f("CommissionBps", U16), f("Kind", CommissionKind)>>, <<W, S>>)
DepositDelegatorRewards == Ix("DepositDelegatorRewards", 19, <<f("Deposit", U64)>>, <<W, WS>>)

Instructions ==
  {InitializeAccount, Authorize, Vote, Withdraw, UpdateValidatorIdentity, UpdateCommission,
   VoteSwitch, AuthorizeChecked, UpdateVoteState, UpdateVoteStateSwitch, AuthorizeWithSeed,
   AuthorizeCheckedWithSeed, CompactUpdateVoteState, CompactUpdateVoteStateSwitch, TowerSync,
   TowerSyncSwitch, InitializeAccountV2, UpdateCommissionCollector, UpdateCommissionBps,
   DepositDelegatorRewards}

CompactTypes == {"CompactUpdateVoteState", "CompactUpdateVoteStateSwitch", "TowerSync",
                 "TowerSyncSwitch"}

-----------------------------------------------------------------------------
(* The compact form of an update.                                          *)

\* The fields of the Go struct behind an instruction: a compact update is
\* built from the same struct as a plain one.
FieldsOf(ix) ==
  IF ix.typ \in CompactTypes THEN [i \in 1..Len(ix.writes) |->
    CASE ix.writes[i].name = "Root"     -> f("Root", Opt(U64))
      [] ix.writes[i].name = "Lockouts" -> VoteStateUpdate[1]
      [] OTHER                          -> ix.writes[i]]
  ELSE ix.writes

Start(root) == IF root = <<>> THEN 0 ELSE root[1]

\* Mutant: every lockout is counted from the root.
PreviousIsRoot(u) == [i \in 1..Len(u.Lockouts) |-> Start(u.Root)]

\* The slot each lockout is counted from.
Previous(u) ==
  [i \in 1..Len(u.Lockouts) |->
     IF i = 1 THEN Start(u.Root) ELSE u.Lockouts[i - 1][1]]

CanCompact(u) ==
  \A i \in 1..Len(u.Lockouts) :
     u.Lockouts[i][1] >= Previous(u)[i] /\ u.Lockouts[i][2] <= 255

Compacted(u) ==
  [u EXCEPT !.Root = IF u.Root = <<>> THEN MaxUint64 ELSE u.Root[1],
            !.Lockouts = [i \in 1..Len(u.Lockouts) |->
               <<u.Lockouts[i][1] - Previous(u)[i], u.Lockouts[i][2]>>]]

\* Slots from distances: the sum so far, for each lockout.
Slots(from, lockouts) ==
  [i \in 1..Len(lockouts) |->
     FoldLeft(LAMBDA a, l : a + l[1], from, SubSeq(lockouts, 1, i))]

Expanded(c) ==
  LET root  == IF c.Root = MaxUint64 THEN <<>> ELSE <<c.Root>>
      slots == Slots(Start(root), c.Lockouts)
  IN  [c EXCEPT !.Root = root,
                !.Lockouts = [i \in 1..Len(slots) |-> <<slots[i], c.Lockouts[i][2]>>]]

\* The sums are in order, so the last tells whether one passes the largest.
Overflows(c) ==
  \E i \in 1..Len(c.Lockouts) : Expanded(c).Lockouts[i][1] > MaxUint64

-----------------------------------------------------------------------------
Cases ==
  {<<0, "InitializeAccount", VoteInit>>,
   <<1, "Authorize", <<f("NewAuthority", Key), f("AuthorizationType", VoteAuthorize)>>>>,
   <<2, "Vote", voteData>>,
   <<3, "Withdraw", <<f("Lamports", U64)>>>>,
   <<4, "UpdateValidatorIdentity", <<>>>>,
   <<5, "UpdateCommission", <<f("Commission", U8)>>>>,
   <<6, "VoteSwitch", Append(voteData, ProofHash)>>,
   <<7, "AuthorizeChecked", <<f("AuthorizationType", VoteAuthorize)>>>>,
   <<8, "UpdateVoteState", VoteStateUpdate>>,
   <<9, "UpdateVoteStateSwitch", Append(VoteStateUpdate, ProofHash)>>,
   <<10, "AuthorizeWithSeed", WithSeedArgs>>,
   <<11, "AuthorizeCheckedWithSeed", CheckedWithSeedArgs>>,
   <<12, "CompactUpdateVoteState", CompactUpdate>>,
   <<13, "CompactUpdateVoteStateSwitch", Append(CompactUpdate, ProofHash)>>,
   <<14, "TowerSync", TowerSyncUpdate>>,
   <<15, "TowerSyncSwitch", Append(TowerSyncUpdate, ProofHash)>>,
   <<16, "InitializeAccountV2", VoteInitV2>>,
   <<17, "UpdateCommissionCollector", <<f("Kind", CommissionKind)>>>>,
   <<18, "UpdateCommissionBps", <<f("CommissionBps", U16), f("Kind", CommissionKind)>>>>,
   <<19, "DepositDelegatorRewards", <<f("Deposit", U64)>>>>}

Data(ix, values) ==
  IF ix.typ \in CompactTypes
  THEN IF CanCompact(values) THEN DataWith(U32, ix, Compacted(values))
                             ELSE Refused(NewEncoder, "ErrInvalidLockoutOrder")
  ELSE DataWith(U32, ix, values)

DecodeInstruction(data) ==
  LET update(r) == IF r.err # "nil" \/ r.typ \notin CompactTypes THEN r
                   ELSE IF Overflows(r.values) THEN Failed("ErrSlotOverflow")
                   ELSE [r EXCEPT !.values = Expanded(@)]
  IN  update(DecodeWith(U32, Cases, data))
=============================================================================
