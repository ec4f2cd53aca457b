---------------------------- MODULE ProofRecord -----------------------------
(* Staging a proof in a record account                                     *)
(* (src/programs/token-2022/confidential_record.go): the plan creates the  *)
(* account, initialises it and writes the proof in chunks.  The writes are *)
(* too many for one transaction: they arrive in any order, some of them    *)
(* more than once.  The record program is not part of the repository.      *)
EXTENDS Integers

CONSTANTS
  Staged,          \* the length of the context and proof to be staged
  ChunkSizes,      \* the lengths of a write that callers ask for, an int
  DataOffset       \* where a record's data begins, 33

ASSUME RecordAssumption == Staged \in Nat /\ ChunkSizes \subseteq Int /\ DataOffset \in Nat

VARIABLES
  chunkSize,  \* the length of a write the caller asks for
  valid,      \* whether validateZKProofData accepts the caller's proof
  offset,     \* the loop variable of the plan
  writes,     \* the write instructions of the plan
  record,     \* the record account's bytes
  status,     \* of the account: none, created, initialised; or the plan was refused
  landed      \* the writes that were executed

input == <<chunkSize, valid>>
recordVars == <<input, offset, writes, record, status, landed>>

\* The bytes of the proof are told apart by their place in it.
ProofByte(i) == [byte |-> i]
Zero == [byte |-> -1]
Header == [byte |-> -2]
space == Staged + DataOffset

RecordInit ==
  /\ chunkSize \in ChunkSizes /\ valid \in BOOLEAN
  /\ offset = 0 /\ writes = {} /\ landed = {} /\ status = "none"
  /\ record = [i \in 0 .. space - 1 |-> Zero]

\* The two conditions under which there is a plan.
Accepted == valid /\ chunkSize > 0

\* An error is returned in place of a plan.
Refuse ==
  /\ ~Accepted /\ status = "none" /\ status' = "refused"
  /\ UNCHANGED <<input, offset, writes, record, landed>>

\* A last chunk that is shorter than the others is not written.
WriteConfidentialRecordCut ==
  /\ Accepted /\ offset < Staged
  /\ LET end == offset + chunkSize
     IN writes' = writes \cup
          (IF end <= Staged THEN {[offset |-> offset, end |-> end,
             data |-> [i \in offset .. end - 1 |-> ProofByte(i)]]} ELSE {})
  /\ offset' = offset + chunkSize
  /\ UNCHANGED <<input, record, status, landed>>

\* One turn of the loop of ConfidentialProofRecordInstructions.
WriteConfidentialRecord ==
  /\ Accepted /\ offset < Staged
  /\ LET end == IF chunkSize < Staged - offset THEN offset + chunkSize ELSE Staged
     IN writes' = writes \cup
          {[offset |-> offset, end |-> end, data |-> [i \in offset .. end - 1 |-> ProofByte(i)]]}
  /\ offset' = offset + chunkSize
  /\ UNCHANGED <<input, record, status, landed>>

Planned == Accepted /\ offset >= Staged

(* The network and the record program *)
CreateAccount ==
  /\ Planned /\ status = "none" /\ status' = "created"
  /\ UNCHANGED <<input, offset, writes, record, landed>>

InitializeConfidentialRecord ==
  /\ status = "created" /\ status' = "initialised"
  /\ record' = [i \in 0 .. space - 1 |-> IF i < DataOffset THEN Header ELSE record[i]]
  /\ UNCHANGED <<input, offset, writes, landed>>

\* A write beyond the account's end is refused.
ExecuteWrite(w) ==
  /\ status = "initialised" /\ w.end + DataOffset <= space
  /\ record' = [i \in 0 .. space - 1 |->
       IF w.offset + DataOffset <= i /\ i < w.end + DataOffset THEN w.data[i - DataOffset] ELSE record[i]]
  /\ landed' = landed \cup {w}
  /\ UNCHANGED <<input, offset, writes, status>>

RecordNext ==
  \/ Refuse
  \/ WriteConfidentialRecord
  \/ CreateAccount
  \/ InitializeConfidentialRecord
  \/ \E w \in writes : ExecuteWrite(w)

RecordSpec == RecordInit /\ [][RecordNext]_recordVars

\* VerifyProofFromRecord: what the verifier finds at the data offset.
StagedProof == [i \in 0 .. Staged - 1 |-> record[i + DataOffset]]

\* Once every write has been executed, in whatever order and however often,
\* the verifier finds the context and the proof, every byte at its place,
\* and the record's own header is intact (confidential_record.go, chunks).
RecordHoldsProof ==
  status = "initialised" /\ Planned /\ landed = writes =>
    /\ StagedProof = [i \in 0 .. Staged - 1 |-> ProofByte(i)]
    /\ \A i \in 0 .. DataOffset - 1 : record[i] = Header

\* The account is created with the space the writes need: none is refused.
WritesFit == \A w \in writes : w.end + DataOffset <= space

(* The inductive invariant *)
RecordInv ==
  /\ chunkSize \in Int /\ offset \in Nat /\ landed \subseteq writes
  /\ record \in [0 .. space - 1 -> [byte : Int]]
  /\ \A w \in writes :
       /\ w.offset \in Nat /\ w.end \in Nat /\ w.offset <= w.end /\ w.end <= Staged
       /\ w.data = [i \in w.offset .. w.end - 1 |-> ProofByte(i)]
  /\ \A i \in 0 .. Staged - 1 : i < offset => \E w \in writes : w.offset <= i /\ i < w.end
  /\ status # "initialised" => landed = {}
  /\ status = "initialised" => \A i \in 0 .. DataOffset - 1 : record[i] = Header
  /\ \A w \in landed : \A i \in w.offset .. w.end - 1 : record[i + DataOffset] = ProofByte(i)
=============================================================================
