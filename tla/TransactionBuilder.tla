------------------------- MODULE TransactionBuilder -------------------------
(***************************************************************************)
(* Compiling instructions into a message (src/transaction_builder.go), and *)
(* the roles a message gives its accounts (src/message.go).                *)
(*                                                                         *)
(* Public keys are numbers, ordered as their bytes; 0 is the zero key.     *)
(* The data of an instruction is a sequence of bytes, or fails to encode.  *)
(* Account indexes count from 0, as in the code.                           *)
(***************************************************************************)
EXTENDS Naturals, Sequences, SequencesExt, FiniteSetsExt

CONSTANTS
  Instructions,    \* what AddInstruction is called with
  Payers,          \* what SetFeePayer is called with
  AddressTables,   \* what TransactionAddressTables is called with
  Hashes,          \* what SetRecentBlockHash is called with; the zero hash is 0
  MaxInstructions  \* bound: instructions of one builder

VARIABLES
  instructions, hash, payer, tables,  \* the builder; of its options the last wins
  built                               \* what Build returned, until the builder changes

builderVars == <<instructions, hash, payer, tables>>
vars == <<builderVars, built>>

Byte      == 256
NoTables  == <<>>
Unbuilt   == [status |-> "none"]
Failed    == [status |-> "error"]

Init ==
  /\ instructions = <<>> /\ hash = 0 /\ payer = 0 /\ tables = NoTables
  /\ built = Unbuilt

-----------------------------------------------------------------------------
(* NewTransaction.                                                         *)

Signers(metas) == SelectSeq(metas, LAMBDA m : m.signer)

\* The option, or the first signer of the first instruction.
FeePayer(ixs, p) ==
  IF p # 0 THEN {p}
  ELSE LET s == Signers(ixs[1].accounts) IN IF s = <<>> THEN {} ELSE {s[1].key}

\* Each address of the tables, in the smallest table that has it, at its first
\* position there.
LookupEntries(tabs) ==
  [a \in UNION {ToSet(tabs[t]) : t \in DOMAIN tabs} |->
     LET t == Min({u \in DOMAIN tabs : a \in ToSet(tabs[u])})
     IN  [table |-> t, index |-> (Min({i \in DOMAIN tabs[t] : tabs[t][i] = a}) - 1) % Byte]]

Programs(ixs) == {ixs[i].program : i \in DOMAIN ixs}

\* The metas of the instructions and one for each program.  Equal metas are
\* dropped at once: the sort puts them side by side and the deduplication
\* takes them together.
Metas(ixs) ==
  UNION {ToSet(ixs[i].accounts) : i \in DOMAIN ixs}
    \cup {[key |-> p, signer |-> FALSE, writable |-> FALSE] : p \in Programs(ixs)}

\* Mutant: only accounts of one key are ordered by writability.
BeforeByKey(a, b) ==
  CASE a.signer # b.signer -> a.signer
    [] a.key # b.key       -> a.key < b.key
    [] OTHER               -> a.writable /\ ~b.writable

\* Signers first, then writable, ties broken by key.
Before(a, b) ==
  CASE a.signer # b.signer     -> a.signer
    [] a.writable # b.writable -> a.writable
    [] OTHER                   -> a.key < b.key

\* The first occurrence of each key stays where it is; writability is collected
\* from all of them.
Deduplicated(metas) ==
  LET sorted == SetToSortSeq(metas, Before)
      firsts == SelectSeq(sorted, LAMBDA m :
                  \A n \in metas \ {m} : n.key = m.key => Before(m, n))
  IN  [i \in DOMAIN firsts |->
         [firsts[i] EXCEPT !.writable =
            \E n \in metas : n.key = firsts[i].key /\ n.writable]]

PayerFirst(metas, p) ==
  <<[key |-> p, signer |-> TRUE, writable |-> TRUE]>>
    \o SelectSeq(metas, LAMBDA m : m.key # p)

\* Is the account loaded through a table instead of listed in the message?
IsLoaded(m, p, entries, programs) ==
  m.key \in DOMAIN entries /\ m.key # p /\ ~m.signer /\ m.key \notin programs

\* The counts that, with the order of the keys, stand for the roles.
Header(static) ==
  LET count(Test(_)) == Len(SelectSeq(static, Test)) % Byte
  IN  [required         |-> count(LAMBDA m : m.signer),
       readonlySigned   |-> count(LAMBDA m : m.signer /\ ~m.writable),
       readonlyUnsigned |-> count(LAMBDA m : ~m.signer /\ ~m.writable)]

\* The accounts loaded from one table, with one role.
LoadedFrom(loaded, entries, t, writable) ==
  SelectSeq(loaded, LAMBDA m : entries[m.key].table = t /\ m.writable = writable)

Keys(metas) == [i \in DOMAIN metas |-> metas[i].key]

\* Mutant: table by table, writable and readonly together.
IndexOrderByTable(static, loaded, entries, tableKeys) ==
  LET from(t) == Keys(LoadedFrom(loaded, entries, t, TRUE) \o LoadedFrom(loaded, entries, t, FALSE))
  IN  Keys(static) \o FlattenSeq([i \in DOMAIN tableKeys |-> from(tableKeys[i])])

\* keyIndex, as the order it numbers the keys in: the static keys, then the
\* writable lookups of all tables, then the readonly ones.
IndexOrder(static, loaded, entries, tableKeys) ==
  LET from(w) == [i \in DOMAIN tableKeys |-> Keys(LoadedFrom(loaded, entries, tableKeys[i], w))]
  IN  Keys(static) \o FlattenSeq(from(TRUE)) \o FlattenSeq(from(FALSE))

NewTransaction(ixs, h, p, tabs) ==
  LET entries   == LookupEntries(tabs)
      programs  == Programs(ixs)
      metas     == PayerFirst(Deduplicated(Metas(ixs)), p)
      static    == SelectSeq(metas, LAMBDA m : ~IsLoaded(m, p, entries, programs))
      loaded    == SelectSeq(metas, LAMBDA m : IsLoaded(m, p, entries, programs))
      tableKeys == SetToSortSeq({entries[loaded[i].key].table : i \in DOMAIN loaded}, <)
      order     == IndexOrder(static, loaded, entries, tableKeys)
      indexOf(k) == SelectInSeq(order, LAMBDA x : x = k) - 1
      indexes(t, w) == LET l == LoadedFrom(loaded, entries, t, w)
                       IN  [i \in DOMAIN l |-> entries[l[i].key].index]
  IN  [version |-> IF loaded = <<>> THEN "legacy" ELSE "v0",
       keys    |-> Keys(static),
       header  |-> Header(static),
       hash    |-> h,
       lookups |-> [i \in DOMAIN tableKeys |->
                      [table    |-> tableKeys[i],
                       writable |-> indexes(tableKeys[i], TRUE),
                       readonly |-> indexes(tableKeys[i], FALSE)]],
       instructions |-> [i \in DOMAIN ixs |->
                      [program  |-> indexOf(ixs[i].program),
                       accounts |-> [j \in DOMAIN ixs[i].accounts |->
                                       indexOf(ixs[i].accounts[j].key)],
                       data     |-> ixs[i].data]]]

-----------------------------------------------------------------------------
(* TransactionBuilder.                                                     *)

AddInstruction(ix) ==
  /\ Len(instructions) < MaxInstructions
  /\ instructions' = Append(instructions, ix)
  /\ built' = Unbuilt
  /\ UNCHANGED <<hash, payer, tables>>

SetRecentBlockHash(h) ==
  /\ hash' = h
  /\ built' = Unbuilt
  /\ UNCHANGED <<instructions, payer, tables>>

SetFeePayer(p) ==
  /\ payer' = p
  /\ built' = Unbuilt
  /\ UNCHANGED <<instructions, hash, tables>>

\* WithOpt(TransactionAddressTables(t)).
WithAddressTables(t) ==
  /\ tables' = t
  /\ built' = Unbuilt
  /\ UNCHANGED <<instructions, hash, payer>>

CanBuild ==
  /\ instructions # <<>>
  /\ FeePayer(instructions, payer) # {}
  /\ \A t \in DOMAIN tables : Len(tables[t]) <= Byte
  /\ \A i \in DOMAIN instructions : instructions[i].encodes

Build ==
  /\ built = Unbuilt
  /\ \/ ~CanBuild /\ built' = Failed
     \/ /\ CanBuild
        /\ \E p \in FeePayer(instructions, payer) :
             built' = [status |-> "ok", payer |-> p,
                       message |-> NewTransaction(instructions, hash, p, tables)]
  /\ UNCHANGED builderVars

Next ==
  \/ \E ix \in Instructions : AddInstruction(ix)
  \/ \E h \in Hashes : SetRecentBlockHash(h)
  \/ \E p \in Payers : SetFeePayer(p)
  \/ \E t \in AddressTables : WithAddressTables(t)
  \/ Build

Spec == Init /\ [][Next]_vars

-----------------------------------------------------------------------------
(* The message: staticIndexIsWritable and the queries built on it.         *)

staticIndexIsWritable(m, i) ==
  LET h == m.header
      sub(a, b) == IF a > b THEN a - b ELSE 0
  IN  IF i >= h.required
      THEN i - h.required < sub(Len(m.keys), h.required + h.readonlyUnsigned)
      ELSE i < sub(h.required, h.readonlySigned)

IsSigner(m, i) == i < m.header.required

\* How the runtime numbers the accounts of a message.
LoadedKeys(m, tabs) ==
  LET at(t, idx) == [i \in DOMAIN idx |-> tabs[t][idx[i] + 1]]
      wr == [i \in DOMAIN m.lookups |-> at(m.lookups[i].table, m.lookups[i].writable)]
      ro == [i \in DOMAIN m.lookups |-> at(m.lookups[i].table, m.lookups[i].readonly)]
  IN  [writable |-> FlattenSeq(wr), readonly |-> FlattenSeq(ro)]

RuntimeKeys(m, tabs) ==
  m.keys \o LoadedKeys(m, tabs).writable \o LoadedKeys(m, tabs).readonly

RuntimeWritable(m, tabs, i) ==
  IF i < Len(m.keys) THEN staticIndexIsWritable(m, i)
  ELSE i < Len(m.keys) + Len(LoadedKeys(m, tabs).writable)

-----------------------------------------------------------------------------
(* What the program promises of a message it built.                        *)

IsBuilt == built.status = "ok"
Asked   == Metas(instructions)

\* The fields of an instruction and of a message (src/instruction.go,
\* src/message.go).
CompiledInstruction ==
  [program : Nat, accounts : Seq(Nat), data : {ix.data : ix \in Instructions}]

CompiledMessage ==
  [version : {"legacy", "v0"}, keys : Seq(Nat),
   header : [required : Nat, readonlySigned : Nat, readonlyUnsigned : Nat],
   hash : Hashes \cup {0},
   lookups : Seq([table : Nat, writable : Seq(Nat), readonly : Seq(Nat)]),
   instructions : Seq(CompiledInstruction)]

\* The counts of the header fit each other and the keys.
HeaderOK(m) ==
  /\ m.header.required \in 1..Len(m.keys)
  /\ m.header.readonlySigned < m.header.required
  /\ m.header.required + m.header.readonlyUnsigned <= Len(m.keys)

\* Every index of the compiled instructions leads the runtime to the account
\* the instruction named, through the lookup tables too; no account is listed
\* or loaded twice; the fee payer is the first, signs and is writable; signers
\* are never left to a table, and the header fits the keys of a message whose
\* fields have their types (NewTransaction).
IndexesResolve ==
  IsBuilt =>
    LET m    == built.message
        keys == RuntimeKeys(m, tables)
    IN  /\ m \in CompiledMessage /\ HeaderOK(m)
        /\ \A i, j \in DOMAIN keys : keys[i] = keys[j] => i = j
        /\ keys[1] = built.payer /\ IsSigner(m, 0) /\ staticIndexIsWritable(m, 0)
        /\ \A a \in Asked : a.signer => \E i \in DOMAIN m.keys : m.keys[i] = a.key
        /\ \A i \in DOMAIN instructions :
             /\ m.instructions[i].program < Len(m.keys)
             /\ keys[m.instructions[i].program + 1] = instructions[i].program
             /\ \A j \in DOMAIN instructions[i].accounts :
                  keys[m.instructions[i].accounts[j] + 1] = instructions[i].accounts[j].key

\* A key one instruction uses as a readonly signer and another as a writable
\* account that does not sign.
Upgraded(k) ==
  /\ \E a \in Asked : a.key = k /\ a.signer
  /\ \A a \in Asked : a.key = k /\ a.signer => ~a.writable
  /\ \E a \in Asked : a.key = k /\ a.writable

\* Roles: an account signs if an instruction wants it to, and is writable if one
\* wants that, and not otherwise, but for the fee payer.
RoleAsAsked(k, i) ==
  LET m == built.message
  IN  /\ IsSigner(m, i) = \E a \in Asked : a.key = k /\ a.signer
      /\ RuntimeWritable(m, tables, i) = \E a \in Asked : a.key = k /\ a.writable

\* The roles that the header and the lookups encode by position are those the
\* instructions asked for, if no readonly signer is also a writable non-signer.
RolesAsAsked ==
  (IsBuilt /\ \A a \in Asked : ~Upgraded(a.key)) =>
    LET keys == RuntimeKeys(built.message, tables)
    IN  \A i \in DOMAIN keys : keys[i] # built.payer => RoleAsAsked(keys[i], i - 1)

\* "An account required as writable by any instruction is writable in the
\* message."
WritableKept ==
  IsBuilt =>
    LET m == built.message
        keys == RuntimeKeys(m, tables)
    IN  \A a \in Asked : a.writable =>
          \E i \in DOMAIN keys : keys[i] = a.key /\ RuntimeWritable(m, tables, i - 1)
=============================================================================
