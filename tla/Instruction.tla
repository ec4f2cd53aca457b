---------------------------- MODULE Instruction ----------------------------
(***************************************************************************)
(* What the program packages have in common.  An instruction type has a    *)
(* tag, the layout its Data method writes after the tag and the roles of   *)
(* the accounts its constructor lists.  A decoder has, for each tag it     *)
(* knows, the type and the layout it reads.                                *)
(***************************************************************************)
EXTENDS Layout

\* Roles: whether the account is written to, and whether it must sign.
W  == <<"one", TRUE, FALSE>>
R  == <<"one", FALSE, FALSE>>
S  == <<"one", FALSE, TRUE>>
WS == <<"one", TRUE, TRUE>>
\* An account that the caller may leave out, and a list of accounts.
Maybe(role) == <<"maybe", role[2], role[3]>>
Each(role)  == <<"each", role[2], role[3]>>
\* The owner or authority of a token account: it signs, unless cosigners of
\* a multisig account do.
Auth == <<"auth", FALSE, TRUE>>

Ix(typ, tag, writes, roles) ==
  [typ |-> typ, tag |-> tag, writes |-> writes, roles |-> roles, checked |-> FALSE]

\* An instruction whose constructor already refuses what Data would refuse
\* because a field is too long or out of bounds.
Checked(ix) == [ix EXCEPT !.checked = TRUE]

Within(k, v) ==
  CASE k[1] = "max"   -> Len(v) <= k[2]
    [] k[1] = "below" -> v < k[2]
    [] OTHER          -> TRUE

\* Mutant: the cosigners are counted with the accounts of the list.
NewCountsSigners(ix, args, n) ==
  LET kind(x) == (CHOOSE i \in 1..Len(ix.writes) : ix.writes[i].name = x)
  IN  [x \in DOMAIN args |->
         CASE ix.writes[kind(x)].kind = Count -> (n + n) % 256
           [] ix.writes[kind(x)].kind = Given(Key) /\ args[x] = <<ZeroKey>> -> <<>>
           [] OTHER -> args[x]]

\* The fields the constructor fills from its arguments, among them n accounts
\* for each list.
New(ix, args, n) ==
  LET kind(x) == (CHOOSE i \in 1..Len(ix.writes) : ix.writes[i].name = x)
  IN  [x \in DOMAIN args |->
         CASE ix.writes[kind(x)].kind = Count -> n % 256
           [] ix.writes[kind(x)].kind = Given(Key) /\ args[x] = <<ZeroKey>> -> <<>>
           [] OTHER -> args[x]]

\* The constructor: it returns the instruction or an error.
Constructs(ix, values) ==
  ix.checked => \A i \in 1..Len(ix.writes) :
                   Within(ix.writes[i].kind, values[ix.writes[i].name])

\* The account metas an instruction is built with, when n accounts are given
\* for each list of the constructor.
Meta(w, s) == [writable |-> w, signer |-> s]

authorityAccounts(n) ==
  <<Meta(FALSE, n = 0)>> \o [i \in 1..n |-> Meta(FALSE, TRUE)]

Metas(roles, n) ==
  FlattenSeq([i \in 1..Len(roles) |->
    LET r == roles[i]
    IN  CASE r[1] = "one"   -> <<Meta(r[2], r[3])>>
          [] r[1] = "maybe" -> IF n = 0 THEN <<>> ELSE <<Meta(r[2], r[3])>>
          [] r[1] = "each"  -> [j \in 1..n |-> Meta(r[2], r[3])]
          [] r[1] = "auth"  -> authorityAccounts(n)])

\* Data: the tag, then the fields.
DataWith(tagKind, ix, values) ==
  WriteFields(Write(NewEncoder, tagKind, ix.tag), ix.writes, values)

\* The result of a decoder: the type and its fields, or an error.
Failed(err)       == [err |-> err, typ |-> "none", values |-> <<>>]
Decoded(typ, r)   ==
  IF r.d.err = "nil" THEN [err |-> "nil", typ |-> typ, values |-> r.v]
                     ELSE Failed(r.d.err)

\* cases: the decoder's switch, a set of <<tag, type, layout>>.
DecodeWith(tagKind, cases, data) ==
  LET read(d, c) == Decoded(c[2], ReadFields(d, c[3]))
      switch(tag) == IF tag.d.err # "nil" THEN Failed(tag.d.err)
                     ELSE IF \A c \in cases : c[1] # tag.v THEN Failed("ErrUnknownInstruction")
                     ELSE read(tag.d, CHOOSE c \in cases : c[1] = tag.v)
  IN  switch(ReadUint(NewDecoder(data), tagKind[2]))
=============================================================================
