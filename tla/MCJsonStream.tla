---------------------------- MODULE MCJsonStream ----------------------------
(* Responses for model checking JsonStream.                                *)
EXTENDS JsonStream

Key(k)    == <<"\"", k, "\"", ":">>
Acct(x)   == <<"{", x, "}">>
\* An account with brackets and an escaped quote inside a string.
Tricky    == <<"{", "\"", "]", "\\", "\"", "}", "\"", "}">>

Response(text, accounts) ==
  [text |-> text, accounts |-> accounts,
   sizes |-> {Len(accounts[i]) : i \in DOMAIN accounts} \cup {3}]

Plain ==
  Response(<<"{">> \o Key("J") \o <<"2", ",">> \o Key("R") \o <<"[">> \o Acct("a") \o <<",", " ">>
             \o Acct("b") \o <<",">> \o Acct("c") \o <<"]", "}">>,
           <<Acct("a"), Acct("b"), Acct("c")>>)
WithContext ==
  Response(<<"{">> \o Key("R") \o <<"{">> \o Key("C") \o <<"{", "s", "}", ",">> \o Key("V")
             \o <<"[">> \o Tricky \o <<",">> \o Acct("b") \o <<"]", "}", ",">> \o Key("J") \o <<"1", "}">>,
           <<Tricky, Acct("b")>>)
Empty    == Response(<<"{">> \o Key("R") \o <<"[", "]", "}">>, <<>>)
Null     == Response(<<"{">> \o Key("R") \o <<"n", "}">>, <<>>)
Refused  == Response(<<"{">> \o Key("E") \o <<"{", "x", "}", "}">>, <<Acct("never")>>)

\* Bodies that are not JSON, one for each check of the scanner.
Broken   ==
  {Response(text, <<Acct("a"), Acct("never")>>) : text \in
    {<<"x">>,
     <<"{">> \o Key("J") \o <<"{", "}", "x">>,
     <<"{">> \o Key("J") \o <<"1", ",", "x">>,
     <<"{", "\"", "J", "\"", "x">>,
     <<"{">> \o Key("R") \o <<"{">> \o Key("V") \o <<"x">>,
     <<"{">> \o Key("R") \o <<"[">> \o Acct("a") \o <<"x">>}}

AllDocs  == {Plain, WithContext, Empty, Null, Refused} \cup Broken
ThreeAccounts == {Plain}
=============================================================================
