------------------------------- MODULE MCEntry ------------------------------
(* Small instance of Entry: a one-letter key, a longer key it is a prefix of *)
(* (message and number of the event, echo and doubled of the response), a    *)
(* third key (status), strings of punctuation, the edges of an 8-bit         *)
(* int64_t, and responses that fit the buffer, use the slack before the      *)
(* guard page, or reach the guard page.                                      *)
EXTENDS Entry

MCKeys == {<<"a">>, <<"a", "b">>, <<"b">>}
MCInts == {-128, -64, 0, 7, 127}
MCBlanks == {<<>>, <<"\n", " ">>}

MCEventType == <<[key |-> <<"a">>, kind |-> "str"], [key |-> <<"a", "b">>, kind |-> "int"]>>
MCResponseType == <<[key |-> <<"b">>, kind |-> "str"], [key |-> <<"a">>, kind |-> "str"],
                    [key |-> <<"a", "b">>, kind |-> "int"]>>
MCOk == <<"o", "k">>

\* No string is the name of a field.
MCStrings == {<<>>, <<"b", "a">>, <<":", "1", ",">>, <<"}">>}

\* A string that is the name of another field.
MCStringsKey == {<<>>, <<"a", "b">>}
=============================================================================
