------------------------------- MODULE MCHttp -------------------------------
(* Instances of Http: every order of the three headers, with any of them     *)
(* missing, and bodies that look like header text.                           *)
EXTENDS Http

MCStatuses == {"ok", "gone1.0", "gone1.1", "bareLF", "blank"}

MCHeaderLists ==
    UNION {{f \in [1 .. n -> {"length", "id", "arn"}] :
               \A i, j \in 1 .. n : i # j => f[i] # f[j]} : n \in 0 .. 3}

MCNumeral == <<"0", "1", "2", "3", "4">>

MCBodies == {<<>>, <<"x">>, <<LF>>, <<CR, LF>>, <<COLON, CR, LF>>, <<CR, LF, CR, LF>>}
=============================================================================
