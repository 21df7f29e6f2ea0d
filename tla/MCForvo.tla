---------------------------------- MODULE MCForvo ----------------------------------
(***************************************************************************)
(* Pages with recordings from near and far, by natives and others, with    *)
(* ties and with errors, and containers of both languages and of another.  *)
(***************************************************************************)
EXTENDS Forvo

Es(entries) == [language |-> "Spanish", entries |-> entries]
En(entries) == [language |-> "English", entries |-> entries]

SomePages ==
    {<<>>,
     <<Es(<<"Spain", "Mexico", "Uruguay">>), En(<<"Argentina", "NewZealand", "Ireland">>)>>,
     <<En(<<"unknownCountry", "Spain", "Cuba">>), Es(<<"UnitedStates", "broken", "Spain">>)>>,
     <<Es(<<"unknownCountry">>), [language |-> "other", entries |-> <<"Chile">>]>>,
     <<Es(<<"Ecuador", "DominicanRepublic", "Cuba", "Ecuador">>)>>,
     <<En(<<"UnitedKingdom", "UnitedStates", "broken", "Canada">>)>>,
     <<En(<<"broken">>), Es(<<"Paraguay", "Peru", "Bolivia", "Chile">>)>>}
=============================================================================
