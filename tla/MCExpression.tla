---------------------------- MODULE MCExpression ----------------------------
(* All short texts over a few characters, every pair of binary operators     *)
(* with an optional unary one or brackets, and some expressions that are     *)
(* evaluated.                                                                *)
EXTENDS ExpressionParser

Short ==
    UNION {[1 .. n -> {"a", "(", ")", "-", "!", "&", "=", " "}] : n \in 1 .. 5}

Pairs ==
    {pre \o <<"a">> \o o.chars \o mid \o <<"1">> \o p.chars \o <<"a">> \o post :
        pre \in {<<>>, <<"(">>}, mid \in {<<>>, <<"-">>, <<"(">>, <<" ", "~">>},
        post \in {<<>>, <<")">>}, o \in Operators, p \in Operators}

MCEvaluated ==
    {<<"a">>, <<"a", "+", "b">>, <<"s", "*", "a", "|", "t">>, <<"b", "&", "&", "a", "%", "b">>,
     <<"~", "b", "-", "s">>, <<"c">>, <<"9", ">", "a">>}

MCTexts == Short \cup Pairs \cup MCEvaluated
MCLiterals == ("1" :> 1) @@ ("9" :> 9)
MCValues == {-4, -1, 0}
MCStatics == [s |-> 3]
MCValid == <<{"a", "s"}, {"a", "b"}>>
=============================================================================
