------------------------------- MODULE MCExpr -------------------------------
(* Small alphabets for Expr: long texts of operators, shorter ones with lists,
   calls and dicts; and two operators alone.                                *)
EXTENDS Expr

Operators == {"name", "-", "*", "**", "(", ")", "=", ";"}
Others    == {"[", "]", "{", "}", ",", ".", ":"}

Tokens1 == Operators \union Others \union {"literal", "@"}
Limit1  == [t \in Tokens1 |-> CASE t \in Operators -> 8
                                 [] t \in Others -> 7
                                 [] t \in {"literal", "@"} -> 5]
Endings1 == {<<>>, <<";">>, <<"name", ";">>, <<")", ";">>, <<"name", ")", ";">>,
             <<"]", ";">>, <<"name", "]", ";">>, <<":", "name", "}", ";">>,
             <<"=", "name", ";">>}

Tokens2  == {"name", "&", "^", ";"}
Limit2   == [t \in Tokens2 |-> 6]
=============================================================================
