------------------------------ MODULE MCCodegen ------------------------------
(* Small sources for Codegen.                                                *)
EXTENDS Codegen

CONSTANTS x, y

Is(k, n) == [is |-> k, name |-> n]
Do(do, target, value) == [do |-> do, target |-> target, value |-> value]
For(init, cond, post) == [init |-> init, cond |-> cond, post |-> post]
Fun(name, params, gather) == [name |-> name, params |-> params, gather |-> gather]

One    == Is("const", NoName)
Local  == Do("local", Is("name", x), One)

Stmts1 == {Local, Do("set", Is("name", y), Is("call", x)),
           Do("modify", Is("item", x), Is("list", NoName)),
           Do("set", Is("neg", y), One), [do |-> "print", value |-> Is("name", x)]}
Exprs1 == {Is("item", x)}
Headers1   == {For(Nothing, NoExpr, Nothing),
               For(Local, Is("name", y), Do("set", Is("name", x), Is("neg", y)))}
Functions1 == {Fun(y, <<y>>, TRUE), Fun(x, <<x, x>>, FALSE)}
=============================================================================
