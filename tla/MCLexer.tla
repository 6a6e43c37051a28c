------------------------------- MODULE MCLexer -------------------------------
(* Small alphabets for Lexer: long texts of what decides on semicolons,      *)
(* shorter ones of strings, numbers, comments and operators.                  *)
EXTENDS Lexer

Blocks == {"if", "(", "{", "}", "\n"}
Words4 == {"a", "1", "'", ".", "#", " "}

MCLimit == [c \in Char |-> CASE c \in Blocks -> 7
                             [] c = ")" -> 6
                             [] c \in {"quote", "\\"} -> 5
                             [] c \in Words4 -> 4
                             [] OTHER -> 3]
=============================================================================
