------------------------------ MODULE MC_HashTag ------------------------------
(* Keys over the ASCII codes of '`', 'a', 'z' (the bytes at both ends of  *)
(* the lower-case range and just below it) and the delimiters '{' '}'.    *)
EXTENDS HashTag

MCBytes == {96, 97, 122, 123, 125}
MCBraces == <<123, 125>>
=============================================================================
