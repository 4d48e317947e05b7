------------------------------ MODULE MCRleString ------------------------------
(* Every string of at most MaxLength symbols.                                   *)
EXTENDS RleString

CONSTANTS Alphabet, MaxLength

MCStrings == UNION {[0..(m - 1) -> Alphabet] : m \in 1..MaxLength}

=============================================================================
