--------------------------------- MODULE MCPsi ---------------------------------
(* Psi for every text of at most MaxText symbols over two symbols.              *)
EXTENDS Psi

CONSTANTS Alphabet, MaxText

MCTexts == {WithSentinel(s) : s \in UNION {[1..m -> Alphabet] : m \in 1..MaxText}}

=============================================================================
