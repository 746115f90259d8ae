--------------------------- MODULE MCPersistence ----------------------------
(* Persistence with every connection writing every key (Shared) or each its *)
(* own (Own).                                                               *)
EXTENDS Persistence

Shared == [c \in Conn |-> Key]
Own == CHOOSE f \in [Conn -> {{k} : k \in Key}] : \A c, d \in Conn : f[c] = f[d] => c = d
WithText == {1, NotInt}
KeySymmetry == Permutations(Key) \cup Permutations(Conn)
=============================================================================
