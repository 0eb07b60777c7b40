------------------------------ MODULE MCIdCodec ------------------------------
(* Instances of IdCodec for TLC: three bytes, four characters. *)
EXTENDS IdCodec

\* One byte of every value, the others all zeros or alternating.
OtherBytes == {[k \in 0..7 |-> 0], [k \in 0..7 |-> k % 2]}
SomeIds ==
    {[m \in 0..2 |-> IF m = p THEN b ELSE o] :
        p \in 0..2, b \in [0..7 -> Bit], o \in OtherBytes}

\* One character of every kind, the others 'A' or '-'; and texts of the wrong length.
SomeTexts ==
    {[i \in 0..3 |-> IF i = p THEN c ELSE o] :
        p \in 0..3, c \in Char \cup {Other}, o \in {<<"upper", 0>>, <<"mark", 1>>}}
    \cup {[i \in 0..n |-> <<"digit", 9>>] : n \in {0, 2, 4}}

=============================================================================
