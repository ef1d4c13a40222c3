-------------------------------- MODULE Utf8 --------------------------------
(***************************************************************************)
(* cleanUTF8 of src/APItest.cpp, which the answer passes before it becomes *)
(* JSON (a snippet may be cut inside a character).  A byte is told by its  *)
(* leading bits: "0" (ASCII), "10" (continuation), "110", "1110", "11110", *)
(* and "11111".                                                            *)
(***************************************************************************)
EXTENDS Integers, Sequences, SequencesExt, FiniteSets

Bytes == {"0", "10", "110", "1110", "11110", "11111"}

\* How many bytes the sequence that c leads has, 0 if c leads none.
Width(c) ==
    CASE c = "0" -> 1 [] c = "110" -> 2 [] c = "1110" -> 3 [] c = "11110" -> 4
      [] OTHER -> 0

\* The bytes that must follow are there.
FollowedEarly(b, i) ==
    /\ i + Width(b[i]) <= Len(b)
    /\ \A j \in (i + 1)..(i + Width(b[i]) - 1) : b[j] = "10"
Followed(b, i) ==
    /\ i + Width(b[i]) - 1 <= Len(b)
    /\ \A j \in (i + 1)..(i + Width(b[i]) - 1) : b[j] = "10"

\* A sequence that is whole is copied and passed; of any other the first byte is
\* dropped.
cleanUTF8(b) ==
    LET from[i \in 1..(Len(b) + 1)] ==
            IF i > Len(b) THEN <<>>
            ELSE IF Width(b[i]) > 0 /\ Followed(b, i)
                 THEN SubSeq(b, i, i + Width(b[i]) - 1) \o from[i + Width(b[i])]
                 ELSE from[i + 1]
    IN  from[1]

-----------------------------------------------------------------------------
\* The bytes that belong to a whole sequence somewhere in b.
Whole(b) ==
    UNION {i..(i + Width(b[i]) - 1) :
              i \in {k \in DOMAIN b :
                        /\ Width(b[k]) > 0
                        /\ k + Width(b[k]) - 1 <= Len(b)
                        /\ \A j \in (k + 1)..(k + Width(b[k]) - 1) : b[j] = "10"}}

\* The bytes of b at the given places, in their order.
BytesAt(b, places) ==
    LET from[i \in 1..(Len(b) + 1)] ==
            IF i > Len(b) THEN <<>>
            ELSE IF i \in places THEN <<b[i]>> \o from[i + 1] ELSE from[i + 1]
    IN  from[1]

\* Exactly the bytes of whole sequences are left, in their order, although the loop
\* jumps: none is lost after a broken one, and the result needs no more cleaning.
CleanRight(b) ==
    /\ cleanUTF8(b) = BytesAt(b, Whole(b))
    /\ Whole(cleanUTF8(b)) = DOMAIN cleanUTF8(b)
=============================================================================
