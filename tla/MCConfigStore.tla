--------------------------- MODULE MCConfigStore ---------------------------
(* Instances of ConfigStore for TLC: a partition of a few words, a record of *)
(* two words and one of three, so that saves can leave a gap at the end of   *)
(* the partition as well as fill it exactly.                                 *)
EXTENDS ConfigRefinement, Sequences

CONSTANTS RecLens,    \* lengths of the records that are saved
          JunkSizes,  \* record lengths an interrupted word may denote
          WithFull    \* whether whole-partition images are uploaded

MCErased == <<"erased", 0>>
MCJunk == {<<"junk", s>> : s \in JunkSizes}
Rec(n) == [i \in 0 .. n - 1 |-> <<"rec", n, i>>]
ZeroCrc == <<"rec", 1, 0>>
MCRecords == {Rec(n) : n \in RecLens \union {1}}

(* A partition of zeroes: the CRC of an empty payload is zero too.           *)
Zeroes == [i \in Offset |-> IF i = 0 THEN ZeroCrc ELSE <<"junk", 1>>]
(* A two-word record, a gap, and something behind it.                        *)
Gap == [i \in Offset |->
          IF i < 2 THEN Rec(2)[i]
          ELSE IF i = PartWords - 1 THEN <<"junk", 0>> ELSE MCErased]
MCFulls == IF WithFull THEN {Zeroes, Gap} ELSE {}

MCWord == {MCErased} \union {<<"junk", s>> : s \in 0 .. PartWords}
          \union UNION {{r[i] : i \in DOMAIN r} : r \in MCRecords}
MCSizeField == [w \in MCWord |->
    CASE w[1] = "junk" -> w[2]
      [] w[1] = "erased" -> 0
      [] OTHER -> IF w[3] = 1 THEN w[2] ELSE 0]

(* Two words that differ mix to junk, whose size field is the smaller one    *)
(* (a size field of FF.. is neutral).                                        *)
MixWords(v, w) ==
    LET s == MCSizeField[v]
        t == MCSizeField[w]
    IN  IF v = MCErased THEN w
        ELSE IF w \in {MCErased, v} THEN v
        ELSE <<"junk", IF s = 0 THEN t ELSE IF t = 0 \/ s < t THEN s ELSE t>>
MCMix == [v \in MCWord |-> [w \in MCWord |-> MixWords(v, w)]]

(* Bound: a record programmed into a log that is not regular is not followed *)
(* further (only MCConfigStore.cfg is bounded so).                           *)
RegularSaves == ~(pc = "program" /\ job = "image" /\ ~regular)
=============================================================================
