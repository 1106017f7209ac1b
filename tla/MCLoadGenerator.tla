-------------------------- MODULE MCLoadGenerator --------------------------
(* Short texts, small numbers and few batches for TLC.                     *)
EXTENDS LoadGenerator, TLC

CONSTANT MaxLen  \* characters of a text

Character == {"0", "1", "9", "_", "k", "T", "i", "x"}

MCText == UNION {[1..l -> Character] : l \in 0..MaxLen}

MCDigitOf == "0" :> 0 @@ "1" :> 1 @@ "9" :> 9
=============================================================================
