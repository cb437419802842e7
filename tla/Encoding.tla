------------------------------ MODULE Encoding ------------------------------
(***************************************************************************)
(* The two byte strings klyde-agent compares: the key of a message, whose  *)
(* order is the order bbolt lists messages in, and the RFC 3339 stamp of a *)
(* time, whose order ListSessions sorts by.  A string is a sequence of     *)
(* character codes; what all strings compared have in common is left out   *)
(* (the prefix of the keys, the date, hour and minute of the stamps).      *)
(***************************************************************************)
EXTENDS Integers, Sequences

CONSTANTS Base,      \* digits per place: 10 in the code
          KeyWidth,  \* least number of digits of a key: 10 in the code
          FracWidth  \* digits of the fraction of a second: 9 in the code

ASSUME EncodingAssumption ==
    Base \in Nat \ {0, 1} /\ KeyWidth \in Nat \ {0} /\ FracWidth \in Nat \ {0}

(* Bytes compare as in ASCII: the point, then the digits, then Z. *)
Dot      == 46
Digit(d) == 48 + d
Zulu     == 90

(* The order of Go strings and of bbolt keys: bytewise, and a proper       *)
(* prefix comes first.                                                     *)
Before(a, b) ==
    \E n \in 0..Len(a) :
        /\ n <= Len(b)
        /\ \A i \in 1..n : a[i] = b[i]
        /\ \/ n = Len(a) /\ n < Len(b)
           \/ n < Len(a) /\ n < Len(b) /\ a[n + 1] < b[n + 1]

(* Base^m; as a function it can be reasoned about, which ^ cannot. *)
Power[m \in Nat] == IF m = 0 THEN 1 ELSE Base * Power[m - 1]

(* n written with w places. *)
Digits(n, w) == [i \in 1..w |-> Digit((n \div Power[w - i]) % Base)]

(* The number of places n needs. *)
Places(n) == CHOOSE w \in 1..(n + 1) : n < Power[w] /\ (w = 1 \/ n >= Power[w - 1])

(* Mutant: %d instead of %010d. *)
MessageKeyUnpadded(seq) == Digits(seq, Places(seq))

(* %010d: zero-padded to KeyWidth, longer when the number is. *)
MessageKey(seq) ==
    Digits(seq, IF Places(seq) > KeyWidth THEN Places(seq) ELSE KeyWidth)

(* RFC3339Nano drops the zeros a fraction ends with, and the point with    *)
(* the last of them.  A time counts units of Base^-FracWidth seconds.      *)
Stamp(time) ==
    LET frac == Digits(time % Power[FracWidth], FracWidth)
        kept == CHOOSE k \in 0..FracWidth :
                    /\ k = 0 \/ frac[k] # Digit(0)
                    /\ \A i \in (k + 1)..FracWidth : frac[i] = Digit(0)
    IN  Digits(time \div Power[FracWidth], 2)
          \o (IF kept = 0 THEN <<>> ELSE <<Dot>> \o SubSeq(frac, 1, kept))
          \o <<Zulu>>
=============================================================================
