-------------------------------- MODULE Bytes --------------------------------
(***************************************************************************)
(* What the library computes from bytes: the order and the equality of     *)
(* tokens, their value as integers, and the variable length encoding of    *)
(* integers in options.  A string of bytes is a sequence of numbers below  *)
(* Radix, the most significant first.                                      *)
(***************************************************************************)
EXTENDS Naturals, Sequences, FiniteSetsExt

CONSTANTS
    Radix,  \* 256 in the code
    Width   \* bytes of an integer: 4 or 8 in the code

ASSUME RadixAssumption == Radix \in Nat \ {0, 1} /\ Width \in Nat \ {0}

Byte == 0..(Radix - 1)

(* memcmp(a, b, len) < 0.                                                  *)
MemcmpLess(a, b, len) ==
    \E i \in 1..len :
        /\ a[i] < b[i]
        /\ \A j \in 1..(i - 1) : a[j] = b[j]

(* Variant: the bytes they both have are compared, whatever the lengths.   *)
LessUnsized(a, b) == MemcmpLess(a, b, Min({Len(a), Len(b)}))

(* operator<: the shorter one, and the bytes when the lengths are equal.   *)
Less(a, b) ==
    \/ Len(a) < Len(b)
    \/ Len(a) = Len(b) /\ MemcmpLess(a, b, Len(a))

(* operator==, by coap_binary_equal.                                       *)
Equal(a, b) ==
    /\ Len(a) = Len(b)
    /\ \A i \in 1..Len(a) : a[i] = b[i]

(* What a shift to the left by k bytes multiplies with: an integer has     *)
(* room for Width of them.                                                 *)
Power[k \in 0..Width] == IF k = 0 THEN 1 ELSE Radix * Power[k - 1]

(* n after k shifts by one byte to the right.                              *)
Shifted(n) ==
    LET value[k \in 0..Width] ==
            IF k = 0 THEN n ELSE value[k - 1] \div Radix
    IN  value

(* Variant: the bytes are taken in the order of the host.                  *)
ToUInt64Swapped(s) ==
    LET result[i \in 0..Len(s)] ==
            IF i = 0 THEN 0 ELSE result[i - 1] + s[i] * Power[i - 1]
    IN  result[Len(s)]

(* toUInt64: each byte is shifted to its place.  The shift is undefined    *)
(* for strings longer than the integer.                                    *)
ToUInt64(s) ==
    LET result[i \in 0..Len(s)] ==
            IF i = 0 THEN 0 ELSE result[i - 1] + s[i] * Power[Len(s) - i]
    IN  result[Len(s)]

(* The bytes are counted by shifting the value out.                        *)
EncodedLength(n) ==
    Min({k \in 0..Width : k = Width \/ Shifted(n)[k] = 0})

(* Variant: one byte more than is needed.                                  *)
EncodePadded(n) ==
    LET length == 1 + EncodedLength(n)
    IN  [i \in 1..length |-> Shifted(n)[length - i] % Radix]

(* Encoder: the fewest bytes that hold the value, none for zero.           *)
Encode(n) ==
    LET length == EncodedLength(n)
    IN  [i \in 1..length |-> Shifted(n)[length - i] % Radix]

(* Decoder: what does not fit is shifted out.                              *)
Decode(s) ==
    LET value[i \in 0..Len(s)] ==
            IF i = 0 THEN 0
            ELSE (value[i - 1] * Radix + s[i]) % Power[Width]
    IN  value[Len(s)]
==============================================================================
