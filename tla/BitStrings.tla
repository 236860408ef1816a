----------------------------- MODULE BitStrings -----------------------------
(***************************************************************************)
(* Byte strings as the bit commands see them (crdtstore/bitops.go): a       *)
(* string is a sequence of bits, ByteBits to a byte (8 in the code), bit 0   *)
(* first.  Offsets and bytes count from 0.                                 *)
(***************************************************************************)
EXTENDS Integers, Sequences, FiniteSetsExt

CONSTANT ByteBits
ASSUME ByteAssumption == ByteBits \in Nat \ {0}

Bytes(data) == Len(data) \div ByteBits
BitAt(data, pos) == data[pos + 1]
Zeros(n) == [i \in 1 .. n |-> 0]
Pad(data, bytes) == data \o Zeros((bytes - Bytes(data)) * ByteBits)

(***************************************************************************)
(* A range as the client gives it: start and end, each present or not, in   *)
(* bytes or bits.  bitRange returns <<s, e>>, empty when s > e.             *)
(***************************************************************************)
Clamped(rng, total) ==
    LET s == IF rng.hasStart THEN rng.start ELSE 0
        e == IF rng.hasEnd THEN rng.end ELSE total - 1
        FromEnd(i) == IF i < 0 THEN i + total ELSE i
    IN  <<Max({FromEnd(s), 0}), Min({Max({FromEnd(e), 0}), total - 1})>>
bitRange(n, rng) ==
    LET total == IF rng.inBits THEN n * ByteBits ELSE n IN
    IF total = 0 THEN <<0, -1>> ELSE Clamped(rng, total)

Ones(data, from, to) == Cardinality({p \in from .. to : BitAt(data, p) = 1})

(***************************************************************************)
(* Whole bytes, the first and the last of a range of bits masked.          *)
(***************************************************************************)
bitCountUnmasked(data, s, e, inBits) ==
    IF ~inBits THEN Ones(data, s * ByteBits, e * ByteBits + ByteBits - 1)
    ELSE Ones(data, (s \div ByteBits) * ByteBits, (e \div ByteBits) * ByteBits + ByteBits - 1)
bitCountRange(data, s, e, inBits) ==
    IF ~inBits THEN Ones(data, s * ByteBits, e * ByteBits + ByteBits - 1)
    ELSE LET sb == s \div ByteBits eb == e \div ByteBits
             Of(i) == Ones(data, i * ByteBits + (IF i = sb THEN s % ByteBits ELSE 0),
                                 i * ByteBits + (IF i = eb THEN e % ByteBits ELSE ByteBits - 1))
         IN  MapThenSumSet(Of, sb .. eb)

(***************************************************************************)
(* The scan of bitPosRange: a whole byte of the other bit is skipped.      *)
(***************************************************************************)
Uniform(data, pos, bit) == \A p \in pos .. pos + ByteBits - 1 : BitAt(data, p) # bit
bitPosRange(data, bit, sb, eb) ==
    LET scan[pos \in Nat] ==
            IF pos > eb THEN -1
            ELSE IF pos % ByteBits = 0 /\ pos + ByteBits - 1 <= eb /\ Uniform(data, pos, bit)
                 THEN scan[pos + ByteBits]
            ELSE IF BitAt(data, pos) = bit THEN pos ELSE scan[pos + 1]
    IN  scan[sb]

BitCount(data, rng) ==
    LET b == bitRange(Bytes(data), rng) IN
    IF b[1] > b[2] THEN 0 ELSE bitCountRange(data, b[1], b[2], rng.inBits)

BitPos(data, bit, rng) ==
    LET b == bitRange(Bytes(data), rng)
        sb == IF rng.inBits THEN b[1] ELSE b[1] * ByteBits
        eb == IF rng.inBits THEN b[2] ELSE b[2] * ByteBits + ByteBits - 1
        pos == bitPosRange(data, bit, sb, eb)
    IN  CASE b[1] > b[2] -> -1
          [] pos >= 0 -> pos
          [] bit = 0 /\ ~rng.hasEnd -> eb + 1
          [] OTHER -> -1

bitop(op, a, b) ==
    LET n == IF op = "not" THEN Bytes(a) ELSE Max({Bytes(a), Bytes(b)}) x == Pad(a, n) y == Pad(b, n) IN
    [i \in 1 .. n * ByteBits |->
        CASE op = "not" -> 1 - x[i]
          [] op = "and" -> Min({x[i], y[i]})
          [] op = "or" -> Max({x[i], y[i]})
          [] op = "xor" -> (x[i] + y[i]) % 2]

(***************************************************************************)
(* The reference: the offsets a range selects, one by one.                 *)
(***************************************************************************)
Selected(data, rng) ==
    LET total == IF rng.inBits THEN Len(data) ELSE Bytes(data)
        From(i) == IF i < 0 THEN total + i ELSE i
        lo == IF rng.hasStart THEN From(rng.start) ELSE 0
        hi == IF rng.hasEnd THEN Max({From(rng.end), 0}) ELSE total - 1
        Place(p) == IF rng.inBits THEN p ELSE p \div ByteBits
    IN  {p \in 0 .. Len(data) - 1 : lo <= Place(p) /\ Place(p) <= hi}
=============================================================================
