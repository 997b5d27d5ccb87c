------------------------------ MODULE WireBytes ------------------------------
(* Bytes, and the integers of every encoding of the repository: the variable  *)
(* length integer of QUIC (VarInt, in Rust and in JavaScript) and the prefix  *)
(* integer of QPACK.  A byte is 0..255 and a buffer is a sequence of bytes.   *)
(*                                                                            *)
(* A decoder returns [s |-> "ok", v |-> value, rest |-> bytes left], or       *)
(* [s |-> "end"] when the buffer ends too early, or [s |-> "bad"].            *)
(*                                                                            *)
(* TLC's integers have 32 bits, so the identifiers above them are stood for   *)
(* by other values of the same eight-byte class.                              *)
EXTENDS Naturals, Sequences, SequencesExt

Ok(v, rest) == [s |-> "ok", v |-> v, rest |-> rest]
End         == [s |-> "end"]
Bad         == [s |-> "bad"]

\* What follows a decoder that succeeded; and a decoder for which a buffer that
\* ends too early is malformed.
Then(r, F(_)) == IF r.s = "ok" THEN F(r) ELSE r
Strict(r)     == IF r.s = "ok" THEN r ELSE Bad

First(b, n) == SubSeq(b, 1, n)
After(b, n) == SubSeq(b, n + 1, Len(b))
Take(b, n)  == IF Len(b) < n THEN End ELSE Ok(First(b, n), After(b, n))

BigEndian(x, n) == <<>> \o [i \in 1..n |-> IF n - i > 3 THEN 0 ELSE (x \div 256^(n - i)) % 256]
Number(b)       == LET n[i \in 0..Len(b)] == IF i = 0 THEN 0 ELSE n[i - 1] * 256 + b[i] IN n[Len(b)]

-----------------------------------------------------------------------------
(* VarInt.                                                                    *)

Size(x) ==
    CASE x < 2^6  -> 1
      [] x < 2^14 -> 2
      [] x < 2^30 -> 4
      [] OTHER    -> 8

Tag(n) == CASE n = 1 -> 0 [] n = 2 -> 1 [] n = 4 -> 2 [] n = 8 -> 3

VarInt(x) == LET b == BigEndian(x, Size(x)) IN <<b[1] + 64 * Tag(Size(x))>> \o Tail(b)

Width(byte) == 2^(byte \div 64)

VarIntDecode(b) ==
    IF b = <<>> THEN End
    ELSE Then(Take(b, Width(b[1])), LAMBDA r : Ok(Number(<<b[1] % 64>> \o Tail(r.v)), r.rest))

\* VarInt.encode and VarInt.decode of the JavaScript package.
JsVarInt(x) == LET b == BigEndian(x, Size(x)) IN <<b[1] + 64 * Tag(Size(x))>> \o Tail(b)
JsVarIntDecode(b) == VarIntDecode(b)

\* n integers one after another.
RECURSIVE VarInts(_, _)
VarInts(b, n) ==
    IF n = 0 THEN Ok(<<>>, b)
    ELSE Then(VarIntDecode(b), LAMBDA x : Then(VarInts(x.rest, n - 1), LAMBDA r : Ok(<<x.v>> \o r.v, r.rest)))

\* A length and that many bytes.
Prefixed(b) == Then(VarIntDecode(b), LAMBDA n : Take(n.rest, n.v))

-----------------------------------------------------------------------------
(* The prefix integers and the strings of QPACK.                              *)

MAX_POWER == 70

EncodePrefix(size, flags, x) ==
    LET mask == 2^size - 1
        head == (flags * 2^size) % 256
        tail[r \in Nat] == IF r >= 128 THEN <<(r % 128) + 128>> \o tail[r \div 128] ELSE <<r>>
    IN  IF x < mask THEN <<head + x>> ELSE <<head + mask>> \o tail[x - mask]

\* The bytes after the first, from the ith.
RECURSIVE PrefixTail(_, _)
PrefixTail(b, i) ==
    IF i > Len(b) THEN End
    ELSE IF b[i] < 128 THEN Ok(b[i], After(b, i))
    ELSE IF 7 * (i - 1) >= MAX_POWER THEN Bad
    ELSE Then(PrefixTail(b, i + 1), LAMBDA r : Ok((b[i] % 128) + 128 * r.v, r.rest))

DecodePrefix(b, size) ==
    LET mask  == 2^size - 1
        flags == b[1] \div 2^size
        low   == b[1] % 2^size
    IN  IF b = <<>> THEN End
        ELSE IF low < mask THEN Ok(<<flags, low>>, After(b, 1))
        ELSE Then(PrefixTail(b, 2), LAMBDA r : Ok(<<flags, mask + r.v>>, r.rest))

\* Huffman coding (the flag before the length) is outside the model.
DecodeString(b, size) ==
    Then(DecodePrefix(b, size - 1), LAMBDA n :
        Then(Take(n.rest, n.v[2]), LAMBDA r : IF n.v[1] % 2 = 1 THEN Bad ELSE r))
=============================================================================
