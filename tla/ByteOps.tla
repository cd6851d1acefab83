------------------------------- MODULE ByteOps -------------------------------
(***************************************************************************)
(* The byte transforms of the AstroBWTv3 op loop: the 256 scalar ops of    *)
(* ops_generated.rs, the AVX2 kernel of ops_avx2.rs that replaces them,    *)
(* and the key schedule of the RC4 cipher that two of the ops re-key.  A   *)
(* 256-byte block is a function from 0 .. 255, a vector register one from  *)
(* 0 .. 31.                                                                *)
(***************************************************************************)
EXTENDS Integers, Sequences, SequencesExt, FiniteSets, Bitwise

CONSTANTS
    HashSpace,     \* 2^64 in the code: how many values lhash has
    Xxh64(_)       \* the xxhash crate, on a prefix of the block

ASSUME ByteOpsAssumption == HashSpace \in Nat \ {0}

Block == 0 .. 255

-----------------------------------------------------------------------------
(* The statements an op is made of, on the byte x with y = s[p2].          *)

Bit(x, k) == (x \div 2 ^ k) % 2

CountOnes(x) == Cardinality({k \in 0 .. 7 : Bit(x, k) = 1})

RotateLeft(x, n) == LET k == n % 8 IN ((x * 2 ^ k) % 256) + (x \div 2 ^ (8 - k))

ReverseBits(x) ==
    128 * Bit(x, 0) + 64 * Bit(x, 1) + 32 * Bit(x, 2) + 16 * Bit(x, 3)
        + 8 * Bit(x, 4) + 4 * Bit(x, 5) + 2 * Bit(x, 6) + Bit(x, 7)

Statement(name, x, y) ==
    CASE name = "pop"  -> x ^^ CountOnes(x)
      [] name = "rol1" -> RotateLeft(x, 1)
      [] name = "rol3" -> RotateLeft(x, 3)
      [] name = "rol5" -> RotateLeft(x, 5)
      [] name = "rolx" -> RotateLeft(x, x)
      [] name = "sqr"  -> (x * x) % 256
      [] name = "shl"  -> (x * 2 ^ (x % 4)) % 256
      [] name = "shr"  -> x \div 2 ^ (x % 4)
      [] name = "and"  -> x & y
      [] name = "xor"  -> x ^^ y
      [] name = "dbl"  -> (x + x) % 256
      [] name = "rev"  -> ReverseBits(x)
      [] name = "not"  -> 255 - x
      [] name = "sub"  -> (x - (x ^^ 97)) % 256
      [] name = "x4"   -> x ^^ RotateLeft(x, 4)
      [] name = "x2"   -> x ^^ RotateLeft(x, 2)

Statements(names, x, y) == FoldLeft(LAMBDA v, name : Statement(name, v, y), x, names)

-----------------------------------------------------------------------------
(* The match arms of apply_op: the four statements of each op, in order.   *)

\* Ops 0 .. 15.
Ops0 == <<
    <<"pop","rol5","sqr","rolx">>, <<"shl","rol1","and","dbl">>, <<"pop","rev","shl","pop">>,
    <<"rolx","rol3","xor","rol1">>, <<"not","shr","rolx","sub">>, <<"pop","xor","shl","shr">>,
    <<"shl","rol3","not","sub">>, <<"dbl","rolx","pop","not">>, <<"not","rol5","rol5","shl">>,
    <<"xor","x4","shr","x2">>, <<"not","sqr","rol3","sqr">>, <<"rol1","rol5","and","rolx">>,
    <<"x2","sqr","x2","not">>, <<"rol1","xor","shr","rol5">>, <<"shr","shl","sqr","shl">>,
    <<"x2","shl","and","sub">>>>
\* Ops 16 .. 31.
Ops16 == <<
    <<"x4","sqr","rol1","not">>, <<"xor","sqr","rol5","not">>, <<"x4","rol3","rol1","rol5">>,
    <<"sub","rol5","shl","dbl">>, <<"and","xor","rev","x2">>, <<"rol1","xor","dbl","and">>,
    <<"shl","rev","sqr","rol1">>, <<"rol3","rol1","pop","and">>, <<"dbl","shr","x4","rol5">>,
    <<"pop","rol3","rolx","sub">>, <<"sqr","pop","dbl","rev">>, <<"rol5","and","x4","rol5">>,
    <<"shl","dbl","dbl","rol5">>, <<"sqr","xor","shr","dbl">>, <<"and","x4","rol5","shl">>,
    <<"not","x2","shl","sqr">>>>
\* Ops 32 .. 47.
Ops32 == <<
    <<"x2","rev","rol3","x2">>, <<"rolx","x4","rev","sqr">>, <<"sub","shl","shl","sub">>,
    <<"dbl","not","rol1","xor">>, <<"pop","rol1","x2","rol1">>, <<"rolx","shr","shr","sqr">>,
    <<"shr","rol3","pop","rolx">>, <<"x2","xor","shr","and">>, <<"rolx","xor","pop","xor">>,
    <<"rol5","sub","rol3","x4">>, <<"rol1","rol3","x2","rolx">>, <<"and","dbl","and","sub">>,
    <<"pop","pop","rol3","rolx">>, <<"rol5","rol5","and","pop">>, <<"pop","dbl","rol5","x4">>,
    <<"rol5","and","rol5","shl">>>>
\* Ops 48 .. 63.
Ops48 == <<
    <<"rolx","not","not","rol5">>, <<"pop","dbl","rev","x4">>, <<"rev","rol3","dbl","rol1">>,
    <<"xor","x4","x4","rol5">>, <<"rolx","shr","not","pop">>, <<"dbl","pop","x4","x4">>,
    <<"rev","xor","not","not">>, <<"rev","x4","x4","rol1">>, <<"x2","sqr","not","rol1">>,
    <<"rolx","rol5","rol3","rev">>, <<"rev","x2","and","dbl">>, <<"rol1","sqr","rolx","not">>,
    <<"xor","not","sqr","rol3">>, <<"rol5","shl","rol3","rol5">>, <<"and","not","x2","dbl">>,
    <<"rol5","pop","sub","dbl">>>>
\* Ops 64 .. 79.
Ops64 == <<
    <<"xor","rev","x4","sqr">>, <<"rol5","rol3","x2","sqr">>, <<"x2","rev","x4","rol1">>,
    <<"rol1","pop","x2","rol5">>, <<"and","not","x4","xor">>, <<"dbl","sqr","rev","shr">>,
    <<"xor","sqr","shr","x4">>, <<"rol5","not","sqr","shl">>, <<"rev","pop","xor","shl">>,
    <<"pop","rev","rol5","sub">>, <<"sqr","rol3","rev","and">>, <<"sqr","pop","and","x4">>,
    <<"rolx","x2","rol5","shr">>, <<"rol3","dbl","shl","pop">>, <<"rolx","rev","sqr","sub">>,
    <<"x4","x2","dbl","sqr">>>>
\* Ops 80 .. 95.
Ops80 == <<
    <<"rolx","shl","dbl","and">>, <<"x4","shl","rolx","pop">>, <<"xor","not","not","shr">>,
    <<"shl","rev","rol3","rev">>, <<"sub","rol1","shl","dbl">>, <<"shr","xor","rolx","shl">>,
    <<"x4","rolx","x4","not">>, <<"dbl","rol3","x4","dbl">>, <<"x2","rol1","sqr","not">>,
    <<"dbl","sqr","not","x2">>, <<"rev","rol5","rol1","shr">>, <<"pop","and","x4","rev">>,
    <<"pop","not","pop","and">>, <<"x2","sqr","and","dbl">>, <<"rol1","rolx","and","shl">>,
    <<"rol1","not","rol5","rol5">>>>
\* Ops 96 .. 111.
Ops96 == <<
    <<"x2","x2","pop","rol1">>, <<"rol1","shl","pop","shr">>, <<"x4","shl","shr","x4">>,
    <<"x4","sub","rev","shr">>, <<"rolx","shl","rev","pop">>, <<"shr","pop","shr","not">>,
    <<"rol3","sub","dbl","rol3">>, <<"rol1","rev","xor","rolx">>, <<"rev","pop","rol5","dbl">>,
    <<"shl","rol3","rolx","x2">>, <<"rev","x4","rol1","sqr">>, <<"shr","x2","rol5","rol1">>,
    <<"xor","not","and","x2">>, <<"sqr","rolx","xor","x2">>, <<"dbl","x2","x2","shr">>,
    <<"sqr","rev","sqr","shr">>>>
\* Ops 112 .. 127.
Ops112 == <<
    <<"rol3","not","rol5","sub">>, <<"rol5","rol1","pop","not">>, <<"rol1","rev","rolx","not">>,
    <<"rolx","rol5","and","rol3">>, <<"and","xor","pop","shl">>, <<"shl","rol3","shl","and">>,
    <<"shr","dbl","shl","rol5">>, <<"rev","x2","not","xor">>, <<"x2","sqr","xor","rev">>,
    <<"shr","dbl","pop","sqr">>, <<"x4","rolx","rol5","x2">>, <<"and","not","rol3","rol3">>,
    <<"x2","x2","xor","not">>, <<"rev","x2","dbl","shr">>, <<"rol3","rol1","rol5","rev">>,
    <<"shl","sqr","and","xor">>>>
\* Ops 128 .. 143.
Ops128 == <<
    <<"rolx","x2","x2","rol5">>, <<"not","pop","pop","shr">>, <<"shr","rolx","rol1","x4">>,
    <<"sub","rol1","pop","sqr">>, <<"and","rev","rol5","x2">>, <<"xor","rol5","x2","shl">>,
    <<"not","x4","rol1","and">>, <<"shr","x2","dbl","rev">>, <<"shr","sub","xor","rol5">>,
    <<"rol5","shr","rev","rolx">>, <<"xor","xor","dbl","sub">>, <<"rol5","rol3","x2","rol3">>,
    <<"rol1","x2","xor","rol5">>, <<"rol1","sub","pop","dbl">>, <<"and","rol5","rev","x2">>,
    <<"and","rol3","shr","shl">>>>
\* Ops 144 .. 159.
Ops144 == <<
    <<"rolx","shl","not","rolx">>, <<"rev","x4","x2","x4">>, <<"and","shl","and","pop">>,
    <<"not","shl","x4","sqr">>, <<"and","rol5","shl","sub">>, <<"xor","rev","sub","dbl">>,
    <<"shl","shl","shl","and">>, <<"dbl","shl","sqr","shl">>, <<"shr","not","shl","x2">>,
    <<"rol1","rol3","not","not">>, <<"rol5","not","xor","pop">>, <<"sub","xor","pop","xor">>,
    <<"shr","shr","rol3","rol1">>, <<"shr","shl","rolx","rol1">>, <<"pop","rol3","dbl","rol1">>,
    <<"sub","xor","rolx","xor">>>>
\* Ops 160 .. 175.
Ops160 == <<
    <<"shr","rev","rol1","rol3">>, <<"xor","xor","rol5","rolx">>, <<"sqr","rev","x2","sub">>,
    <<"shl","sub","x4","rol1">>, <<"sqr","pop","sub","not">>, <<"x4","xor","shl","dbl">>,
    <<"rol3","dbl","x2","not">>, <<"not","not","sqr","shr">>, <<"rolx","and","rolx","rol1">>,
    <<"rol1","shl","x4","and">>, <<"sub","rev","sub","sqr">>, <<"rol3","sub","pop","rev">>,
    <<"x4","sub","shl","rol1">>, <<"not","shl","sqr","dbl">>, <<"not","rolx","pop","pop">>,
    <<"rol3","sub","sqr","rol5">>>>
\* Ops 176 .. 191.
Ops176 == <<
    <<"xor","sqr","xor","rol5">>, <<"pop","x2","x2","and">>, <<"and","dbl","not","rol1">>,
    <<"x2","dbl","shr","rev">>, <<"shr","x4","xor","sub">>, <<"not","shl","x2","rol5">>,
    <<"xor","rol1","rol5","x4">>, <<"dbl","sub","sub","sqr">>, <<"shl","sqr","rol5","xor">>,
    <<"not","x4","rol5","shr">>, <<"x2","x4","sub","shr">>, <<"xor","not","dbl","rol3">>,
    <<"x4","pop","x4","x4">>, <<"rol5","x4","xor","sub">>, <<"rol5","shr","and","x2">>,
    <<"dbl","rol3","rolx","shr">>>>
\* Ops 192 .. 207.
Ops192 == <<
    <<"dbl","shl","dbl","sqr">>, <<"and","shl","rolx","rol1">>, <<"and","rolx","shl","and">>,
    <<"pop","x2","xor","x4">>, <<"rol3","rev","shl","rol1">>, <<"x4","rolx","sqr","sqr">>,
    <<"shr","shr","rev","rol1">>, <<"not","dbl","sqr","xor">>, <<"shr","pop","rev","rev">>,
    <<"rol3","x2","x4","not">>, <<"xor","not","rolx","rol5">>, <<"xor","and","rol1","rolx">>,
    <<"rol5","x2","rolx","xor">>, <<"pop","x4","shl","dbl">>, <<"x4","rev","rev","pop">>,
    <<"rol5","rol3","pop","pop">>>>
\* Ops 208 .. 223.
Ops208 == <<
    <<"dbl","dbl","shr","rol3">>, <<"rol5","rev","pop","sub">>, <<"x2","rolx","rol5","not">>,
    <<"x4","dbl","sub","rolx">>, <<"rolx","x2","xor","xor">>, <<"dbl","shl","rol3","sub">>,
    <<"xor","sub","shr","not">>, <<"xor","and","shl","sqr">>, <<"rolx","not","sub","and">>,
    <<"rol5","dbl","rol1","x4">>, <<"rev","not","sqr","sub">>, <<"x4","rol3","and","rev">>,
    <<"rol1","shl","rev","shl">>, <<"rol5","xor","not","rev">>, <<"shr","shl","xor","sqr">>,
    <<"rol3","xor","rolx","sub">>>>
\* Ops 224 .. 239.
Ops224 == <<
    <<"x2","rol1","rol3","shl">>, <<"not","shr","rev","rol3">>, <<"rev","sub","sqr","xor">>,
    <<"not","shl","sub","and">>, <<"dbl","shr","dbl","pop">>, <<"rol3","rolx","x2","pop">>,
    <<"sqr","and","rolx","rolx">>, <<"rol3","shr","xor","rev">>, <<"sqr","sqr","x4","rol5">>,
    <<"rol1","pop","rol3","pop">>, <<"and","sqr","shr","xor">>, <<"x2","sqr","rol3","not">>,
    <<"xor","dbl","and","sub">>, <<"rol5","shl","x2","rol3">>, <<"dbl","dbl","rol3","sub">>,
    <<"rol5","rol1","sqr","and">>>>
\* Ops 240 .. 255.
Ops240 == <<
    <<"not","dbl","and","shl">>, <<"x4","pop","xor","rol1">>, <<"dbl","dbl","sub","xor">>,
    <<"rol5","x2","pop","rol1">>, <<"not","x2","rev","rol5">>, <<"sub","rol5","x2","shr">>,
    <<"dbl","rol1","shr","dbl">>, <<"rol5","x2","rol5","not">>, <<"not","sub","pop","rol5">>,
    <<"rev","x4","x4","rolx">>, <<"and","rolx","pop","x4">>, <<"dbl","pop","rev","x2">>,
    <<"rev","x4","x2","shl">>, <<"rol3","x2","xor","rol3">>, <<"pop","rol3","x2","rol3">>,
    <<"pop","rol3","x2","rol3">>>>

Ops ==
    Ops0 \o Ops16 \o Ops32 \o Ops48 \o Ops64 \o Ops80 \o Ops96 \o Ops112 \o Ops128 \o Ops144
        \o Ops160 \o Ops176 \o Ops192 \o Ops208 \o Ops224 \o Ops240

-----------------------------------------------------------------------------
(* rc4.rs.                                                                 *)

Swap(s, i, j) == [s EXCEPT ![i] = s[j], ![j] = s[i]]

\* Rc4::new: the key schedule.
Turn(key, st) ==
    LET j == (st.j + st.s[st.i] + key[st.i % Cardinality(DOMAIN key)]) % 256
    IN  [s |-> Swap(st.s, st.i, j), i |-> st.i + 1, j |-> j]

RECURSIVE TurnTo(_, _, _)
TurnTo(key, st, stop) == IF st.i = stop THEN st ELSE TurnTo(key, Turn(key, st), stop)

\* Sixteen turns at a time, so that TLC's evaluation does not nest 256 deep.
RECURSIVE TurnAll(_, _)
TurnAll(key, st) ==
    LET next == TurnTo(key, st, st.i + 16)
    IN  IF next.i = 256 THEN next.s ELSE TurnAll(key, next)

Rc4New(key) ==
    [s |-> TurnAll(key, [s |-> [i \in Block |-> i] @@ <<>>, i |-> 0, j |-> 0]), i |-> 0, j |-> 0]

-----------------------------------------------------------------------------
(* apply_op.  The state it works on is [s, lhash, prevLhash, rc4].         *)

\* Op 0 on every turn of its loop: the window's ends change places, reversed.
SwapEnds(st, p1, p2) ==
    [st EXCEPT !.s = [@ EXCEPT ![p2] = ReverseBits(st.s[p1]), ![p1] = ReverseBits(st.s[p2])]]

\* Op 253 on every turn of its loop: the running hash takes in the bytes up to p2.
HashOn(st, p2) ==
    [st EXCEPT !.prevLhash = (st.lhash + @) % HashSpace,
               !.lhash = Xxh64([i \in 1 .. p2 |-> st.s[i - 1]])]

\* One turn of an op's loop.
OpTurn(op, st, p1, p2, i) ==
    LET next == [st EXCEPT !.s[i] = Statements(Ops[op + 1], @, st.s[p2])]
    IN  CASE op = 0   -> SwapEnds(next, p1, p2)
          [] op = 253 -> HashOn(next, p2)
          [] OTHER    -> next

ApplyOp(op, st, p1, p2) ==
    FoldLeft(LAMBDA v, i : OpTurn(op, v, p1, p2, i),
             IF op >= 254 THEN [st EXCEPT !.rc4 = Rc4New(st.s)] ELSE st,
             [k \in 1 .. p2 - p1 |-> p1 + k - 1])

-----------------------------------------------------------------------------
(* ops_avx2.rs.  Shifts and products work on 16-bit lanes of two bytes,    *)
(* low byte first; the masks keep one byte's bits out of the other.        *)

Lanes == 0 .. 31

\* A vector, lane by lane.  (f @@ <<>> is f; TLC then evaluates every lane once.)
Vec(F(_)) == [i \in Lanes |-> F(i)] @@ <<>>

VAnd(x, c) == Vec(LAMBDA i : x[i] & c)
VOr(x, y) == Vec(LAMBDA i : x[i] | y[i])
VXor(x, y) == Vec(LAMBDA i : x[i] ^^ y[i])
VAdd(x, y) == Vec(LAMBDA i : (x[i] + y[i]) % 256)
VSub(x, y) == Vec(LAMBDA i : (x[i] - y[i]) % 256)
VSet(c) == Vec(LAMBDA i : c)

\* _mm256_..._epi16: F on every 16-bit lane, wrapping.
Word(x, k) == x[2 * k] + 256 * x[2 * k + 1]

Epi16(F(_), x) ==
    LET w == [k \in 0 .. 15 |-> F(Word(x, k)) % 65536]
    IN  Vec(LAMBDA i : (w[i \div 2] \div (IF i % 2 = 0 THEN 1 ELSE 256)) % 256)

Slli16(x, n) == Epi16(LAMBDA w : w * 2 ^ n, x)
Srli16(x, n) == Epi16(LAMBDA w : w \div 2 ^ n, x)

\* _mm256_blendv_epi8
Select(mask, no, yes) == Vec(LAMBDA i : IF mask[i] THEN yes[i] ELSE no[i])

Shl(x, n) == VAnd(Slli16(x, n), (255 * 2 ^ n) % 256)

Shr(x, n) == VAnd(Srli16(x, n), 255 \div 2 ^ n)

Rot(x, n) == VOr(Shl(x, n), Shr(x, 8 - n))

VariableShift(x, right) ==
    FoldLeft(LAMBDA out, n :
               Select([i \in Lanes |-> x[i] % 4 = n], out,
                      IF right THEN Shr(x, n) ELSE Shl(x, n)),
             x, <<1, 2, 3>>)

RotateSelf(x) ==
    FoldLeft(LAMBDA out, n : Select([i \in Lanes |-> (x[i] & n) = n], out, Rot(out, n)),
             x, <<1, 2, 4>>)

Popcount(x) ==
    LET a == VSub(x, VAnd(Shr(x, 1), 85))
        b == VAdd(VAnd(a, 51), VAnd(Shr(a, 2), 51))
    IN  VAnd(VAdd(b, Shr(b, 4)), 15)

VReverseBits(x) ==
    LET a == VOr(VAnd(Shr(x, 1), 85), Shl(VAnd(x, 85), 1))
        b == VOr(VAnd(Shr(a, 2), 51), Shl(VAnd(a, 51), 2))
    IN  Rot(b, 4)

Square(x) ==
    LET lo == Epi16(LAMBDA w : w % 256, x)
        hi == Srli16(x, 8)
        sq(v) == Epi16(LAMBDA w : ((w * w) % 65536) % 256, v)
    IN  VOr(sq(lo), Slli16(sq(hi), 8))

Primitive(id, x, p2) ==
    CASE id = 0  -> VXor(x, Popcount(x))
      [] id = 1  -> Rot(x, 5)
      [] id = 2  -> Square(x)
      [] id = 3  -> RotateSelf(x)
      [] id = 4  -> VariableShift(x, FALSE)
      [] id = 5  -> Rot(x, 1)
      [] id = 6  -> VAnd(x, p2)
      [] id = 7  -> VAdd(x, x)
      [] id = 8  -> VReverseBits(x)
      [] id = 9  -> Rot(x, 3)
      [] id = 10 -> VXor(x, VSet(p2))
      [] id = 11 -> VXor(x, VSet(255))
      [] id = 12 -> VariableShift(x, TRUE)
      [] id = 13 -> VSub(x, VXor(x, VSet(97)))
      [] id = 14 -> VXor(x, Rot(x, 4))
      [] id = 15 -> VXor(x, Rot(x, 2))

\* The packed table OPS: four primitive IDs per op, the first in the low bits.
PackedOps == <<
    \h0000, \h7654, \h0480, \h5a93, \hd3cb, \hc4a0, \hdb94, \hb037,
    \h411b, \hfcea, \h292b, \h3615, \hbf2f, \h1ca5, \h424c, \hd64f,
    \hb52e, \hb12a, \h159e, \h741d, \hf8a6, \h67a5, \h5284, \h6059,
    \h1ec7, \hd390, \h8702, \h1e61, \h1774, \h7ca2, \h41e6, \h24fb,
    \hf98f, \h28e3, \hd44d, \ha5b7, \h5f50, \h2cc3, \h309c, \h6caf,
    \ha0a3, \he9d1, \h3f95, \hd676, \h3900, \h0611, \he170, \h4161,
    \h1bb3, \he870, \h5798, \h1eea, \h0bc3, \hee07, \hbba8, \h5ee8,
    \h5b2f, \h8913, \h76f8, \hb325, \h92ba, \h1941, \h7fb6, \h7d01,
    \h2e8a, \h2f91, \h5e8f, \h1f05, \haeb6, \hc827, \hec2a, \h42b1,
    \h4a08, \hd180, \h6892, \he602, \hc1f3, \h0479, \hd283, \h27fe,
    \h6743, \h034e, \hcbba, \h8984, \h745d, \h43ac, \hbe3e, \h7e97,
    \hb25f, \hfb27, \hc518, \h8e60, \h60b0, \h762f, \h4635, \h11b5,
    \h50ff, \hc045, \hec4e, \hc8de, \h0843, \hbc0c, \h97d9, \h3a85,
    \h7108, \hf394, \h25e8, \h51fc, \hf6ba, \hfa32, \hcff7, \hc282,
    \hd1b9, \hb051, \hb385, \h9613, \h40a6, \h6494, \h147c, \habf8,
    \h8a2f, \h207c, \hf13e, \h99b6, \hbaff, \hc7f8, \h8159, \ha624,
    \h1ff3, \hc00b, \he53c, \h205d, \hf186, \h4f1a, \h65eb, \h87fc,
    \h1adc, \h38c1, \hd7aa, \h9f91, \h1af5, \h70d5, \hf816, \h4c96,
    \h3b43, \hefe8, \h0646, \h2e4b, \hd416, \h7d8a, \h6444, \h4247,
    \hf4bc, \hbb95, \h0ab1, \ha0ad, \h59cc, \h534c, \h5790, \ha3ad,
    \h958c, \h31aa, \hdf82, \h5ed4, \hbd02, \h74ae, \hbf79, \hc2bb,
    \h5363, \h6e45, \h2d8d, \h80d9, \h54de, \h724b, \h003b, \h12d9,
    \h1a2a, \h6ff0, \h5b76, \h8c7f, \hdaec, \h1f4b, \he15a, \h2dd7,
    \ha124, \hc1eb, \hcdef, \h97ba, \hee0e, \hdae1, \hf6c1, \hc397,
    \h2747, \h5346, \h6436, \heaf0, \h5489, \h223e, \h58cc, \ha27b,
    \h880c, \hbef9, \h13ba, \h356a, \ha3f1, \h74e0, \h088e, \h0091,
    \h9c77, \hd081, \hb13f, \h3d7e, \haaf3, \hd947, \hbcda, \h246a,
    \h6db3, \he571, \hd2b8, \h869e, \h4845, \h8ba1, \h2a4c, \hd3a9,
    \h495f, \h98cb, \ha2d8, \h6d4b, \h07c7, \h0f39, \h3362, \h8ac9,
    \h1e22, \h0905, \hac26, \hb92f, \hd67a, \h9f41, \hd977, \h6251,
    \h467b, \h5a0e, \had77, \h50f1, \h18fb, \hcf1d, \h7c57, \hb1f1,
    \h10db, \h3ee8, \he036, \hf807, \h4fe8, \h0000, \h9f90, \h9f90>>

\* A byte read as i8, for the signed lane comparison.
I8(x) == IF x % 256 > 127 THEN (x % 256) - 256 ELSE x % 256

\* Mutant: the register is loaded at pos1 and slides past the block's end, so
\* the code clamps it, but the mask is still built from lane 0.
LaneMaskUnshifted(p1, p2, start) ==
    [i \in Lanes |-> i > -1 /\ I8(p2 - p1) > i]

\* The lanes of the register at start that hold s[p1 .. p2 - 1].
LaneMask(p1, p2, start) ==
    [i \in Lanes |-> i > I8(p1 - start) - 1 /\ I8(p2 - start) > i]

\* apply
ApplyVector(op, st, p1, p2) ==
    LET rc4 == IF op >= 254 THEN Rc4New(st.s) ELSE st.rc4
        start == IF p1 < 224 THEN p1 ELSE 224
        old == [i \in Lanes |-> st.s[start + i]]
        x == FoldLeft(LAMBDA v, k : Primitive((PackedOps[op + 1] \div 16 ^ k) % 16, v, st.s[p2]),
                      old, <<0, 1, 2, 3>>)
        new == Select(LaneMask(p1, p2, start), old, x)
    IN  IF p1 = p2 THEN [st EXCEPT !.rc4 = rc4]
        ELSE [st EXCEPT !.rc4 = rc4,
                        !.s = [i \in Block |-> IF i - start \in Lanes THEN new[i - start]
                                               ELSE st.s[i]]]

ApplyOpAvx2(op, st, p1, p2) ==
    IF op \in {0, 253} THEN ApplyOp(op, st, p1, p2) ELSE ApplyVector(op, st, p1, p2)

\* How the op loop derives the window of a turn from two bytes of the switcher.
Window(a, b) ==
    LET p1 == IF a > b THEN b ELSE a
        p2 == IF a > b THEN a ELSE b
    IN  <<p1, IF p2 - p1 > 32 THEN (p1 + ((p2 - p1) % 32)) % 256 ELSE p2>>

=============================================================================
