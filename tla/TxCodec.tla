------------------------------- MODULE TxCodec -------------------------------
(***************************************************************************)
(* The transactions of the block crate, transaction.rs, and the statement  *)
(* and proof a value-carrying payload holds (statement.rs, proof.rs,       *)
(* inner_product.rs of the crypto crate).                                  *)
(* What is written and what is read are translated separately, each from   *)
(* its own function: that they agree is a property, not a definition.      *)
(***************************************************************************)
EXTENDS Integers, Sequences, SequencesExt, Varint

CONSTANTS
    Digest, PointBytes, Scalar,    \* bytes of a hash 32, a point 33, a scalar 32
    PayloadLimit, Rounds,          \* PAYLOAD_LIMIT and ROUNDS
    IsPoint(_),                    \* G1::decompress succeeds
    GravitonSum(_),                \* BLAKE2s-256 of a compressed public key
    UnmarshalBinary(_)             \* Arguments: a canonical form, or <<>>

ASSUME TxCodecAssumption ==
    {Digest, PointBytes, Scalar, PayloadLimit, Rounds} \subseteq Nat \ {0}

-----------------------------------------------------------------------------
(* A read returns a value and the rest of the buffer, or an error.           *)

Got(v, rest) == [kind |-> "got", v |-> v, rest |-> rest]
Err == [kind |-> "err"]
Panic == [kind |-> "panic"]

Drop(s, n) == SubSeq(s, n + 1, Len(s))

Take(rest, n) == IF Len(rest) < n THEN Err ELSE Got(SubSeq(rest, 1, n), Drop(rest, n))

\* What K makes of the value of a read, if there is one: the ? of the code.
Then(r, K(_, _)) == IF r.kind = "got" THEN K(r.v, r.rest) ELSE r

\* The read, refused unless its value is good.
Check(r, Good(_)) == IF r.kind = "got" /\ ~ Good(r.v) THEN Err ELSE r

TakeG1(rest) == Check(Take(rest, PointBytes), IsPoint)

TakeByte(rest) == Then(Take(rest, 1), LAMBDA v, after : Got(v[1], after))

\* A value of n bytes, or none when n is zero.
Consume(value, n, rest) == IF n = 0 THEN Err ELSE Got(value, Drop(rest, n))

Rv(rest) == Consume(ReadUvarint(rest)[1], ReadUvarint(rest)[2], rest)

\* The fields of a record one after the other, each by Read(field, v, rest).
ReadFields(Read(_, _, _), fields, init, rest) ==
    FoldLeft(LAMBDA st, f :
                Then(st, LAMBDA record, left :
                  Then(Read(f, record, left), LAMBDA v, after : Got([record EXCEPT ![f] = v], after))),
             Got(init, rest), fields)

\* What is written, or the panic of the piece that cannot be: the pieces one
\* after the other.
Put(bytes) == [kind |-> "put", v |-> bytes]

Writes(pieces) ==
    IF \E k \in DOMAIN pieces : pieces[k].kind = "panic" THEN Panic
    ELSE Put(FlattenSeq([k \in DOMAIN pieces |-> pieces[k].v] \o <<>>))

\* n items in a row.
ReadMany(Read(_), n, rest) ==
    FoldLeft(LAMBDA st, k :
                Then(st, LAMBDA items, left :
                  Then(Read(left), LAMBDA v, after : Got(Append(items, v), after))),
             Got(<<>>, rest), [k \in 1 .. n |-> k])

-----------------------------------------------------------------------------
(* The statement of a payload.  A fresh one has the public keys of its ring, *)
(* one that was read has the pointers to them.                               *)

\* checked_shl(..).unwrap_or(0)
RingSize(power) == IF power >= 64 THEN 0 ELSE IF power > 7 THEN 256 ELSE 2 ^ power

IsPowerOf2(n) == \E p \in 0 .. 30 : 2 ^ p = n

PowerOf2(n) == CHOOSE p \in 0 .. 30 : 2 ^ p = n

Members(statement) == Len(statement.pointers) \div statement.bytesPer

Ring(st) == IF st.pointers = <<>> THEN Len(st.keys) ELSE Members(st)

Pointers(st) ==
    IF st.pointers # <<>> THEN st.pointers
    ELSE FlattenSeq([k \in DOMAIN st.keys |-> SubSeq(GravitonSum(st.keys[k]), 1, st.bytesPer)])

\* A division by zero, the assertion of power_of_2, a slice of a digest or a
\* commitment that is not there ends the process.
StatementSerialize(st) ==
    IF \/ st.bytesPer = 0
       \/ ~ IsPowerOf2(Ring(st))
       \/ st.pointers = <<>> /\ st.bytesPer > Digest
       \/ Len(st.c) < Ring(st)
    THEN Panic
    ELSE Put(<<PowerOf2(Ring(st)), st.bytesPer>> \o PutUvarint(st.fees) \o st.d
               \o Pointers(st) \o FlattenSeq(SubSeq(st.c, 1, Ring(st))) \o st.roothash)

StatementField(f, st, rest) ==
    CASE f = "power" -> Check(TakeByte(rest), LAMBDA power : RingSize(power) <= 128)
      [] f = "bytesPer" -> Check(TakeByte(rest), LAMBDA n : n # 0)
      [] f = "fees" -> Rv(rest)
      [] f = "d" -> TakeG1(rest)
      [] f = "pointers" -> Take(rest, RingSize(st.power) * st.bytesPer)
      [] f = "c" -> ReadMany(TakeG1, RingSize(st.power), rest)
      [] f = "roothash" -> Take(rest, Digest)

StatementFields == <<"power", "bytesPer", "fees", "d", "pointers", "c", "roothash">>

StatementDeserialize(rest) ==
    Then(ReadFields(StatementField, StatementFields, [f \in Range(StatementFields) |-> <<>>], rest),
         LAMBDA st, after :
           Got([f \in (DOMAIN st \ {"power"}) \cup {"keys"} |-> IF f = "keys" THEN <<>> ELSE st[f]], after))

-----------------------------------------------------------------------------
(* A proof: its points ("g") and scalars ("s"), in the order they are        *)
(* written and read. m is the power of the ring.                             *)

Times(n, shape) == FlattenSeq([k \in 1 .. n |-> shape])

InnerProductShape == <<"s", "s">> \o Times(Rounds, <<"g", "g">>)

ProofShape(m) ==
    Times(4, <<"g">>) \o Times(m, Times(8, <<"g">>)) \o <<"g">> \o Times(2 * m, <<"s">>)
        \o <<"s", "g", "g">> \o Times(7, <<"s">>) \o InnerProductShape

TakeElement(e, rest) == IF e = "g" THEN TakeG1(rest) ELSE Take(rest, Scalar)

\* A payload whose proof is not there cannot be written.
NoProof == <<>>

ProofSerialize(proof) == IF proof = NoProof THEN Panic ELSE Put(FlattenSeq(proof))

ProofDeserialize(rest, m) ==
    FoldLeft(LAMBDA st, e :
                Then(st, LAMBDA items, left :
                  Then(TakeElement(e, left), LAMBDA v, after : Got(Append(items, v), after))),
             Got(<<>>, rest), ProofShape(m))

-----------------------------------------------------------------------------
(* Payloads.                                                                 *)

\* serialize_header unwraps the error of a payload that has not PayloadLimit bytes.
MarshalHeaderStatement(p) ==
    IF Len(p.rpcPayload) # PayloadLimit THEN Panic
    ELSE Writes(<<Put(PutUvarint(p.burnValue) \o p.scid \o <<p.rpcType>> \o p.rpcPayload),
                  StatementSerialize(p.statement)>>)

PayloadField(f, p, rest) ==
    CASE f = "burnValue" -> Rv(rest)
      [] f = "scid" -> Take(rest, Digest)
      [] f = "rpcType" -> TakeByte(rest)
      [] f = "rpcPayload" -> Take(rest, PayloadLimit)
      [] f = "statement" -> StatementDeserialize(rest)

PayloadFields == <<"burnValue", "scid", "rpcType", "rpcPayload", "statement">>

EmptyPayload == [f \in Range(PayloadFields) \cup {"proof"} |-> NoProof]

UnmarshalHeaderStatement(rest) ==
    ReadFields(PayloadField, PayloadFields, EmptyPayload, rest)

\* power_of_2 asserts that the ring has a power of two of members: none, which
\* a power byte of 64 or more gives, ends the process.
UnmarshalProofs(p, rest) ==
    IF Members(p.statement) = 0 THEN Panic
    ELSE Then(ProofDeserialize(rest, PowerOf2(Members(p.statement))),
              LAMBDA proof, after : Got([p EXCEPT !.proof = proof], after))

-----------------------------------------------------------------------------
(* Transactions.                                                             *)

Premine == 0
Registration == 1
Coinbase == 2
Normal == 3
Burn == 4
Sc == 5

If(condition, fields) == IF condition THEN fields ELSE <<>>

FeePerKb == 20

CalculateTxFee(size) ==
    ((size \div 1024) + (IF size % 1024 # 0 THEN 1 ELSE 0)) * FeePerKb

\* The fields serialize_header writes for a type, in its order.
HeaderWritten(type) ==
    <<"version", "source", "dest", "type">>
        \o If(type \in {Premine, Sc}, <<"value">>)
        \o If(type \in {Premine, Coinbase, Registration}, <<"minerAddress">>)
        \o If(type = Registration, <<"c", "s">>)
        \o If(type \in {Burn, Normal, Sc}, <<"height", "blid", "payloads">>)
        \o If(type = Sc, <<"scdata">>)

PutField(tx, f) ==
    CASE f \in {"version", "source", "dest", "type", "value", "height"} -> Put(PutUvarint(tx[f]))
      [] f \in {"minerAddress", "c", "s", "blid"} -> Put(tx[f])
      [] f = "payloads" ->
           Writes(<<Put(PutUvarint(Len(tx.payloads)))>>
                    \o [k \in DOMAIN tx.payloads |-> MarshalHeaderStatement(tx.payloads[k])])
      [] f = "scdata" -> Put(PutUvarint(Len(tx.scdata)) \o tx.scdata)

SerializeHeader(tx) ==
    LET fields == HeaderWritten(tx.type)
    IN  Writes([k \in DOMAIN fields |-> PutField(tx, fields[k])])

TxSerialize(tx) ==
    Writes(<<SerializeHeader(tx)>>
             \o [k \in DOMAIN tx.payloads |-> ProofSerialize(tx.payloads[k].proof)])

\* Mutant: the value of an SC transaction is not read.
HeaderReadNoValue(type) ==
    If(type = Premine, <<"value">>)
        \o If(type \in {Premine, Coinbase, Registration}, <<"minerAddress">>)
        \o If(type = Registration, <<"c", "s">>)
        \o If(type \in {Burn, Normal, Sc}, <<"height", "blid", "payloads">>)
        \o If(type = Sc, <<"scdata">>)

\* The fields deserialize reads after the type.
HeaderRead(type) ==
    If(type \in {Premine, Sc}, <<"value">>)
        \o If(type \in {Premine, Coinbase, Registration}, <<"minerAddress">>)
        \o If(type = Registration, <<"c", "s">>)
        \o If(type \in {Burn, Normal, Sc}, <<"height", "blid", "payloads">>)
        \o If(type = Sc, <<"scdata">>)

ReadPayloads(rest) ==
    Then(Check(Rv(rest), LAMBDA n : n >= 1),
         LAMBDA n, after : ReadMany(UnmarshalHeaderStatement, n, after))

\* The arguments are parsed and kept in their canonical form.
ReadScdata(rest) ==
    Check(Then(Rv(rest), LAMBDA size, after :
            Then(Take(after, size), LAMBDA raw, end : Got(UnmarshalBinary(raw), end))),
          LAMBDA args : args # <<>>)

TxField(f, tx, rest) ==
    CASE f = "version" -> Check(Rv(rest), LAMBDA v : v = 1)
      [] f = "type" -> Check(Rv(rest), LAMBDA v : v <= Sc)
      [] f \in {"source", "dest", "value", "height"} -> Rv(rest)
      [] f = "minerAddress" -> Take(rest, PointBytes)
      [] f \in {"c", "s", "blid"} -> Take(rest, Digest)
      [] f = "payloads" -> ReadPayloads(rest)
      [] f = "scdata" -> ReadScdata(rest)

ZeroArray(n) == [k \in 1 .. n |-> 0]

DefaultTx ==
    [version |-> 1, source |-> 0, dest |-> 0, type |-> Coinbase, value |-> 0,
     minerAddress |-> ZeroArray(PointBytes), c |-> ZeroArray(Digest), s |-> ZeroArray(Digest),
     height |-> 0, blid |-> ZeroArray(Digest), payloads |-> <<>>, scdata |-> <<>>]

\* The proofs of the payloads, after the whole header.
ReadProofs(tx, rest) ==
    FoldLeft(LAMBDA st, k :
                Then(st, LAMBDA sofar, left :
                  Then(UnmarshalProofs(sofar.payloads[k], left),
                       LAMBDA p, after : Got([sofar EXCEPT !.payloads[k] = p], after))),
             Got(tx, rest), [k \in 1 .. Len(tx.payloads) |-> k])

\* Trailing bytes are left to the caller for premine and coinbase only.
TxDeserialize(buf) ==
    Then(Then(ReadFields(TxField, <<"version", "source", "dest", "type">>, DefaultTx, buf),
              LAMBDA tx, rest : Then(ReadFields(TxField, HeaderRead(tx.type), tx, rest), ReadProofs)),
         LAMBDA tx, rest :
           IF rest # <<>> /\ tx.type \notin {Premine, Coinbase} THEN Err ELSE Got(tx, rest))

=============================================================================
