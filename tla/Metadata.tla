------------------------------ MODULE Metadata ------------------------------
(***************************************************************************)
(* The chainstate record of a transaction: SerializeTXMetadata in          *)
(* core/transaction.go writes it, core/txmetadata_reader.go reads it.  The *)
(* outputs left unspent are marked in a vector of bits, packed into bytes  *)
(* from the last one back, and only they have their value in the record.   *)
(* Numbers and the layout of the other fields are left out.                *)
(***************************************************************************)
EXTENDS Integers, Sequences

CONSTANT ByteSize  \* bits in a byte, 8

ASSUME MetadataAssumption == ByteSize \in Nat \ {0}

NoOfBytes(n) == (n + ByteSize - 1) \div ByteSize

\* utils.SerializeToOneHot: data is a sequence of Booleans.
SerializeToOneHot(data) ==
  LET packed[i \in 0 .. Len(data)] ==  \* after i elements
        IF i = 0
        THEN [res |-> [j \in 1 .. NoOfBytes(Len(data)) |-> 0],
              tempb |-> 0, bit |-> 0, pos |-> NoOfBytes(Len(data))]
        ELSE LET s == packed[i - 1]
                 b == s.tempb + (IF data[i] THEN 2 ^ s.bit ELSE 0)
             IN  IF s.bit = ByteSize - 1
                 THEN [res |-> [s.res EXCEPT ![s.pos] = b],
                       tempb |-> 0, bit |-> 0, pos |-> s.pos - 1]
                 ELSE [s EXCEPT !.tempb = b, !.bit = @ + 1]
      end == packed[Len(data)]
  IN  IF end.tempb = 0 THEN end.res ELSE [end.res EXCEPT ![end.pos] = end.tempb]

\* The places where vec is TRUE, as a loop over it collects them.
Marked(vec) ==
  LET upTo[i \in 0 .. Len(vec)] ==
        IF i = 0 THEN <<>>
        ELSE IF vec[i] THEN Append(upTo[i - 1], i) ELSE upTo[i - 1]
  IN  upTo[Len(vec)]

\* t is [isCoinbase, height, outs], an output is [value, isNotSpent].
SerializeTXMetadata(t) ==
  LET unspent == [i \in DOMAIN t.outs |-> t.outs[i].isNotSpent]
  IN  [isCoinbase  |-> t.isCoinbase,
       height      |-> t.height,
       noOfOutputs |-> Len(t.outs),
       vector      |-> SerializeToOneHot(unspent),
       values      |-> [i \in DOMAIN Marked(unspent) |-> t.outs[Marked(unspent)[i]].value]]

\* Mutant: reads the bytes from the first one on.
BitIsSet_Forward(m, v) ==
  (m.vector[1 + v \div ByteSize] \div 2 ^ (v % ByteSize)) % 2 = 1

\* ReadBitVector, for the output v, and the vouts it collects.
BitIsSet(m, v) ==
  (m.vector[NoOfBytes(m.noOfOutputs) - v \div ByteSize] \div 2 ^ (v % ByteSize)) % 2 = 1

Vouts(m) ==
  LET unspent == Marked([i \in 1 .. m.noOfOutputs |-> BitIsSet(m, i - 1)])
  IN  [i \in DOMAIN unspent |-> unspent[i] - 1]

ReadOutputs(m) ==
  [i \in DOMAIN Vouts(m) |-> [vout |-> Vouts(m)[i], value |-> m.values[i]]]

=============================================================================
