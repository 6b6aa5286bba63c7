---------------------------- MODULE Sha256Digest ----------------------------
(***************************************************************************)
(* SHA256/src/main.rs: how digest cuts the data into blocks and pads the   *)
(* last, against FIPS 180-4, section 5.1.1.  deal_one is not interpreted   *)
(* here (Sha256Test does): a digest is the sequence of the blocks          *)
(* that it is given.  Data bytes are told apart by their position.         *)
(***************************************************************************)
EXTENDS Integers, Sequences

Byte(v) == <<"byte", v>>
Zeros(n) == [i \in 1..n |-> Byte(0)]
Bytes(len) == [i \in 1..len |-> <<"data", i>>]

\* u64::to_be_bytes.
BigEndian(bits) ==
  LET from[i \in 1..8] == IF i = 8 THEN bits ELSE from[i + 1] \div 256
  IN [i \in 1..8 |-> Byte(from[i] % 256)]

\* data, from byte `first` on, in blocks of 64.
Blocks(data, first, n) == [b \in 1..n |-> SubSeq(data, first + 64 * (b - 1), first + 64 * b - 1)]

Default == [dealt |-> <<>>, completed_data_blocks |-> 0, pending |-> Zeros(64), num_pending |-> 0]

\* pending[0..n] = bytes, the rest stays.
Overwrite(block, at, bytes) ==
  [i \in DOMAIN block |-> IF i - at \in DOMAIN bytes THEN bytes[i - at] ELSE block[i]]

\* How many blocks are dealt with before the last, of 1 to 64 bytes, which stays
\* pending; -1 for no data at all.
BlockNum(len) == IF len % 64 = 0 THEN len \div 64 - 1 ELSE len \div 64

DealBlock(sha, data) ==
  LET n == BlockNum(Len(data))
  IN [dealt |-> sha.dealt \o Blocks(data, 1, n),
      completed_data_blocks |-> sha.completed_data_blocks + n,
      num_pending |-> Len(data) - 64 * n,
      pending |-> Overwrite(sha.pending, 0, SubSeq(data, 64 * n + 1, Len(data)))]

\* 57 bytes and the 0x80 leave no room for the length.
DealRemainTight(sha) ==
  LET bits == sha.completed_data_blocks * 512 + sha.num_pending * 8
      n == IF sha.num_pending <= 56 THEN 1 ELSE 2
      padded == Overwrite(sha.pending \o Zeros(64 * (n - 1)), sha.num_pending, <<Byte(128)>>)
  IN sha.dealt \o Blocks(Overwrite(padded, 64 * n - 8, BigEndian(bits)), 1, n)

\* One block if the 0x80 and the length fit behind what is pending, else two.
DealRemain(sha) ==
  LET bits == sha.completed_data_blocks * 512 + sha.num_pending * 8
      n == IF sha.num_pending < 56 THEN 1 ELSE 2
      padded == Overwrite(sha.pending \o Zeros(64 * (n - 1)), sha.num_pending, <<Byte(128)>>)
  IN sha.dealt \o Blocks(Overwrite(padded, 64 * n - 8, BigEndian(bits)), 1, n)

\* The subtraction of 1 or, without overflow checks, the assertion behind it panics
\* before any block has been dealt with.
Panic == <<>>
Digest(data) ==
  IF BlockNum(Len(data)) < 0 THEN Panic ELSE DealRemain(DealBlock(Default, data))

-----------------------------------------------------------------------------
\* The standard: the data, one bit and the fewest zeros that leave 64 bits of the last
\* block for the length.
FipsPadded(len) ==
  LET k == CHOOSE k \in 0..63 : (len + 1 + k + 8) % 64 = 0
  IN Bytes(len) \o <<Byte(128)>> \o Zeros(k) \o BigEndian(8 * len)
FipsBlocks(len) == Blocks(FipsPadded(len), 1, Len(FipsPadded(len)) \div 64)

\* The blocks are those of the standard for every length but 0, of which the standard
\* defines a digest and the code panics.
PaddedAsInTheStandard(len) ==
  Digest(Bytes(len)) = IF len = 0 THEN Panic ELSE FipsBlocks(len)
=============================================================================
