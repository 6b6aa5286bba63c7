---------------------------- MODULE Sha256Test -----------------------------
(***************************************************************************)
(* SHA256/src/main.rs: test_sha, which prints the digest of a line, and    *)
(* deal_one turn by turn, on the blocks that Sha256Digest cuts.  A u32 is  *)
(* a pair of 16-bit halves: TLC's integers have 32 bits with the sign.     *)
(***************************************************************************)
EXTENDS Sha256Digest, Bitwise

CONSTANT Lines    \* what read_line may give, the newline included if there is one

VARIABLES
  stage,    \* of test_sha: "off" (not run), "read", "schedule", "round", "printed", "panicked"
  input,     \* the line without its last byte
  rest,     \* the blocks that deal_one has still to be given, the present one first
  state,    \* self.state
  w, s,     \* the schedule and the copy of the state in deal_one
  round     \* the index of its second loop

testVars == <<stage, input, rest, state, w, s, round>>

Half == 2^16

WrappingAdd(x, y) ==
  <<(x[1] + y[1] + (x[2] + y[2]) \div Half) % Half, (x[2] + y[2]) % Half>>
Xor2(x, y) == <<x[1] ^^ y[1], x[2] ^^ y[2]>>
And2(x, y) == <<x[1] & y[1], x[2] & y[2]>>
Not2(x) == <<Half - 1 - x[1], Half - 1 - x[2]>>
Sum4(a, b, c, d) == WrappingAdd(WrappingAdd(a, b), WrappingAdd(c, d))
Xor3(x, y, z) == Xor2(Xor2(x, y), z)

\* x >> n for n < 16.
Shift(x, n) == <<x[1] \div 2^n, x[2] \div 2^n + (x[1] % 2^n) * 2^(16 - n)>>

RotateRight(x, n) ==
  LET y == IF n < 16 THEN x ELSE <<x[2], x[1]>>
      k == n % 16
  IN <<y[1] \div 2^k + (y[2] % 2^k) * 2^(16 - k), y[2] \div 2^k + (y[1] % 2^k) * 2^(16 - k)>>

K == <<
  <<\h428a, \h2f98>>, <<\h7137, \h4491>>, <<\hb5c0, \hfbcf>>, <<\he9b5, \hdba5>>,
  <<\h3956, \hc25b>>, <<\h59f1, \h11f1>>, <<\h923f, \h82a4>>, <<\hab1c, \h5ed5>>,
  <<\hd807, \haa98>>, <<\h1283, \h5b01>>, <<\h2431, \h85be>>, <<\h550c, \h7dc3>>,
  <<\h72be, \h5d74>>, <<\h80de, \hb1fe>>, <<\h9bdc, \h06a7>>, <<\hc19b, \hf174>>,
  <<\he49b, \h69c1>>, <<\hefbe, \h4786>>, <<\h0fc1, \h9dc6>>, <<\h240c, \ha1cc>>,
  <<\h2de9, \h2c6f>>, <<\h4a74, \h84aa>>, <<\h5cb0, \ha9dc>>, <<\h76f9, \h88da>>,
  <<\h983e, \h5152>>, <<\ha831, \hc66d>>, <<\hb003, \h27c8>>, <<\hbf59, \h7fc7>>,
  <<\hc6e0, \h0bf3>>, <<\hd5a7, \h9147>>, <<\h06ca, \h6351>>, <<\h1429, \h2967>>,
  <<\h27b7, \h0a85>>, <<\h2e1b, \h2138>>, <<\h4d2c, \h6dfc>>, <<\h5338, \h0d13>>,
  <<\h650a, \h7354>>, <<\h766a, \h0abb>>, <<\h81c2, \hc92e>>, <<\h9272, \h2c85>>,
  <<\ha2bf, \he8a1>>, <<\ha81a, \h664b>>, <<\hc24b, \h8b70>>, <<\hc76c, \h51a3>>,
  <<\hd192, \he819>>, <<\hd699, \h0624>>, <<\hf40e, \h3585>>, <<\h106a, \ha070>>,
  <<\h19a4, \hc116>>, <<\h1e37, \h6c08>>, <<\h2748, \h774c>>, <<\h34b0, \hbcb5>>,
  <<\h391c, \h0cb3>>, <<\h4ed8, \haa4a>>, <<\h5b9c, \hca4f>>, <<\h682e, \h6ff3>>,
  <<\h748f, \h82ee>>, <<\h78a5, \h636f>>, <<\h84c8, \h7814>>, <<\h8cc7, \h0208>>,
  <<\h90be, \hfffa>>, <<\ha450, \h6ceb>>, <<\hbef9, \ha3f7>>, <<\hc671, \h78f2>>>>

InitialState == <<
  <<\h6a09, \he667>>, <<\hbb67, \hae85>>, <<\h3c6e, \hf372>>, <<\ha54f, \hf53a>>,
  <<\h510e, \h527f>>, <<\h9b05, \h688c>>, <<\h1f83, \hd9ab>>, <<\h5be0, \hcd19>>>>

\* from_be_bytes of the block's i-th four bytes.
Word(block, i) ==
  LET byte(n) == IF block[n][1] = "byte" THEN block[n][2] ELSE input[block[n][2]]
  IN <<byte(4*i - 3) * 256 + byte(4*i - 2), byte(4*i - 1) * 256 + byte(4*i)>>

TestInit ==
  /\ stage = "read" /\ input = <<>> /\ rest = <<>>
  /\ state = InitialState /\ w = <<>> /\ s = InitialState /\ round = 0

\* line.pop() takes the last byte, newline or not; digest then cuts the blocks.
ReadLine ==
  /\ stage = "read"
  /\ \E line \in Lines : input' = IF line = <<>> THEN <<>> ELSE SubSeq(line, 1, Len(line) - 1)
  /\ rest' = Digest(Bytes(Len(input')))
  /\ stage' = IF rest' = Panic THEN "panicked" ELSE "schedule"
  /\ UNCHANGED <<state, w, s, round>>

\* The first words are the block's, the others follow from them, one a turn.
Schedule ==
  /\ stage = "schedule"
  /\ IF w = <<>>
     THEN w' = [i \in 1..16 |-> Word(Head(rest), i)] /\ UNCHANGED stage
     ELSE LET n == Len(w) + 1
              a == w[n - 15]
              b == w[n - 2]
              s0 == Xor3(RotateRight(a, 7), RotateRight(a, 18), Shift(a, 3))
              s1 == Xor3(RotateRight(b, 17), RotateRight(b, 19), Shift(b, 10))
          IN /\ w' = Append(w, Sum4(w[n - 16], s0, w[n - 7], s1))
             /\ stage' = IF n = 64 THEN "round" ELSE stage
  /\ UNCHANGED <<input, rest, state, s, round>>

\* One turn of the second loop, with the given ch.
RoundWith(ch) ==
  LET maj == Xor3(And2(s[1], s[2]), And2(s[1], s[3]), And2(s[2], s[3]))
      s0 == Xor3(RotateRight(s[1], 2), RotateRight(s[1], 13), RotateRight(s[1], 22))
      s1 == Xor3(RotateRight(s[5], 6), RotateRight(s[5], 11), RotateRight(s[5], 25))
      t0 == WrappingAdd(Sum4(s[8], s1, ch, K[round + 1]), w[round + 1])
  IN /\ stage = "round" /\ round < 64
     /\ s' = <<WrappingAdd(t0, WrappingAdd(s0, maj)), s[1], s[2], s[3],
               WrappingAdd(s[4], t0), s[5], s[6], s[7]>>
     /\ round' = round + 1
     /\ UNCHANGED <<stage, input, rest, state, w>>

\* The second and the third of the words that ch mixes, the wrong way round.
RoundSwapped == RoundWith(Xor2(And2(s[5], s[7]), And2(Not2(s[5]), s[6])))
Round == RoundWith(Xor2(And2(s[5], s[6]), And2(Not2(s[5]), s[7])))

\* The state takes the copy in; deal_one returns, to be given the next block or to
\* have the state printed, every word with its bytes in order (to_be).
AddToState ==
  /\ stage = "round" /\ round = 64
  /\ state' = [i \in 1..8 |-> WrappingAdd(state[i], s[i])]
  /\ s' = state' /\ w' = <<>> /\ round' = 0 /\ rest' = Tail(rest)
  /\ stage' = IF rest' = <<>> THEN "printed" ELSE "schedule"
  /\ UNCHANGED input

TestNext == ReadLine \/ Schedule \/ Round \/ AddToState

-----------------------------------------------------------------------------
\* Messages of the examples of FIPS 180-4, of one, two and two blocks (the second has
\* its length in a block of padding, the third behind a block of its own), and "ab".
Abc == <<97, 98, 99>>
Ab == <<97, 98>>
AbcdToNopq == [i \in 1..56 |-> 97 + (i - 1) \div 4 + ((i - 1) % 4)]
AbcdefghToStu == [i \in 1..112 |-> 97 + (i - 1) \div 8 + ((i - 1) % 8)]

StandardDigest(message) ==
  CASE message = Abc -> <<
     <<\hba78, \h16bf>>, <<\h8f01, \hcfea>>, <<\h4141, \h40de>>, <<\h5dae, \h2223>>,
     <<\hb003, \h61a3>>, <<\h9617, \h7a9c>>, <<\hb410, \hff61>>, <<\hf200, \h15ad>>>>
    [] message = Ab -> <<
     <<\hfb8e, \h20fc>>, <<\h2e4c, \h3f24>>, <<\h8c60, \hc39b>>, <<\hd652, \hf3c1>>,
     <<\h3472, \h98bb>>, <<\h977b, \h8b4d>>, <<\h5903, \hb850>>, <<\h5562, \h0603>>>>
    [] message = AbcdToNopq -> <<
     <<\h248d, \h6a61>>, <<\hd206, \h38b8>>, <<\he5c0, \h2693>>, <<\h0c3e, \h6039>>,
     <<\ha33c, \he459>>, <<\h64ff, \h2167>>, <<\hf6ec, \hedd4>>, <<\h19db, \h06c1>>>>
    [] message = AbcdefghToStu -> <<
     <<\hcf5b, \h16a7>>, <<\h78af, \h8380>>, <<\h036c, \he59e>>, <<\h7b04, \h9237>>,
     <<\h0b24, \h9b11>>, <<\he8f0, \h7a51>>, <<\hafac, \h4503>>, <<\h7afe, \he9d1>>>>

\* test_sha prints the standard's digest of the line without its last byte, which is
\* its newline unless the input ends there, and panics if nothing is left.
DigestIsFips ==
  /\ stage = "printed" => input # <<>> /\ state = StandardDigest(input)
  /\ stage = "panicked" => input = <<>>
=============================================================================
