--------------------------------- MODULE SRP6 ---------------------------------
(***************************************************************************)
(* The arithmetic of the login: the verifier of an account, the ephemeral  *)
(* key B of the server, and what both sides derive the session key from.   *)
(* Only operators: no state.  A digest is the sequence of bytes it was     *)
(* made of, or, where it is an exponent, any number.                       *)
(***************************************************************************)
EXTENDS Integers, Sequences, SequencesExt

CONSTANTS g, N,        \* a generator, and the prime it is one for
          KEY_LENGTH   \* EPHEMERAL_KEY_LENGTH, which is even

ASSUME SRP6Assumption == g \in 2..(N - 1) /\ N \in Nat /\ KEY_LENGTH \in Nat /\ KEY_LENGTH % 2 = 0

\* b^e mod m.
ModExp(b, e, m) ==
    LET pow[i \in 0..e] == IF i = 0 THEN 1 % m ELSE (b * pow[i - 1]) % m IN pow[e]

\* x is the digest of salt, user and password.
CalculateVerifier(x) == ModExp(g, x, N)

\* A plausible bug of _B: the multiplier of the verifier is that of plain SRP6a
\* with k = 1.
EphemeralBPlain(b, v) == (ModExp(g, b, N) + v) % N

\* _B.
EphemeralB(b, v) == (ModExp(g, b, N) + v * 3) % N

\* S in VerifyChallengeResponse; u is the digest of A and B.
ServerS(A, u, b, v) == ModExp(A * ModExp(v, u, N), b, N)

\* The S of a client that has made A = g^a and knows x.
ClientS(B, a, u, x) == ModExp((B + 3 * (N - ModExp(g, x, N))) % N, a + u * x, N)

\* Every second byte of S, from its first one or from its second one.
Half(S, odd) == [i \in 1..(Len(S) \div 2) |-> S[2 * i - 1 + odd]]
Drop(s, n) == SubSeq(s, n + 1, Len(s))

\* The number of zero bytes in front.
LeadingZeros(S) ==
    LET i == SelectInSeq(S, LAMBDA x : x # 0) IN IF i = 0 THEN Len(S) ELSE i - 1

\* A plausible bug of SHA1Interleave: an odd number of zeros is rounded down.
SHA1InterleaveDown(S) ==
    LET p == LeadingZeros(S) \div 2
    IN  <<Drop(Half(S, 0), p), Drop(Half(S, 1), p)>>

\* What the two digests are made of whose bytes alternate in the key.
SHA1Interleave(S) ==
    LET p == (LeadingZeros(S) + 1) \div 2
    IN  <<Drop(Half(S, 0), p), Drop(Half(S, 1), p)>>

-----------------------------------------------------------------------------
(* What they must satisfy; LoginService states it for proven sessions.     *)

Exponents == 1..(N - 1)

\* Client and server have the same S whatever the password and the random
\* numbers are.
SameS == \A x, a, b, u \in Exponents :
            LET v == CalculateVerifier(x)
            IN  ServerS(ModExp(g, a, N), u, b, v) = ClientS(EphemeralB(b, v), a, u, x)

\* RFC 2945: the bytes behind the leading zeros, one less if they are odd in
\* number, are dealt out alternately, and both halves are used up.
DealtOut(S) ==
    LET t == Drop(S, LeadingZeros(S))
        rest == IF Len(t) % 2 = 1 THEN Tail(t) ELSE t
        h == SHA1Interleave(S)
    IN  /\ Len(h[1]) = Len(h[2])
        /\ rest = [i \in 1..(2 * Len(h[1])) |->
                     IF i % 2 = 1 THEN h[1][(i + 1) \div 2] ELSE h[2][i \div 2]]

Interleaved == \A S \in [1..KEY_LENGTH -> {0, 1, 2}] : DealtOut(S)
=============================================================================
