----------------------------- MODULE Sha2Rounds -----------------------------
(***************************************************************************)
(* The compression functions of sha256.c and sha512.c, round by round:     *)
(* the scalar form (sha*_hash_block) that renames the working variables    *)
(* instead of moving them and recomputes its sixteen schedule words in     *)
(* place after each sixteen rounds, and OpenSSL's form (sha*_block_data_   *)
(* order) that recomputes a word just before it is used.  The operations   *)
(* on words are parameters: what is proved does not depend on them.        *)
(***************************************************************************)
EXTENDS Integers

CONSTANTS
  Words,
  Plus(_, _),                  \* addition of words
  SUM_0(_), SUM_1(_), SIGMA_0(_), SIGMA_1(_), CH(_, _, _), MAJ(_, _, _),
  K,                           \* the constants, from 0
  Rounds,                      \* 64 or 80
  Messages,                    \* the blocks to hash: functions on 0..15
  Hashes                       \* the chaining values: functions on 0..7

ASSUME PlusAssumption ==
  /\ \A x, y \in Words : Plus(x, y) \in Words /\ Plus(x, y) = Plus(y, x)
  /\ \A x, y, z \in Words : Plus(x, Plus(y, z)) = Plus(Plus(x, y), z)

ASSUME WordAssumption ==
  /\ \A x \in Words : /\ SUM_0(x) \in Words /\ SUM_1(x) \in Words
                      /\ SIGMA_0(x) \in Words /\ SIGMA_1(x) \in Words
  /\ \A x, y, z \in Words : CH(x, y, z) \in Words /\ MAJ(x, y, z) \in Words

ASSUME RoundAssumption ==
  /\ Rounds \in Nat \ {0} /\ Rounds % 16 = 0
  /\ K \in [0..(Rounds - 1) -> Words]
  /\ Messages \subseteq [0..15 -> Words]
  /\ Hashes \subseteq [0..7 -> Words]

VARIABLES
  form,    \* which function runs: "scalar" or "openssl"
  t,       \* rounds done
  nw,      \* words of the schedule computed so far
  regs,    \* a .. h, as the code names them
  m,       \* the sixteen schedule words: m0 .. mf, X[0] .. X[15]
  hash,    \* H, ctx->h
  w, v,    \* ghost: the standard's schedule and working variables
  hash0    \* ghost: the chaining value at the start

vars == <<form, t, nw, regs, m, hash, w, v, hash0>>

------------------------------------------------------------------------------
(* FIPS 180-4, 6.2.2 and 6.4.2: the schedule W_0, W_1 .. and the variables *)
(* a .. h (0 .. 7), moved in every round                                   *)

NextW(s, i) ==
  Plus(Plus(Plus(SIGMA_1(s[i - 2]), s[i - 7]), SIGMA_0(s[i - 15])), s[i - 16])

Moved(x, k, wt) ==
  LET T1 == Plus(Plus(Plus(Plus(x[7], SUM_1(x[4])), CH(x[4], x[5], x[6])), k), wt)
      T2 == Plus(SUM_0(x[0]), MAJ(x[0], x[1], x[2]))
  IN [j \in 0..7 |-> IF j = 0 THEN Plus(T1, T2)
                     ELSE IF j = 4 THEN Plus(x[3], T1) ELSE x[j - 1]]

------------------------------------------------------------------------------
(* The macros of the code: each adds in its own order                      *)

(* the register that plays a (0) .. h (7) in round i                       *)
Role(i, j) == (j - i) % 8

(* Mutant: d is updated with the finished h.                               *)
ROUND_Late(r, i, k, wt) ==
  LET at(j) == r[Role(i, j)]
      h == Plus(Plus(Plus(Plus(at(7), SUM_1(at(4))), CH(at(4), at(5), at(6))), k), wt)
      a == Plus(Plus(h, SUM_0(at(0))), MAJ(at(0), at(1), at(2)))
  IN [r EXCEPT ![Role(i, 3)] = Plus(at(3), a), ![Role(i, 7)] = a]

ROUND(r, i, k, wt) ==
  LET at(j) == r[Role(i, j)]
      h == Plus(Plus(Plus(Plus(at(7), SUM_1(at(4))), CH(at(4), at(5), at(6))), k), wt)
  IN [r EXCEPT ![Role(i, 3)] = Plus(at(3), h),
               ![Role(i, 7)] = Plus(Plus(h, SUM_0(at(0))), MAJ(at(0), at(1), at(2)))]

(* Mutant: seven words on instead of nine.                                 *)
SCHEDULE_Seven(x, i) ==
  Plus(Plus(Plus(SIGMA_1(x[(i + 14) % 16]), x[(i + 7) % 16]),
            SIGMA_0(x[(i + 1) % 16])), x[i % 16])

SCHEDULE(x, i) ==
  Plus(Plus(Plus(SIGMA_1(x[(i + 14) % 16]), x[(i + 9) % 16]),
            SIGMA_0(x[(i + 1) % 16])), x[i % 16])

(* T1 holds the word when the macro starts                                 *)
ROUND_00_15(r, i, k, wt) ==
  LET at(j) == r[Role(i, j)]
      T1 == Plus(wt, Plus(Plus(Plus(at(7), SUM_1(at(4))), CH(at(4), at(5), at(6))), k))
  IN [r EXCEPT ![Role(i, 3)] = Plus(at(3), T1),
               ![Role(i, 7)] = Plus(Plus(SUM_0(at(0)), MAJ(at(0), at(1), at(2))), T1)]

ROUND_16_63(x, i) ==
  Plus(x[i % 16], Plus(Plus(SIGMA_0(x[(i + 1) % 16]), SIGMA_1(x[(i + 14) % 16])),
                       x[(i + 9) % 16]))

------------------------------------------------------------------------------

Init ==
  /\ form \in {"scalar", "openssl"} /\ t = 0 /\ nw = 16
  /\ m \in Messages /\ hash \in Hashes
  /\ regs = hash /\ w = m /\ v = hash /\ hash0 = hash

(* the ghosts                                                              *)
WordComputed ==
  /\ nw' = nw + 1
  /\ w' = [i \in 0..nw |-> IF i < nw THEN w[i] ELSE NextW(w, nw)]

(* sixteen rounds, and sixteen SCHEDULEs unless they were the last         *)
ScalarRound ==
  /\ form = "scalar" /\ t < nw /\ nw % 16 = 0
  /\ regs' = ROUND(regs, t, K[t], m[t % 16])
  /\ t' = t + 1 /\ v' = Moved(v, K[t], w[t])
  /\ UNCHANGED <<form, nw, m, w, hash, hash0>>

ScalarSchedule ==
  /\ form = "scalar" /\ t < Rounds /\ (t = nw \/ nw % 16 # 0)
  /\ m' = [m EXCEPT ![nw % 16] = SCHEDULE(m, nw)]
  /\ WordComputed
  /\ UNCHANGED <<form, t, regs, v, hash, hash0>>

(* the first sixteen rounds                                                *)
OpensslFirst ==
  /\ form = "openssl" /\ t < 16
  /\ regs' = ROUND_00_15(regs, t, K[t], m[t])
  /\ t' = t + 1 /\ v' = Moved(v, K[t], w[t])
  /\ UNCHANGED <<form, nw, m, w, hash, hash0>>

OpensslRound ==
  /\ form = "openssl" /\ t \in 16..(Rounds - 1)
  /\ m' = [m EXCEPT ![t % 16] = ROUND_16_63(m, t)]
  /\ regs' = ROUND_00_15(regs, t, K[t], m'[t % 16])
  /\ WordComputed
  /\ t' = t + 1 /\ v' = Moved(v, K[t], w'[t])
  /\ UNCHANGED <<form, hash, hash0>>

(* Mutant: the registers are added in the order of the last round.         *)
AddBack_Roles ==
  /\ t = Rounds /\ t' = Rounds + 1
  /\ hash' = [j \in 0..7 |-> Plus(hash[j], regs[Role(t - 1, j)])]
  /\ UNCHANGED <<form, nw, regs, m, w, v, hash0>>

AddBack ==
  /\ t = Rounds /\ t' = Rounds + 1
  /\ hash' = [j \in 0..7 |-> Plus(hash[j], regs[j])]
  /\ UNCHANGED <<form, nw, regs, m, w, v, hash0>>

Done == t = Rounds + 1 /\ UNCHANGED vars

Next == \/ ScalarRound \/ ScalarSchedule \/ OpensslFirst \/ OpensslRound
        \/ AddBack \/ Done

Spec == Init /\ [][Next]_vars

------------------------------------------------------------------------------
(* Renamed instead of moved: the register that will play a role in the     *)
(* next round holds the standard's variable of that role.                  *)
RegistersRotated == \A j \in 0..7 : t <= Rounds => regs[Role(t, j)] = v[j]

(* A word is overwritten only when no later round or word needs it: the    *)
(* ring holds the last sixteen words of the standard's schedule, and the   *)
(* next round's is one of them.                                            *)
RingIsSchedule ==
  /\ \A i \in (nw - 16)..(nw - 1) : m[i % 16] = w[i]
  /\ t < Rounds => t >= nw - 16 /\ t <= nw

(* The block function returns what the standard computes.                  *)
ReturnsStandard ==
  t = Rounds + 1 => hash = [j \in 0..7 |-> Plus(hash0[j], v[j])]
=============================================================================
