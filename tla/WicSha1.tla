------------------------------ MODULE WicSha1 ------------------------------
(***************************************************************************)
(* SHA-1 of a message in blocks: what internal_sha1_process (src/wic.c)    *)
(* does in each of its 80 rounds, with five registers that keep their      *)
(* places and sixteen words that are overwritten in turn, and, beside it,  *)
(* the function as FIPS 180 defines it, with registers that move and a     *)
(* schedule of 80 words.  WicWire cuts messages into blocks.               *)
(*                                                                         *)
(* A word of 32 bits is the pair of its halves.                            *)
(***************************************************************************)
EXTENDS Naturals, Sequences, TLC, Bitwise

CONSTANTS
    Messages,  \* messages to hash, as blocks of 16 words
    Known      \* pairs of a message and the hash published for it

Half == 0 .. 65535

\* What TLC is asked to check of them.
MessageTypes ==
    /\ Messages \subseteq Seq([0 .. 15 -> Half \X Half])
    /\ \A k \in Known : k[1] \in Messages

VARIABLES
    busy,  \* a message is being hashed
    hash,  \* internal_sha1_process at work: the state, the blocks to do, and
           \* the round, registers and words of the one it is doing
    fips   \* the message, and registers and schedule of FIPS 180

vars == <<busy, hash, fips>>

----------------------------------------------------------------------------
(* Words.                                                                  *)

XorW(x, y) == <<x[1] ^^ y[1], x[2] ^^ y[2]>>
AndW(x, y) == <<x[1] & y[1], x[2] & y[2]>>
OrW(x, y)  == <<x[1] | y[1], x[2] | y[2]>>
NotW(x)    == <<65535 - x[1], 65535 - x[2]>>
AddW(x, y) ==
    LET low == x[2] + y[2]
    IN  <<(x[1] + y[1] + (low \div 65536)) % 65536, low % 65536>>

\* The macro S, for 1 to 15 and for 30 places.
RotateLess(x, n) ==
    <<((x[1] * 2 ^ n) % 65536) + (x[2] \div 2 ^ (16 - n)),
      ((x[2] * 2 ^ n) % 65536) + (x[1] \div 2 ^ (16 - n))>>
Rotate(x, n) ==
    IF n < 16 THEN RotateLess(x, n) ELSE RotateLess(<<x[2], x[1]>>, n - 16)

\* The macro F of each group of 20 rounds.
RoundF(t, x, y, z) ==
    CASE t \div 20 = 0 -> XorW(z, AndW(x, XorW(y, z)))
      [] t \div 20 = 2 -> OrW(AndW(x, y), AndW(z, OrW(x, y)))
      [] OTHER -> XorW(x, XorW(y, z))

\* The macro K.
RoundK(t) ==
    CASE t \div 20 = 0 -> <<23170, 31129>>
      [] t \div 20 = 1 -> <<28377, 60321>>
      [] t \div 20 = 2 -> <<36635, 48348>>
      [] t \div 20 = 3 -> <<51810, 49622>>

\* Faulty: the word that is overwritten is left out.
NextWordShort(w, t) ==
    Rotate(XorW(w[(t + 13) % 16], XorW(w[(t + 8) % 16], w[(t + 2) % 16])), 1)

\* The macro R: the word of round t, from the sixteen before it.
NextWord(w, t) ==
    Rotate(XorW(XorW(w[(t + 13) % 16], w[(t + 8) % 16]),
                XorW(w[(t + 2) % 16], w[t % 16])), 1)

\* The place of the k-th parameter of P in round t: each round the names of
\* the registers move on by one.
Place(t, k) == (k + 80 - t) % 5

\* The macro P.
P(regs, t, word) ==
    LET r(k) == regs[Place(t, k)]
        sum == AddW(AddW(r(4), Rotate(r(0), 5)),
                    AddW(RoundF(t, r(1), r(2), r(3)), AddW(RoundK(t), word)))
    IN  [regs EXCEPT ![Place(t, 4)] = sum, ![Place(t, 1)] = Rotate(@, 30)]

----------------------------------------------------------------------------
(* FIPS 180, section 6.1.2, of a block of words 0 .. 15.                   *)

FipsF(t, x, y, z) ==
    CASE t < 20 -> XorW(AndW(x, y), AndW(NotW(x), z))
      [] t \in (20 .. 39) \cup (60 .. 79) -> XorW(XorW(x, y), z)
      [] t \in 40 .. 59 ->
            XorW(XorW(AndW(x, y), AndW(x, z)), AndW(y, z))

\* One step: the registers move, and the schedule of words w[0], w[1] .. is
\* made as it goes.
FipsWord(words, t) ==
    IF t < 16 THEN words[t]
    ELSE Rotate(XorW(XorW(words[t - 3], words[t - 8]),
                     XorW(words[t - 14], words[t - 16])), 1)

FipsStep(u, t, word) ==
    [i \in 0 .. 4 |->
       CASE i = 0 -> AddW(AddW(Rotate(u[0], 5), FipsF(t, u[1], u[2], u[3])),
                          AddW(AddW(u[4], RoundK(t)), word))
         [] i = 2 -> Rotate(u[1], 30)
         [] OTHER -> u[i - 1]]
----------------------------------------------------------------------------
(* The rounds.                                                             *)

\* sha1_starts_ret.
Sha1State == [i \in 0 .. 4 |->
    <<<<26437, 8961>>, <<61389, 43913>>, <<39098, 56574>>, <<4146, 21622>>,
      <<50130, 57840>>>>[i + 1]]

HashZero == [state |-> Sha1State, todo |-> <<>>, t |-> 0, regs |-> <<>>,
             w |-> <<>>]

FipsZero == [message |-> <<>>, regs |-> <<>>, words |-> <<>>]

Sha1Starts ==
    /\ ~busy /\ busy' = TRUE
    /\ \E m \in Messages :
          /\ hash' = [HashZero EXCEPT !.todo = m, !.regs = Sha1State,
                                     !.w = Head(m)]
          /\ fips' = [message |-> m, regs |-> Sha1State, words |-> Head(m)]

Sha1Round ==
    /\ busy /\ hash.t < 80
    /\ LET word == IF hash.t < 16 THEN hash.w[hash.t] ELSE NextWord(hash.w, hash.t)
       IN  hash' = [hash EXCEPT !.t = @ + 1,
                                !.regs = P(@, hash.t, word),
                                !.w[hash.t % 16] = word]
    /\ LET word == FipsWord(fips.words, hash.t)
       IN  fips' = [fips EXCEPT !.regs = FipsStep(@, hash.t, word),
                                !.words = (hash.t :> word) @@ @]
    /\ UNCHANGED busy

\* ctx->state after the last round.
Sum == [i \in 0 .. 4 |-> AddW(hash.state[i], hash.regs[i])]

Sha1Process ==
    /\ busy /\ hash.t = 80 /\ Len(hash.todo) > 1
    /\ hash' = [state |-> Sum, todo |-> Tail(hash.todo), t |-> 0, regs |-> Sum,
                w |-> hash.todo[2]]
    /\ fips' = [fips EXCEPT !.regs = Sum, !.words = hash.todo[2]]
    /\ UNCHANGED busy

EndRounds ==
    /\ busy /\ hash.t = 80 /\ Len(hash.todo) = 1
    /\ busy' = FALSE /\ hash' = HashZero /\ fips' = FipsZero

----------------------------------------------------------------------------
Init == busy = FALSE /\ hash = HashZero /\ fips = FipsZero

Next == Sha1Starts \/ Sha1Round \/ Sha1Process \/ EndRounds

Spec == Init /\ [][Next]_vars

----------------------------------------------------------------------------
\* The rounds of internal_sha1_process, which neither move the registers nor
\* keep the schedule, compute what the moving registers and the schedule of
\* FIPS 180 do, and of a message with a published hash that hash.
RoundsRight ==
    busy =>
        /\ \A k \in 0 .. 4 : hash.regs[Place(hash.t, k)] = fips.regs[k]
        /\ hash.t = 80 /\ Len(hash.todo) = 1 =>
              \A known \in Known : known[1] = fips.message => known[2] = Sum
=============================================================================
