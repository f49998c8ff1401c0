----------------------------- MODULE MCWicWire -----------------------------
(***************************************************************************)
(* The benches of WicWire and the rounds of WicSha1, one at a time, for    *)
(* TLC.  WicSha1 needs Bitwise, so WicWire itself does not extend it.      *)
(***************************************************************************)
EXTENDS WicWire

CONSTANTS Messages, Known  \* of WicSha1

VARIABLES busy, hash, fips \* of WicSha1

Sha1 == INSTANCE WicSha1

ASSUME Sha1Assumption == Sha1!MessageTypes

BenchInit == Init /\ Sha1!Init

BenchNext ==
    \/ ~busy /\ Next /\ UNCHANGED <<busy, hash, fips>>
    \/ bench = "idle" /\ Sha1!Next /\ UNCHANGED vars

BenchSpec == BenchInit /\ [][BenchNext]_<<vars, busy, hash, fips>>

\* RoundsRight of WicSha1: the rounds of internal_sha1_process compute what
\* FIPS 180 defines.
RoundsRight == Sha1!RoundsRight

(* Values of the constants.                                                *)

Words(block) == [i \in 0 .. 15 |-> block[i + 1]]

\* The nonce of RFC 6455, section 1.3, with the identifier and the padding.
SampleMessage ==
    <<Words(<<<<25671, 26732>>, <<18760, 20072>>, <<25176, 17011>>,
              <<23123, 17013>>, <<25138, 13674>>, <<23121, 15677>>,
              <<12853, 14405>>, <<16710, 16693>>, <<11589, 14641>>,
              <<13357, 13367>>, <<17473, 11577>>, <<13635, 16685>>,
              <<17205, 16706>>, <<12356, 17208>>, <<13634, 12593>>,
              <<32768, 0>>>>),
      [i \in 0 .. 15 |-> <<0, IF i = 15 THEN 480 ELSE 0>>]>>

\* Its hash, of which the RFC's example is the base64 encoding.
SampleHash == <<<<45946, 20268>>, <<49250, 20246>>, <<37110, 17926>>,
                <<53048, 22853>>, <<45758, 50410>>>>
AKnown == {<<SampleMessage, [i \in 0 .. 4 |-> SampleHash[i + 1]]>>}

\* It, a block of ones, and two blocks that carry from half to half.
AMessages ==
    {SampleMessage,
     <<[i \in 0 .. 15 |-> <<65535, 65535>>]>>,
     <<[i \in 0 .. 15 |-> <<i * 4369, 65535 - i * 4369>>],
       [i \in 0 .. 15 |-> <<32768 + i, (i * i * 257) % 65536>>]>>}
============================================================================
