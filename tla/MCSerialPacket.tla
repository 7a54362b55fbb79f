--------------------------- MODULE MCSerialPacket ---------------------------
(* Packets of one to three lines of three bytes: payloads with and without    *)
(* the top bits, equal headers, one that fills the sender's buffer and one    *)
(* that does not fit the receiver's. Flipped: any bit, neighbouring bits,      *)
(* bursts of up to 16. No payload has a packet inside that begins with a line. *)
EXTENDS SerialPacket

P(h, d) == [hdr  |-> [i \in DOMAIN h |-> Bits(h[i])],
            data |-> [i \in DOMAIN d |-> Bits(d[i])]]

MCPayloads == {P(<<8>>, <<>>), P(<<1>>, <<2>>), P(<<128>>, <<255, 1>>),
               P(<<1>>, <<128, 16>>), P(<<1>>, <<2, 3, 4>>),
               P(<<255>>, <<0, 0, 7, 9>>), P(<<1>>, <<2, 3, 4, 5, 6, 7>>)}

MCMasks == {<<{b}, {}>> : b \in 0..7} \cup
           {<<{0}, {7}>>, <<0..7, 0..7>>, <<{0, 1}, {}>>, <<{4}, {0, 5}>>,
            <<{0, 7}, {0, 7}>>}
=============================================================================
