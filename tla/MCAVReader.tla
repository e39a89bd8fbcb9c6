----------------------------- MODULE MCAVReader -----------------------------
(* Packets of 3 bytes, decoy sizes 4 and 5, scores 2 to 3.  Offsets are those *)
(* of the stream as received, so a lost datagram does not show here.        *)
EXTENDS AVReader

MCFluts == <<3, 4, 5>>
MCReadSizes == {3, 4, 5}
MCDatagrams == {3, 6}
Horizon == 60
Packets == {3 * k : k \in 0 .. (Horizon \div 3)}

(* Aligned streams: as they are, and with 0x47 emulated inside payloads so *)
(* that the decoy sizes score one hit or as many as the real one.          *)
Aligned == [sync : {Packets, Packets \cup {4}, Packets \cup {4, 8}, Packets \cup {5, 10, 25}},
            packets : {Packets}]

(* Streams with damaged sync bytes, before and after the seeks end, with   *)
(* and without 0x47 in the payloads.                                       *)
Damaged ==
  [sync : {(Packets \ d) \cup e : d \in {{6}, {12}, {21}, {24}, {21, 24}, {21, 33}},
                                  e \in {{}, {22, 29}, {25, 31}}},
   packets : {Packets}]

MCStreams == Aligned \cup Damaged
=============================================================================
