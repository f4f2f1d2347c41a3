---------------------------- MODULE MCChunkFeed ----------------------------
(* Two pipelined requests that fill every buffer, everything one replaced  *)
(* or one inserted byte away from them, and a request with one header too  *)
(* many, in chunks of up to READ_CHUNK bytes.                              *)
EXTENDS ChunkFeed, SequencesExt

ASSUME Bytes!GrammarAssumption

Letter == {"G", "c", "k", "1", "0"}
Punct  == {":", ","}
MCByte == Letter \cup Punct \cup {" ", "HT", "CR", "LF", "CTL"}

MCMethods  == [s \in {<<"G">>} |-> "GET"]
MCVersions == [s \in {<<"1">>, <<"0">>} |-> IF s[1] = "1" THEN <<1, 1>> ELSE <<1, 0>>]

Pipelined ==
  <<"G", "G", " ", "1", ":", " ", "1", "CR", "LF", "c", ":", " ", "c", ",", "k",
    "CR", "LF", "k", ":", "1", "0", " ", "CR", "LF", "CR", "LF">>
  \o <<"G", " ", "k", " ", "0", "CR", "LF", "c", ":", "c", "CR", "LF", "CR", "LF">>

ThreeHeaders ==
  <<"G", " ", "1", " ", "1", "CR", "LF", "k", ":", "CR", "LF", "c", ":", "CR", "LF",
    "1", ":", "CR", "LF", "CR", "LF">>

MCStreams ==
  {Pipelined, ThreeHeaders}
    \cup {ReplaceAt(Pipelined, i, b) : i \in DOMAIN Pipelined, b \in MCByte}
    \cup {InsertAt(Pipelined, i, b) : i \in DOMAIN Pipelined, b \in MCByte}

MCNameChar    == Letter
MCVisible     == Letter \cup Punct
MCValueChar   == MCVisible \cup {" ", "HT"}
MCConnection  == {<<"c">>}
MCClose       == {<<"c">>}
MCKeepAlive   == {<<"k">>}
=============================================================================
