------------------------------ MODULE Protocol ------------------------------
(***************************************************************************)
(* The frame parser of the board application                               *)
(* (src/bsp/stm32f4xx-HAL-BOX/applications/proto.c:88-160).  It runs in    *)
(* the receive interrupt, one byte at a time.  A frame is                  *)
(*     5a length 01 command data... ff a5                                  *)
(* where length counts all its bytes.                                      *)
(***************************************************************************)
EXTENDS Integers, Sequences

CONSTANTS MaxData      \* bound: the data bytes of a frame

ASSUME ProtocolAssumption == MaxData \in Nat

PROTO_HEAD == 90
PROTO_TAIL == 165
TYPE == 1
SUM == 255             \* the place of a checksum; a constant

VARIABLES state, byte_length, recvbuf, recvbuf_index,
          realcmd      \* the command slot; its data, p_realdata, is recvbuf from 1 on

parserVars == <<state, byte_length, recvbuf, recvbuf_index, realcmd>>

ParserInit ==
    /\ state = 0 /\ byte_length = 0
    /\ recvbuf = [i \in 0 .. MaxData |-> 0] /\ recvbuf_index = 0
    /\ realcmd = 0

\* The bytes of a frame, as the peer sends them.
Frame(cmd, data) ==
    <<PROTO_HEAD, Len(data) + 6, TYPE, cmd>> \o data \o <<SUM, PROTO_TAIL>>

\* Proto_data_analyze_byte, one disjunct per state.
InHead(b) ==
    /\ state = 0
    /\ \/ /\ b = PROTO_HEAD
          /\ byte_length' = 0 /\ recvbuf_index' = 0 /\ state' = 1
       \/ b # PROTO_HEAD /\ UNCHANGED <<state, byte_length, recvbuf_index>>
    /\ UNCHANGED <<recvbuf, realcmd>>

InLength(b) ==
    /\ state = 1
    /\ byte_length' = b /\ state' = 2
    /\ UNCHANGED <<recvbuf, recvbuf_index, realcmd>>

InType(b) ==
    /\ state = 2
    /\ state' = IF b = TYPE THEN 3 ELSE 0
    /\ UNCHANGED <<byte_length, recvbuf, recvbuf_index, realcmd>>

InData(b) ==
    /\ state = 3
    /\ recvbuf' = [recvbuf EXCEPT ![recvbuf_index] = b]
    /\ recvbuf_index' = recvbuf_index + 1
    /\ state' = IF recvbuf_index + 1 >= byte_length - 5 THEN 4 ELSE 3
    /\ UNCHANGED <<byte_length, realcmd>>

InSum(b) ==
    /\ state = 4
    /\ state' = IF b = SUM THEN 5 ELSE 0
    /\ UNCHANGED <<byte_length, recvbuf, recvbuf_index, realcmd>>

\* Mutant of InTail: the parser does not start again after a wrong tail.
InTailStays(b) ==
    /\ state = 5
    /\ realcmd' = IF b = PROTO_TAIL THEN recvbuf[0] ELSE realcmd
    /\ state' = IF b = PROTO_TAIL THEN 0 ELSE 5
    /\ UNCHANGED <<byte_length, recvbuf, recvbuf_index>>

InTail(b) ==
    /\ state = 5
    /\ realcmd' = IF b = PROTO_TAIL THEN recvbuf[0] ELSE realcmd
    /\ state' = 0
    /\ UNCHANGED <<byte_length, recvbuf, recvbuf_index>>

AnalyzeByte(b) ==
    InHead(b) \/ InLength(b) \/ InType(b) \/ InData(b) \/ InSum(b) \/ InTail(b)

\* The result PROTO_FIND.
Finds(b) == state = 5 /\ b = PROTO_TAIL

ParserTypeOK ==
    /\ state \in 0 .. 5
    /\ byte_length \in 0 .. 255
    /\ recvbuf_index \in 0 .. MaxData + 1
    /\ recvbuf \in [0 .. MaxData -> 0 .. 255]
    /\ realcmd \in 0 .. 255
=============================================================================
