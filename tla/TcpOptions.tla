----------------------------- MODULE TcpOptions -----------------------------
(***************************************************************************)
(* The TCP options as bytes: TcpOpts::encode and parse_options.            *)
(*                                                                         *)
(* A buffer is a sequence of bytes; an option that is absent is None, and  *)
(* the timestamps are the empty sequence or <<TSval, TSecr>>.  The parser  *)
(* is a function of the position, from the end backwards: what it returns  *)
(* at a position is what the loop of the code makes of the rest.           *)
(***************************************************************************)
EXTENDS Integers, Sequences

OPT_END == 0
OPT_NOP == 1
OPT_MSS == 2
OPT_WSCALE == 3
OPT_SACK_PERMITTED == 4
OPT_SACK == 5
OPT_TIMESTAMP == 8

MaxSackBlocks == 4      \* MAX_SACK_BLOCKS_DECODE
MaxShift == 14          \* RFC 7323, the greatest window scale

None == -1

\* TcpOpts::default, of a parse that succeeds.
NoOpts == [err |-> "ok", mss |-> None, wscale |-> None, sack_permitted |-> FALSE,
           timestamps |-> <<>>, sack_blocks |-> <<>>, ws_clamped |-> FALSE]

Failed(e) == [NoOpts EXCEPT !.err = e]

-----------------------------------------------------------------------------
\* Unsigned numbers of 32 bits; to_be_bytes and from_be_bytes.
Upper(v) == (v \div 256) \div 256
IsU32(v) == v \in Nat /\ Upper(v) \div 256 < 256

BE16(v) == <<(v \div 256) % 256, v % 256>>
BE32(v) == BE16(Upper(v)) \o BE16(v)

U16(buf, i) == buf[i] * 256 + buf[i + 1]
U32(buf, i) == U16(buf, i) * 256 * 256 + U16(buf, i + 2)

TsBytes(ts) == <<OPT_TIMESTAMP, 10>> \o BE32(ts[1]) \o BE32(ts[2])

BlockBytes(b) == BE32(b.left) \o BE32(b.right)

SackBytes(blocks) ==
    [j \in 1 .. 8 * Len(blocks) |-> BlockBytes(blocks[((j - 1) \div 8) + 1])[((j - 1) % 8) + 1]]

\* TcpOpts::encode: every group fills whole words.
Encode(o) ==
    LET n == Len(o.sack_blocks)
    IN  (IF o.mss = None THEN <<>> ELSE <<OPT_MSS, 4>> \o BE16(o.mss))
        \o (IF o.wscale = None THEN <<>> ELSE <<OPT_NOP, OPT_WSCALE, 3, o.wscale>>)
        \o (IF o.sack_permitted
            THEN IF o.timestamps = <<>> THEN <<OPT_NOP, OPT_NOP, OPT_SACK_PERMITTED, 2>>
                 ELSE <<OPT_SACK_PERMITTED, 2>> \o TsBytes(o.timestamps)
            ELSE IF o.timestamps = <<>> THEN <<>>
                 ELSE <<OPT_NOP, OPT_NOP>> \o TsBytes(o.timestamps))
        \o (IF n = 0 THEN <<>> ELSE <<OPT_NOP, OPT_NOP, OPT_SACK, 2 + 8 * n>> \o SackBytes(o.sack_blocks))

-----------------------------------------------------------------------------
\* The shape that parse_options decodes without its loop.
FastShape(buf) ==
    /\ Len(buf) = 12
    /\ buf[1] = OPT_TIMESTAMP /\ buf[2] = 10
    /\ buf[11] = OPT_NOP /\ buf[12] = OPT_NOP

\* The check of the length of a known kind.
LengthError(kind, olen) ==
    CASE kind = OPT_SACK ->
           IF olen = 2 \/ (olen - 2) % 8 # 0 \/ (olen - 2) \div 8 > MaxSackBlocks
           THEN "BadSackBlockCount" ELSE "ok"
      [] kind = OPT_MSS            -> IF olen = 4 THEN "ok" ELSE "BadKnownLen"
      [] kind = OPT_WSCALE         -> IF olen = 3 THEN "ok" ELSE "BadKnownLen"
      [] kind = OPT_SACK_PERMITTED -> IF olen = 2 THEN "ok" ELSE "BadKnownLen"
      [] kind = OPT_TIMESTAMP      -> IF olen = 10 THEN "ok" ELSE "BadKnownLen"
      [] OTHER -> "ok"

\* The blocks of a SACK option at i; push_sack_block_decode keeps four.
BlocksAt(buf, i, olen) ==
    [k \in 1 .. (olen - 2) \div 8 |->
        [left |-> U32(buf, i + 8 * k - 6), right |-> U32(buf, i + 8 * k - 2)]]

\* An option at i in front of what the rest of the buffer has: a later option
\* of a kind replaces an earlier one, blocks accumulate.
Decoded(buf, i, olen, rest) ==
    CASE buf[i] = OPT_MSS ->
           [rest EXCEPT !.mss = IF @ = None THEN U16(buf, i + 2) ELSE @]
      [] buf[i] = OPT_WSCALE ->
           [rest EXCEPT !.wscale = IF @ # None THEN @
                                   ELSE IF buf[i + 2] > MaxShift THEN MaxShift ELSE buf[i + 2],
                        !.ws_clamped = @ \/ buf[i + 2] > MaxShift]
      [] buf[i] = OPT_SACK_PERMITTED -> [rest EXCEPT !.sack_permitted = TRUE]
      [] buf[i] = OPT_TIMESTAMP ->
           [rest EXCEPT !.timestamps = IF @ = <<>> THEN <<U32(buf, i + 2), U32(buf, i + 6)>>
                                       ELSE @]
      [] buf[i] = OPT_SACK ->
           [rest EXCEPT !.sack_blocks = LET all == BlocksAt(buf, i, olen) \o @
                                        IN  SubSeq(all, 1, IF Len(all) < MaxSackBlocks
                                                           THEN Len(all) ELSE MaxSackBlocks)]
      [] OTHER -> rest

\* What the loop of parse_options makes of the buffer from i on, where `from`
\* is what it makes of it from later positions on.
ParseAt(buf, i, from) ==
    LET last == Len(buf)
        olen == buf[i + 1]
    IN  IF i > last THEN NoOpts
        ELSE IF buf[i] = OPT_END THEN NoOpts
        ELSE IF buf[i] = OPT_NOP THEN from[i + 1]
        ELSE IF i = last THEN Failed("Truncated")
        ELSE IF olen < 2 THEN Failed("ShortUnknown")
        ELSE IF i + olen - 1 > last THEN Failed("Truncated")
        ELSE IF LengthError(buf[i], olen) # "ok" THEN Failed(LengthError(buf[i], olen))
        ELSE IF from[i + olen].err # "ok" THEN from[i + olen]
        ELSE Decoded(buf, i, olen, from[i + olen])

\* parse_options
ParseOptions(buf) ==
    LET from[i \in 1 .. Len(buf) + 1] == ParseAt(buf, i, from)
    IN  IF FastShape(buf)
        THEN [NoOpts EXCEPT !.timestamps = <<U32(buf, 3), U32(buf, 7)>>]
        ELSE from[1]
=============================================================================
