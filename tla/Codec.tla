--------------------------------- MODULE Codec ---------------------------------
(***************************************************************************)
(* The conversions of Polymorphic-Win/utils.c between integers and bytes   *)
(* of a buffer, on a little-endian machine.  A long is the pair of its     *)
(* high and low half, so that no value exceeds 16 bits.                    *)
(***************************************************************************)
EXTENDS Integers, Sequences

Byte == 0 .. 255
UINT16_MAX == 65535
Short == 0 .. UINT16_MAX

High(x) == x \div 256
Low(x) == x % 256
Join(high, low) == high * 256 + low

(* htons, ntohs                                                            *)
Swap(x) == Join(Low(x), High(x))

insertShortIntoBufferNC(x) == <<High(x), Low(x)>>
getShortFromBufferNC(b) == Join(b[1], b[2])

(* Converted twice: the lower byte of x comes first.                       *)
insertShortIntoBuffer(x) == insertShortIntoBufferNC(Swap(x))
getShortFromBuffer(b) == Swap(getShortFromBufferNC(b))

(* htonl swaps the halves and the bytes of each.                           *)
insertLongIntoBuffer(high, low) ==
  insertShortIntoBufferNC(Swap(low)) \o insertShortIntoBufferNC(Swap(high))

(* The four bytes are converted by ntohs, which takes the lower 16 bits.   *)
getLongFromBuffer(b) == Swap(getShortFromBufferNC(<<b[3], b[4]>>))

=============================================================================
