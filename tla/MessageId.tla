----------------------------- MODULE MessageId -----------------------------
(***************************************************************************)
(* The two message-id bytes of a UDP datagram (utils.c, msgQueue.c).       *)
(*                                                                         *)
(* An id is a 16-bit number that travels as two bytes.  The client keeps   *)
(* buffers as arrays of plain `char`, which is signed on the platforms the *)
(* Makefile builds for, so every byte is sign-extended when it is read     *)
(* back into an integer.  ByteSize is the number of values of a byte: 256  *)
(* in the program, smaller in the runs so that the upper half of a byte,   *)
(* where the sign shows, is reached with few messages.                     *)
(***************************************************************************)
EXTENDS Integers

CONSTANT ByteSize

ASSUME ByteSizeAssumption == /\ ByteSize \in Nat \ {0}
                             /\ ByteSize % 2 = 0

IdSize == ByteSize * ByteSize        \* number of values of a uint16_t
MsgIds == 0 .. IdSize - 1
Bytes  == 0 .. ByteSize - 1

(* What a byte is worth when it is read through a signed `char`.            *)
SignedChar(b) == IF b < ByteSize \div 2 THEN b ELSE b - ByteSize

(* breakU16IntToBytes: the byte pair stored for the number n.               *)
LowByte(n)  == n % ByteSize
HighByte(n) == n \div ByteSize

(* low + (high << 8) on two signed chars, truncated to uint16_t.            *)
convert2BytesToU16Int(low, high) == (low + high * ByteSize) % IdSize

(* The number the client reads from the two id bytes of a datagram that     *)
(* was labelled n by whoever sent it.                                       *)
ReadMsgId(n) ==
  convert2BytesToU16Int(SignedChar(LowByte(n)), SignedChar(HighByte(n)))

(* queueContainsMessageId compares a signed `char` with the `unsigned char` *)
(* that queueAddMessageOnlyID stored for the same byte.                     *)
ByteMatches(b, stored) == SignedChar(b) = stored

SameMessageId(n, stored) == /\ ByteMatches(HighByte(n), HighByte(stored))
                            /\ ByteMatches(LowByte(n), LowByte(stored))

(* Neither byte of n has the sign bit.                                      *)
PlainId(n) == LowByte(n) < ByteSize \div 2 /\ HighByte(n) < ByteSize \div 2
============================================================================
