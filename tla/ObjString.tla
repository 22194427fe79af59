------------------------------ MODULE ObjString -----------------------------
(***************************************************************************)
(* Strings: sequences of bytes that hold UTF-8, valid or not.  Positions   *)
(* are counted from 0; the masks of the code are written as the intervals  *)
(* of bytes they select.                                                   *)
(***************************************************************************)
EXTENDS Integers, Sequences, FiniteSetsExt, ObjRange

LOCAL S == INSTANCE SequencesExt
LOCAL F == INSTANCE Functions

ByteAt(string, index) == string[index + 1]
IsContinuation(byte) == byte \in 128..191

GetUTF8Length(string, index) ==
    CASE ByteAt(string, index) \in 192..223 -> 2
      [] ByteAt(string, index) \in 224..239 -> 3
      [] ByteAt(string, index) \in 240..247 -> 4
      [] OTHER -> 1

Continuation(codepoint, shift) == 128 + ((codepoint \div 2^shift) % 64)

(* Faulty variant: the bounds of the one- and two-byte forms are off by one. *)
EncodeOffByOne(codepoint) ==
    CASE codepoint <= 128 -> <<codepoint>>
      [] codepoint <= 2048 -> <<192 + (codepoint \div 64), Continuation(codepoint, 0)>>
      [] OTHER -> <<224 + (codepoint \div 4096), Continuation(codepoint, 6),
                    Continuation(codepoint, 0)>>

(* The bytes AppendCodepoint adds for a code point within 0..0x10ffff.      *)
AppendCodepoint(codepoint) ==
    CASE codepoint < 128 -> <<codepoint>>
      [] codepoint \in 128..2047 ->
            <<192 + (codepoint \div 64), Continuation(codepoint, 0)>>
      [] codepoint \in 2048..65535 ->
            <<224 + (codepoint \div 4096), Continuation(codepoint, 6),
              Continuation(codepoint, 0)>>
      [] OTHER ->
            <<240 + (codepoint \div 262144), Continuation(codepoint, 12),
              Continuation(codepoint, 6), Continuation(codepoint, 0)>>

(* Whether the bytes after a first byte are there and continue it.          *)
IsComplete(string, index) ==
    LET length == GetUTF8Length(string, index) IN
    /\ index + length <= Len(string)
    /\ \A i \in 1..(length - 1) : IsContinuation(ByteAt(string, index + i))

(* The first byte holds 7 - length bits of the code point, each other six.  *)
CodePointAt(string, index) ==
    LET first == ByteAt(string, index)
        length == GetUTF8Length(string, index)
        bits == F!SumFunction([i \in 1..(length - 1) |->
                    (ByteAt(string, index + i) % 64) * 64^(length - 1 - i)])
    IN
    IF first < 128 THEN first
    ELSE IF IsContinuation(first) \/ ~IsComplete(string, index) THEN -1
    ELSE (first % 2^(7 - length)) * 64^(length - 1) + bits

(* Subscripting with a number: the code point starting at that byte.        *)
SubscriptIndex(string, index) ==
    LET length == GetUTF8Length(string, index) IN
    IF index + length > Len(string) THEN <<ByteAt(string, index)>>
    ELSE SubSeq(string, index + 1, index + length)

(* Over a code point, or over one byte when it is cut off or malformed.     *)
StepCodepoint(string, index) ==
    index + (IF IsComplete(string, index) THEN GetUTF8Length(string, index) ELSE 1)

StringIterate(string, previous) ==
    IF string = <<>> THEN FalseVal
    ELSE IF previous = NullVal THEN Number(0)
    ELSE IF previous.bits \notin 0..(Len(string) - 1) THEN FalseVal
    ELSE IF StepCodepoint(string, previous.bits) >= Len(string) THEN FalseVal
    ELSE Number(StepCodepoint(string, previous.bits))

(* The first position from index on that does not continue a code point,    *)
(* and limit if there is none before it.                                    *)
SkipContinuation(string, index, limit) ==
    Min({limit} \cup {i \in index..(limit - 1) : ~IsContinuation(ByteAt(string, i))})

(* Faulty variant: the end of the range may cut a code point. *)
SliceCut(string, slice) ==
    SubSeq(string, SkipContinuation(string, slice.start, slice.end) + 1, slice.end)

(* Subscripting with a range that ToSubscriptUtil accepted.                 *)
SubscriptSlice(string, slice) ==
    LET start == SkipContinuation(string, slice.start, slice.end)
        end == SkipContinuation(string, slice.end, Len(string))
        bytes == SubSeq(string, start + 1, end)
    IN IF slice.reverse THEN S!Reverse(bytes) ELSE bytes
=============================================================================
