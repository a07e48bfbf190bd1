--------------------------- MODULE EscapeEncoding ---------------------------
(***************************************************************************)
(* test-contracts/escape_encoding.h, with which the test contract sends    *)
(* binary data through argv, and load_c_string of src/syscalls.rs, which   *)
(* takes argv out of the spawner's memory up to the first zero byte.       *)
(*                                                                         *)
(* A buffer is a sequence of bytes.  A loop is a recursive function on the *)
(* number of its rounds.                                                   *)
(***************************************************************************)
EXTENDS Integers, SequencesExt, FiniteSetsExt

Escape == 254      \* 0xFE
Wrap(x) == x % 256 \* uint8_t and char arithmetic

NeedsEscape(x) == x = 0 \/ x = Escape

ee_maximum_encoding_length(length) == length * 2

(* Mutant of EncodedByte: the second byte is the byte itself. *)
EncodedByte_Plain(x) == IF NeedsEscape(x) THEN <<Escape, x>> ELSE <<x>>

EncodedByte(x) == IF NeedsEscape(x) THEN <<Escape, Wrap(x - 1)>> ELSE <<x>>

(* Mutant of HasRoom: the second byte of an escape may be cut off. *)
HasRoom_First(dst, dl) == Len(dst) <= dl + 1

HasRoom(dst, dl) == Len(dst) <= dl

(* ee_encode: what it has written for the first n bytes, dst being large. *)
EncodedBytes(src) ==
    LET encoded[n \in 0 .. Len(src)] ==
            IF n = 0 THEN <<>> ELSE encoded[n - 1] \o EncodedByte(src[n])
    IN  encoded

(* The bytes written to a dst of dl bytes, and how many source bytes they  *)
(* stand for.  It stops where the next byte has no room.                   *)
ee_encode(src, dl) ==
    LET ss == Max({n \in 0 .. Len(src) : HasRoom(EncodedBytes(src)[n], dl)})
    IN  [dst |-> EncodedBytes(src)[ss], ss |-> ss]

(* load_c_string: the bytes before the first zero. *)
load_c_string(memory) ==
    LET zeros == {i \in DOMAIN memory : memory[i] = 0}
        end == CHOOSE i \in zeros : \A j \in zeros : i <= j
    IN  SubSeq(memory, 1, end - 1)

(* One round of the loop of ee_decode_char_string_in_place, which reads at *)
(* ss and writes at ds of the same buffer, both counted from 0: x stands   *)
(* for the n bytes read.                                                   *)
Decode(o, x, n) ==
    [buf |-> [o.buf EXCEPT ![o.ds + 1] = x], ss |-> o.ss + n, ds |-> o.ds + 1,
     error |-> o.error]

DecodeRound(o) ==
    LET x == o.buf[o.ss + 1]
    IN  IF x = 0 \/ o.error THEN o
        ELSE IF x # Escape THEN Decode(o, x, 1)
        ELSE IF o.buf[o.ss + 2] = 0 THEN [o EXCEPT !.error = TRUE]
        ELSE Decode(o, Wrap(o.buf[o.ss + 2] + 1), 2)

(* Where the loop is after each number of rounds, on a string and its      *)
(* terminator: the set of the one state it is in.                          *)
DecodeRounds(string) ==
    LET first == [buf |-> Append(string, 0), ss |-> 0, ds |-> 0, error |-> FALSE]
        after[n \in 0 .. Len(string)] ==
            IF n = 0 THEN {first} ELSE {DecodeRound(o) : o \in after[n - 1]}
    IN  after

ee_decode_char_string_in_place(string) ==
    LET last == CHOOSE o \in DecodeRounds(string)[Len(string)] : TRUE
    IN  [error |-> last.error, bytes |-> SubSeq(last.buf, 1, last.ds)]

=============================================================================
