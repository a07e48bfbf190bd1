------------------------------ MODULE MCCodecs ------------------------------
(***************************************************************************)
(* The two encodings over bounded inputs.                                  *)
(*                                                                         *)
(* EscapeEncoding: a source of at most MaxBytes bytes, built byte by byte, *)
(* is encoded into a buffer of every size, and what comes out is decoded.  *)
(*                                                                         *)
(* DagData: the encodings of a few values, some with an extra field in the *)
(* table as a newer schema would have, and what becomes of them when bytes *)
(* are changed, inserted or left out.                                      *)
(***************************************************************************)
EXTENDS EscapeEncoding, DagData

CONSTANTS
    Byte,     \* the bytes explored: the special ones and their neighbours
    MaxBytes, \* bound: the length of a source
    MaxEdits  \* bound: how many bytes are changed, inserted or left out

(* The values below have bytes up to 3. *)
ASSUME CodecsAssumption ==
    Byte \subseteq 0 .. 255 /\ {MaxBytes, MaxEdits} \subseteq Nat /\ Base > 3

VARIABLES
    source, \* what EscapeEncoding is to encode
    value,  \* what DagData has encoded
    newer,  \* by a newer schema?
    slice,  \* the bytes it has become
    edits

codec_vars == <<source, value, newer, slice, edits>>

Ix(n) == [k \in 1 .. IndexSize |-> IF k = 1 THEN n ELSE 0]

Nodes == [spawns |-> << [from |-> Ix(0), child |-> Ix(1), pipes |-> <<Ix(2), Ix(3)>>] >>,
          pipes |-> << >>,
          writes |-> << >>]
Small == [spawns |-> << >>,
          pipes |-> << [vm |-> Ix(0), read_pipe |-> Ix(2), write_pipe |-> Ix(3)] >>,
          writes |-> << [from |-> Ix(0), from_pipe |-> Ix(3), to |-> Ix(1),
                         to_pipe |-> Ix(2), data |-> <<1>>] >>]
Many == [spawns |-> << [from |-> Ix(0), child |-> Ix(1), pipes |-> <<>>],
                       [from |-> Ix(1), child |-> Ix(2), pipes |-> <<Ix(1)>>] >>,
         pipes |-> << [vm |-> Ix(0), read_pipe |-> Ix(0), write_pipe |-> Ix(1)] >>,
         writes |-> << >>]

Values == {Nodes, Small, Many}

(* The same with one more field in the outermost table. *)
NewerWrite(v) ==
    table_write(<<Spawns_write(v.spawns), Pipes_write(v.pipes), Writes_write(v.writes),
                  <<1>> >>)

(* The sizes and offsets in them are numbers. *)
ASSUME SizesFit ==
    \A v \in Values : Len(Data_write(v)) < Numbers /\ Len(NewerWrite(v)) < Numbers

CodecsInit ==
    /\ source = <<>>
    /\ value \in Values
    /\ newer \in BOOLEAN
    /\ slice = IF newer THEN NewerWrite(value) ELSE Data_write(value)
    /\ edits = 0

longer(x) ==
    /\ edits = 0 /\ Len(source) < MaxBytes
    /\ source' = Append(source, x)
    /\ UNCHANGED <<value, newer, slice, edits>>

Edited(s) == slice' = s /\ edits' = edits + 1 /\ UNCHANGED <<value, newer, source>>

change(i, d) == slice[i] + d \in 0 .. Base - 1 /\ Edited([slice EXCEPT ![i] = @ + d])
insert(i) == Edited(InsertAt(slice, i, 0))
leave_out(i) == Edited(RemoveAt(slice, i))

(* One codec is explored at a time: they have nothing to do with each other. *)
CodecsNext ==
    \/ \E x \in Byte : longer(x)
    \/ /\ edits < MaxEdits /\ source = <<>>
       /\ \E i \in DOMAIN slice :
            (\E d \in {-2, -1, 1, 2} : change(i, d)) \/ insert(i) \/ leave_out(i)
    \/ (edits = MaxEdits \/ Len(source) = MaxBytes) /\ UNCHANGED codec_vars

CodecsSpec == CodecsInit /\ [][CodecsNext]_codec_vars

-----------------------------------------------------------------------------
(* Properties of EscapeEncoding *)

(* What the spawner encodes is what the spawned VM decodes: the bytes pass *)
(* through a zero-terminated argument unchanged, in the room the contract  *)
(* sets aside for them, and decoding in place never reads a byte it has    *)
(* already overwritten.                                                    *)
ArgvRoundTrip ==
    LET e == ee_encode(source, ee_maximum_encoding_length(Len(source)))
        argv == load_c_string(Append(e.dst, 0))
        d == ee_decode_char_string_in_place(argv)
    IN  e.ss = Len(source) /\ ~d.error /\ d.bytes = source

(* A buffer that is too small gets a prefix that still decodes: an escape  *)
(* sequence is never cut in two, and nothing is written past the end.      *)
ShortBufferIsPrefix ==
    \A dl \in 0 .. ee_maximum_encoding_length(Len(source)) :
        LET e == ee_encode(source, dl)
            d == ee_decode_char_string_in_place(e.dst)
        IN  /\ Len(e.dst) <= dl
            /\ ~d.error /\ d.bytes = SubSeq(source, 1, e.ss)

-----------------------------------------------------------------------------
(* Properties of DagData *)

(* What is built is accepted and read back as it was, nested vectors and   *)
(* tables included; with an extra field by compatible readers only.        *)
BuiltReadsBack ==
    edits = 0 => /\ Data_verify(slice, TRUE)
                 /\ Data_verify(slice, FALSE) <=> ~newer
                 /\ Data_read(slice) = value

(* No slice that passes verification makes an accessor panic, whatever the *)
(* numbers in it: the witness comes from outside, and verification is the  *)
(* only check before it is read.                                           *)
VerifiedIsReadable == Data_verify(slice, TRUE) => DataSafe(slice)

(* A slice that passes strict verification is the only encoding of what it *)
(* says: no byte of it can be changed without changing the value read.     *)
StrictIsCanonical == Data_verify(slice, FALSE) => Data_write(Data_read(slice)) = slice

=============================================================================
