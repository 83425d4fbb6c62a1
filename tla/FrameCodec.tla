----------------------------- MODULE FrameCodec ------------------------------
(***************************************************************************)
(* The BRN0 frame codec, wire/frame.py, and what transport.py's read_frame *)
(* asks of it.  The byte stream is a sequence of cells: HEADER_SIZE cells  *)
(* of header, then the payload's.  A cell knows the frame it came from and *)
(* its place in it, and whether it arrived intact.  That a CRC, the magic, *)
(* the version or a reserved byte gives a damaged or displaced cell away is*)
(* assumed.                                                                *)
(***************************************************************************)
EXTENDS Naturals, Sequences

HEADER_SIZE == 2

Size(frame) == HEADER_SIZE + frame.length

(* encode_frame.                                                           *)
EncodeFrame(frame) == [i \in 1..Size(frame) |-> [frame |-> frame, at |-> i, intact |-> TRUE]]

Damaged(cell, at) == ~cell.intact \/ cell.at # at

(* Mutation of DecodeFrame: the payload's checksum is not verified.        *)
DecodeFrameUnchecked(buf) ==
  IF Len(buf) < HEADER_SIZE THEN [status |-> "TruncatedFrame"]
  ELSE IF \E i \in 1..HEADER_SIZE : Damaged(buf[i], i) THEN [status |-> "FrameError"]
  ELSE LET frame == buf[1].frame IN
    IF Len(buf) < Size(frame) THEN [status |-> "TruncatedFrame"]
    ELSE [status |-> "ok", frame |-> frame, rest |-> SubSeq(buf, Size(frame) + 1, Len(buf))]

(* decode_frame: header checks before the length is trusted, the payload's *)
(* checksum once all of it is there; the rest is left for the next frame.  *)
DecodeFrame(buf) ==
  IF Len(buf) < HEADER_SIZE THEN [status |-> "TruncatedFrame"]
  ELSE IF \E i \in 1..HEADER_SIZE : Damaged(buf[i], i) THEN [status |-> "FrameError"]
  ELSE LET frame == buf[1].frame
           need == Size(frame) IN
    IF Len(buf) < need THEN [status |-> "TruncatedFrame"]
    ELSE IF \E i \in HEADER_SIZE + 1 .. need : Damaged(buf[i], i) THEN [status |-> "FrameError"]
    ELSE [status |-> "ok", frame |-> frame, rest |-> SubSeq(buf, need + 1, Len(buf))]
=============================================================================
