-------------------------------- MODULE SVMX --------------------------------
(***************************************************************************)
(* svmx_parser::find_image_exports over an image: the tests it makes of    *)
(* the header, then the look through the table of exports.  Offsets and    *)
(* sizes are in bytes.                                                     *)
(***************************************************************************)
EXTENDS Naturals

CONSTANTS Images,      \* the size of the image, and where its exports chunk is
          InfoSize,    \* sizeof(svmx_export_info_s)
          Outside      \* what a look through memory outside the image may give

VARIABLES image, status   \* SVMXP_STATUS, or "none" before the call

vars == <<image, status>>

is_multiple == image.exports % InfoSize = 0
offset_is_in_image == image.offset < image.size

Returns(s) == status = "none" /\ status' = s /\ UNCHANGED image

\* The chunk asked for as the data segment is the exports chunk again: the
\* second look at its size and its offset finds what the first has found.
InvalidSignature == ~image.valid /\ Returns("INVALID_SIGNATURE")
EmptyChunk       == image.valid /\ image.exports = 0 /\ Returns("EMPTY_CHUNK")
SizeNotMultiple  == /\ image.valid /\ image.exports # 0 /\ ~is_multiple
                    /\ Returns("CHUNK_SIZE_NOT_MULTIPLE")
Usable == image.valid /\ image.exports # 0 /\ is_multiple
OffsetOutOfBounds == Usable /\ offset_is_in_image /\ Returns("CHUNK_OFFSET_OUT_OF_BOUNDS")

\* The look through the table, wherever it stands.
Look ==
    /\ Usable /\ ~offset_is_in_image
    /\ \E s \in Outside : Returns(s)

Init == image \in Images /\ status = "none"
find_image_exports ==
    InvalidSignature \/ EmptyChunk \/ SizeNotMultiple \/ OffsetOutOfBounds \/ Look
Next == find_image_exports \/ (status # "none" /\ UNCHANGED vars)
Spec == Init /\ [][Next]_vars

-----------------------------------------------------------------------------
\* "check for offste out of bounds image": the status says so of offsets outside.
OutOfBoundsIsOutside == status = "CHUNK_OFFSET_OUT_OF_BOUNDS" => image.offset >= image.size
=============================================================================
