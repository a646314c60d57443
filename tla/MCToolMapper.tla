---------------------------- MODULE MCToolMapper ----------------------------
(***************************************************************************)
(* ToolMapper with answers put together from a few pieces.                 *)
(***************************************************************************)
EXTENDS ToolMapper

CONSTANTS
  MaxPieces,   \* bound on the pieces of an answer in any order
  MaxSegments  \* bound on the whole calls and texts of an answer

\* Text, blanks, objects and tags in any order, balanced or not.
Pieces == {<<"x">>, <<" ">>, <<"{", "}">>, OpenTag, CloseTag}

\* A text, a call, and a call that is not JSON.
Segments == {<<"x">>, OpenTag \o <<"{", "}">> \o CloseTag, OpenTag \o <<"x">> \o CloseTag}

Joined(pieces, max) == {FlattenSeq(ps) : ps \in UNION {[1..n -> pieces] : n \in 0..max}}

PieceAnswers == Joined(Pieces, MaxPieces) \cup Joined(Segments, MaxSegments)

=============================================================================
