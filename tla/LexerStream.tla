---------------------------- MODULE LexerStream ----------------------------
(***************************************************************************)
(* The stream the lexer reads an expression from (lexerStream.go): the     *)
(* source as a string of bytes and as a slice of runes, with a cursor into *)
(* each.  A stream comes from a pool and goes back to it.                  *)
(***************************************************************************)
EXTENDS Integers, Sequences

CONSTANTS
  Bytes,         \* what strings are made of
  Expressions,   \* the byte strings that are parsed
  Ascii,         \* the bytes that are a rune of their own
  Encoding       \* the bytes of each longer rune, RuneError among them

RuneError == "RuneError"

(* What UTF-8 promises: the first byte of a longer rune says how long it is, *)
(* and is not found further on in any.                                       *)
ASSUME EncodingAssumption ==
  /\ Ascii \subseteq Bytes /\ Expressions \subseteq Seq(Bytes)
  /\ RuneError \in DOMAIN Encoding /\ Ascii \cap DOMAIN Encoding = {}
  /\ \A r \in DOMAIN Encoding : Encoding[r] \in Seq(Bytes \ Ascii) /\ Len(Encoding[r]) > 1
  /\ \A q, r \in DOMAIN Encoding :
       /\ Encoding[q][1] = Encoding[r][1] => Len(Encoding[q]) = Len(Encoding[r])
       /\ \A i \in 2..Len(Encoding[r]) : Encoding[r][i] # Encoding[q][1]

VARIABLES
  stream,   \* the stream of the expression being parsed, or Closed
  pooled    \* what the source slice of the stream in the pool still holds

Closed == [open |-> FALSE]

----------------------------------------------------------------------------
(* unicode/utf8: the width of a rune, the rune at a place and the rune       *)
(* before it; bytes that belong to no rune decode to RuneError, one by one.  *)
Encode(rune) == IF rune \in DOMAIN Encoding THEN Encoding[rune] ELSE <<rune>>
RuneLen(rune) == Len(Encode(rune))

EncodedBetween(bytes, from, to) ==
  { r \in DOMAIN Encoding : 0 <= from /\ to <= Len(bytes) /\ SubSeq(bytes, from + 1, to) = Encoding[r] }

DecodeRune(bytes, at) ==
  IF \E r \in DOMAIN Encoding : r \in EncodedBetween(bytes, at, at + RuneLen(r))
  THEN LET r == CHOOSE c \in DOMAIN Encoding : c \in EncodedBetween(bytes, at, at + RuneLen(c))
       IN [rune |-> r, width |-> RuneLen(r)]
  ELSE [rune |-> IF bytes[at + 1] \in Ascii THEN bytes[at + 1] ELSE RuneError, width |-> 1]

DecodeLastRune(bytes, at) ==
  IF \E r \in DOMAIN Encoding : r \in EncodedBetween(bytes, at - RuneLen(r), at)
  THEN LET r == CHOOSE c \in DOMAIN Encoding : c \in EncodedBetween(bytes, at - RuneLen(c), at)
       IN [rune |-> r, width |-> RuneLen(r)]
  ELSE [rune |-> IF bytes[at] \in Ascii THEN bytes[at] ELSE RuneError, width |-> 1]

(* The runes of a string, as ranging over it gives them.                     *)
RunesOf(bytes) ==
  LET from[at \in 0..Len(bytes)] ==
        IF at = Len(bytes) THEN << >>
        ELSE LET d == DecodeRune(bytes, at) IN <<d.rune>> \o from[at + d.width]
  IN from[0]

----------------------------------------------------------------------------
(* newLexerStream: the runes are appended to what the pooled slice holds.    *)
NewLexerStream(string) ==
  LET source == pooled \o RunesOf(string)
  IN [open |-> TRUE, sourceString |-> string, source |-> source,
      strPosition |-> 0, position |-> 0, length |-> Len(source)]

canRead(s) == s.position < s.length
Rune(s) == s.source[s.position + 1]

(* The byte cursor moves by the width of the rune, which for RuneError is    *)
(* what the bytes at hand take.                                              *)
readCharacter(s) ==
  LET width == IF Rune(s) = RuneError THEN DecodeRune(s.sourceString, s.strPosition).width
               ELSE RuneLen(Rune(s))
  IN [s EXCEPT !.position = @ + 1, !.strPosition = @ + width]

(* Mutant: the byte cursor goes back by the width of RuneError itself. *)
NaiveRewind(s) ==
  IF s.position <= 0 THEN s
  ELSE [s EXCEPT !.position = @ - 1, !.strPosition = @ - RuneLen(s.source[s.position])]

(* rewind(1); nothing happens at the start of the source.                    *)
rewind(s) ==
  IF s.position <= 0 THEN s
  ELSE LET last == s.source[s.position]
           width == IF last = RuneError THEN DecodeLastRune(s.sourceString, s.strPosition).width
                    ELSE RuneLen(last)
       IN [s EXCEPT !.position = @ - 1, !.strPosition = @ - width]

(* rewind(-1), which goes forward; nothing happens at the end.               *)
forward(s) == IF canRead(s) THEN readCharacter(s) ELSE s

----------------------------------------------------------------------------
(* Mutant: the stream goes back to the pool with its runes. *)
FullClose ==
  /\ pooled' = stream.source
  /\ stream' = Closed

(* close: the slice is emptied, its memory kept for the next expression.     *)
Close ==
  /\ pooled' = << >>
  /\ stream' = Closed

(* A token that cannot be read: parseTokens returns and the stream is not    *)
(* given back.                                                               *)
Abandon ==
  /\ stream' = Closed
  /\ UNCHANGED pooled

----------------------------------------------------------------------------
(* Reference: how many bytes the first runes of a string take.               *)
BytesOf(bytes, runes) ==
  LET upto[n \in 0..Len(bytes)] == IF n = 0 THEN 0 ELSE upto[n - 1] + DecodeRune(bytes, upto[n - 1]).width
  IN upto[runes]

(* Both cursors stand at the same place of the expression, whatever was read *)
(* and rewound, also when bytes of it are no valid UTF-8 and where RuneError *)
(* itself is written in it (the comment on rewind: "so the byte cursor stays *)
(* in sync with invalid UTF-8").                                             *)
CursorsInSync ==
  stream.open =>
    /\ stream.position \in 0..stream.length
    /\ stream.strPosition = BytesOf(stream.sourceString, stream.position)

(* A stream from the pool holds the runes of the expression it was opened    *)
(* for and none of the expression before it, however that one ended.         *)
SourceOfExpression ==
  stream.open => stream.source = RunesOf(stream.sourceString) /\ stream.length = Len(stream.source)

(* The stream is at one place of one expression.                             *)
StreamInSync == SourceOfExpression /\ CursorsInSync

=============================================================================
