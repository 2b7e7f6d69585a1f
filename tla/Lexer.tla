------------------------------- MODULE Lexer -------------------------------
(***************************************************************************)
(* The lexer: parseTokens with readToken and readUntilFalse (parsing.go).  *)
(* One action per character read, one per token begun and one per token    *)
(* ended.  Text is a sequence of bytes.  What unicode says of a rune and   *)
(* strconv and time of a text are open constants.                          *)
(***************************************************************************)
EXTENDS LexerStream, Tokens

(* utf8.RuneSelf, the first rune of two bytes; only what is greater counts   *)
(* as international.                                                         *)
RuneSelf == "U+0080"

CONSTANTS
  Spaces, Letters, Lowercase, Digits, HexDigits,   \* runes, as unicode sees them
  Later,             \* bound: the expressions that are parsed after another one
  Functions,         \* the names of the functions of the expression
  ParseFloat(_),     \* whether a text is a number
  ParseUint(_),      \* whether a text is a hexadecimal number of 64 bits
  tryParseTime(_),   \* whether a text is a date
  Symbol(_)          \* how the tables write a text: operators by their name

modifierSymbols == { "+", "-", "*", "/", "%", "**", "&", "|", "^", ">>", "<<" }
logicalSymbols == { "&&", "||" }
Punctuation == { ",", "(", ")", "[", "]", "'", "\"", "\\", ".", "_" }

(* The classes of unicode that matter, and that the empty text is no number  *)
(* and no operator.                                                          *)
ASSUME LexerAssumption ==
  /\ Later \subseteq Expressions
  /\ Spaces \cap (Letters \cup Digits) = {} /\ Letters \cap Digits = {} /\ Lowercase \subseteq Letters
  /\ Punctuation \subseteq Ascii /\ "0" \in Digits /\ "x" \in Letters
  /\ (Punctuation \cup { RuneError, RuneSelf }) \cap (Spaces \cup Letters \cup Digits) = {}
  /\ ~ParseUint(<< >>) /\ ~ParseFloat(<< >>)
  /\ Symbol(<< >>) \notin DOMAIN prefixSymbols \cup modifierSymbols \cup logicalSymbols
                          \cup DOMAIN comparatorSymbols \cup DOMAIN ternarySymbols

VARIABLES
  tokens,   \* the tokens so far: kind, text, and from which to which rune
  reader,   \* the local variables of readUntilFalse, or NoReader
  status    \* whether parseTokens is reading, done or failed

vars == <<stream, pooled, tokens, reader, status>>

NoReader == [mode |-> "none"]

----------------------------------------------------------------------------
(* The conditions that end a text, by what is being read, and whether it may *)
(* hold white space.                                                         *)
isNumeric(r) == r \in Digits \cup { "." }
isNotQuote(r) == r \notin { "'", "\"" }
isVariableName(r) == r \in Letters \cup Digits \cup { "_", "." }
isNotAlphanumeric(r) == r \notin Digits \cup Letters \cup { "(", ")", "[", "]", "'", "\"" }

Goes(mode, r) ==
  CASE mode = "hex" -> r \in HexDigits
    [] mode = "numeric" -> isNumeric(r)
    [] mode = "bracket" -> r # "]"
    [] mode = "name" -> isVariableName(r)
    [] mode \in { "'", "\"" } -> r # mode
    [] mode = "symbol" -> isNotAlphanumeric(r)

Quoted == { "bracket", "'", "\"" }

(* readUntilFalse starts at the byte cursor; the token at a rune before it.  *)
Reader(mode, first, s) ==
  [mode |-> mode, first |-> first, start |-> s.strPosition, buffer |-> << >>,
   reuse |-> TRUE, trim |-> FALSE, conditioned |-> FALSE, finished |-> FALSE]

Reading == status = "reading" /\ reader = NoReader
Scanning == status = "reading" /\ reader # NoReader /\ ~reader.finished

(* The state of the lexer is the kind of the last token.                     *)
State == IF tokens = << >> THEN "UNKNOWN" ELSE tokens[Len(tokens)].kind

(* A token ends where the stream is, and the next one may begin.             *)
Emit(kind, text, first, s) ==
  /\ tokens' = Append(tokens, [kind |-> kind, text |-> text, first |-> first, last |-> s.position])
  /\ stream' = s
  /\ reader' = NoReader
  /\ UNCHANGED <<pooled, status>>

(* parseTokens returns the error; the stream is not given back.              *)
Fail ==
  /\ status' = "failed"
  /\ Abandon
  /\ UNCHANGED <<tokens, reader>>

----------------------------------------------------------------------------
(* parseTokens gets a stream.                                                *)
LexInit ==
  /\ pooled = << >>
  /\ \E string \in Expressions : stream = NewLexerStream(string)
  /\ tokens = << >>
  /\ reader = NoReader
  /\ status = "reading"

(* The source is read: the stream goes back to the pool.                     *)
LexDone ==
  /\ Reading /\ ~canRead(stream)
  /\ Close
  /\ status' = "done"
  /\ UNCHANGED <<tokens, reader>>

SkipSpace ==
  /\ Reading /\ canRead(stream) /\ Rune(stream) \in Spaces
  /\ stream' = readCharacter(stream)
  /\ UNCHANGED <<pooled, tokens, reader, status>>

Begins == Reading /\ canRead(stream) /\ Rune(stream) \notin Spaces
First == Rune(stream)
Second == readCharacter(stream)

StartReader(mode, s) ==
  /\ reader' = Reader(mode, stream.position, s)
  /\ stream' = s
  /\ UNCHANGED <<pooled, tokens, status>>

(* readToken: 0x followed by at least one character more.                    *)
IsHex ==
  /\ First = "0" /\ canRead(Second) /\ Rune(Second) = "x"
  /\ canRead(readCharacter(Second))

StartHex ==
  /\ Begins /\ IsHex
  /\ StartReader("hex", readCharacter(Second))

(* A look at the character after a zero is taken back, and so is the first   *)
(* character (readTokenUntilFalse).                                          *)
StartNumeric ==
  /\ Begins /\ isNumeric(First) /\ ~IsHex
  /\ StartReader("numeric",
       IF First = "0" /\ canRead(Second) THEN rewind(rewind(readCharacter(Second))) ELSE rewind(Second))

SingleKind == [ r \in { ",", "(", ")" } |->
  CASE r = "," -> "SEPARATOR" [] r = "(" -> "CLAUSE" [] OTHER -> "CLAUSE_CLOSE" ]

Single ==
  /\ Begins /\ First \in DOMAIN SingleKind
  /\ Emit(SingleKind[First], <<First>>, stream.position, Second)

StartQuoted ==
  /\ Begins /\ (First = "[" \/ ~isNotQuote(First))
  /\ StartReader(IF First = "[" THEN "bracket" ELSE First, Second)

StartName ==
  /\ Begins /\ First \in Letters
  /\ StartReader("name", rewind(Second))

StartSymbol ==
  /\ Begins /\ ~isNumeric(First) /\ First \notin Letters \cup DOMAIN SingleKind \cup { "[", "'", "\"" }
  /\ StartReader("symbol", rewind(Second))

----------------------------------------------------------------------------
(* readUntilFalse: what one turn of its loop does with a character.          *)
Character == Rune(stream)
International == Character \in DOMAIN Encoding \ { RuneSelf }

(* Mutant: runes of several bytes are taken from the source as well. *)
AlwaysReusable == reader.reuse

Reusable == reader.reuse /\ ~International

Turn(r, s) ==
  /\ reader' = r
  /\ stream' = s
  /\ UNCHANGED <<pooled, tokens, status>>

Write(rune) == [reader EXCEPT !.buffer = @ \o Encode(rune), !.reuse = Reusable]

(* A backslash and the character after it, whatever that is.                 *)
ReadEscaped ==
  /\ Scanning /\ canRead(stream) /\ Character = "\\" /\ canRead(Second)
  /\ Turn([reader EXCEPT !.buffer = @ \o Encode(Rune(Second)), !.reuse = FALSE], readCharacter(Second))

(* A backslash that ends the source.                                         *)
ReadIncomplete ==
  /\ Scanning /\ canRead(stream) /\ Character = "\\" /\ ~canRead(Second)
  /\ Turn([reader EXCEPT !.reuse = FALSE, !.finished = TRUE], Second)

Breaks == Character \in Spaces /\ reader.mode \notin Quoted /\ reader.buffer # << >>
Skips == Character \in Spaces /\ reader.mode \notin Quoted /\ reader.buffer = << >>

(* White space after a text is read with it and cut off again.               *)
BreakAtSpace ==
  /\ Scanning /\ canRead(stream) /\ Breaks
  /\ Turn([reader EXCEPT !.conditioned = TRUE, !.trim = TRUE, !.reuse = Reusable, !.finished = TRUE], Second)

(* White space before a text, which only 0x can have.                        *)
SkipInside ==
  /\ Scanning /\ canRead(stream) /\ Skips
  /\ Turn([reader EXCEPT !.reuse = FALSE], Second)

ReadPart ==
  /\ Scanning /\ canRead(stream) /\ Character # "\\" /\ ~Breaks /\ ~Skips /\ Goes(reader.mode, Character)
  /\ Turn(Write(Character), Second)

(* The character that ends the text is taken back.                           *)
ReadEnd ==
  /\ Scanning /\ canRead(stream) /\ Character # "\\" /\ ~Breaks /\ ~Skips /\ ~Goes(reader.mode, Character)
  /\ Turn([reader EXCEPT !.conditioned = TRUE, !.reuse = Reusable, !.finished = TRUE], rewind(Second))

(* Mutant: the loop does not end with the source. *)
BusySourceEnds ==
  /\ Scanning /\ ~canRead(stream)
  /\ Turn(reader, stream)

SourceEnds ==
  /\ Scanning /\ ~canRead(stream)
  /\ Turn([reader EXCEPT !.finished = TRUE], stream)

(* A part of the source string if it is the text as it stands, else what was *)
(* written to the buffer.                                                    *)
ReusedText ==
  SubSeq(stream.sourceString, reader.start + 1, stream.strPosition - (IF reader.trim THEN 1 ELSE 0))
Text == IF reader.reuse THEN ReusedText ELSE reader.buffer

----------------------------------------------------------------------------
(* readToken: what the text of the token is.                                 *)
Ends(mode) == status = "reading" /\ reader # NoReader /\ reader.finished /\ reader.mode = mode

Number ==
  \/ Ends("hex") /\ IF ParseUint(Text) THEN Emit("NUMERIC", Text, reader.first, stream) ELSE Fail
  \/ Ends("numeric") /\ IF ParseFloat(Text) THEN Emit("NUMERIC", Text, reader.first, stream) ELSE Fail

(* The closing bracket or quote is skipped; without one the token fails.     *)
BracketName ==
  /\ Ends("bracket")
  /\ IF reader.conditioned THEN Emit("VARIABLE", Text, reader.first, forward(stream)) ELSE Fail

(* Mutant: a literal that the source ends in is complete. *)
UnclosedString ==
  \E q \in { "'", "\"" } :
    /\ Ends(q)
    /\ Emit(IF tryParseTime(Text) THEN "TIME" ELSE "STRING", Text, reader.first, forward(stream))

String ==
  \E q \in { "'", "\"" } :
    /\ Ends(q)
    /\ IF reader.conditioned
       THEN Emit(IF tryParseTime(Text) THEN "TIME" ELSE "STRING", Text, reader.first, forward(stream))
       ELSE Fail

Boolean(text) == text \in { <<"t", "r", "u", "e">>, <<"f", "a", "l", "s", "e">> }
In(text) == text \in { <<"i", "n">>, <<"I", "N">> }

HasPeriod(text) == \E k \in DOMAIN text : text[k] = "."

(* The runes that follow the periods of an accessor: none may be unexported. *)
Unexported(text) ==
  LET runes == RunesOf(text)
  IN \E k \in 1..(Len(runes) - 1) : runes[k] = "." /\ runes[k + 1] \in Lowercase

(* An accessor comes before a function, a function before a keyword.         *)
Name ==
  /\ Ends("name")
  /\ IF HasPeriod(Text)
     THEN IF Text[Len(Text)] = "." \/ Unexported(Text) THEN Fail
          ELSE Emit("ACCESSOR", Text, reader.first, stream)
     ELSE Emit(CASE Text \in Functions -> "FUNCTION"
                 [] Boolean(Text) -> "BOOLEAN"
                 [] In(Text) -> "COMPARATOR"
                 [] OTHER -> "VARIABLE", Text, reader.first, stream)

(* Mutant: a text in none of the tables is taken for a modifier. *)
LenientSymbol ==
  /\ Ends("symbol")
  /\ LET s == Symbol(Text)
         kind == CASE canTransitionTo(State, "PREFIX") /\ s \in DOMAIN prefixSymbols -> "PREFIX"
                   [] s \in logicalSymbols -> "LOGICALOP"
                   [] s \in DOMAIN comparatorSymbols -> "COMPARATOR"
                   [] s \in DOMAIN ternarySymbols -> "TERNARY"
                   [] OTHER -> "MODIFIER"
     IN Emit(kind, Text, reader.first, stream)

(* A sign is a prefix where the last token lets one follow, and a modifier   *)
(* elsewhere; a text in none of the tables fails, the empty one too.         *)
OperatorSymbol ==
  /\ Ends("symbol")
  /\ LET s == Symbol(Text)
         kind == CASE canTransitionTo(State, "PREFIX") /\ s \in DOMAIN prefixSymbols -> "PREFIX"
                   [] s \in modifierSymbols -> "MODIFIER"
                   [] s \in logicalSymbols -> "LOGICALOP"
                   [] s \in DOMAIN comparatorSymbols -> "COMPARATOR"
                   [] s \in DOMAIN ternarySymbols -> "TERNARY"
                   [] OTHER -> "invalid"
     IN IF kind = "invalid" THEN Fail ELSE Emit(kind, Text, reader.first, stream)

Start == StartHex \/ StartNumeric \/ Single \/ StartQuoted \/ StartName \/ StartSymbol
ReadUntilFalse ==
  ReadEscaped \/ ReadIncomplete \/ BreakAtSpace \/ SkipInside \/ ReadPart \/ ReadEnd \/ SourceEnds
Token == Number \/ BracketName \/ String \/ Name \/ OperatorSymbol

(* Another expression, with a stream from the pool.                          *)
LexAgain ==
  /\ status # "reading"
  /\ \E string \in Later : stream' = NewLexerStream(string)
  /\ pooled' = << >>
  /\ tokens' = << >>
  /\ reader' = NoReader
  /\ status' = "reading"

LexStep == LexDone \/ SkipSpace \/ Start \/ ReadUntilFalse \/ Token
LexNext == LexStep \/ LexAgain

(* Nothing interrupts a call.                                                *)
LexSpec == LexInit /\ [][LexNext]_vars /\ WF_vars(LexStep)

----------------------------------------------------------------------------
(* Tokens follow each other in the source, and readUntilFalse stays in it.   *)
LexerTypeOK ==
  /\ status \in { "reading", "done", "failed" }
  /\ stream.open <=> status = "reading"
  /\ \A k \in DOMAIN tokens :
        tokens[k].kind \in TokenKinds \ { "UNKNOWN", "PATTERN" } /\ tokens[k].first < tokens[k].last
  /\ reader # NoReader => reader.start \in Nat /\ reader.first \in Nat
  /\ reader # NoReader /\ stream.open => reader.first <= stream.position

(* Reference: all that lies between the tokens, before the first and after   *)
(* the last is white space.                                                  *)
OnlySpaceBetween ==
  LET n == Len(tokens)
      ends == [k \in 0..n |-> IF k = 0 THEN 0 ELSE tokens[k].last]
      next == [k \in 1..(n + 1) |->
                 IF k <= n THEN tokens[k].first
                 ELSE IF reader = NoReader THEN stream.position ELSE reader.first]
  IN \A k \in 0..n : \A i \in (ends[k] + 1)..next[k + 1] : stream.source[i] \in Spaces

(* Reference: the text that the runes of a token stand for, without its      *)
(* delimiters, its backslashes and white space outside brackets and quotes.  *)
Closing(rune) == IF rune = "[" THEN "]" ELSE rune

MeaningFrom(body, quoted) ==
  LET from[i \in 1..(Len(body) + 2)] ==
        IF i > Len(body) THEN << >>
        ELSE IF body[i] = "\\" THEN (IF i = Len(body) THEN << >> ELSE Encode(body[i + 1])) \o from[i + 2]
        ELSE IF body[i] \in Spaces /\ ~quoted THEN from[i + 1]
        ELSE Encode(body[i]) \o from[i + 1]
  IN from

Meaning(runes) ==
  LET quoted == runes[1] \in { "[", "'", "\"" }
      hex == Len(runes) > 2 /\ runes[1] = "0" /\ runes[2] = "x"
      body == IF quoted THEN SubSeq(runes, 2, Len(runes) - 1)
              ELSE IF hex THEN SubSeq(runes, 3, Len(runes)) ELSE runes
  IN MeaningFrom(body, quoted)[1]

(* A string or a bracketed name ends at its own terminator, and a source     *)
(* that ends before it, also with a backslash, is refused (issue 94 and the  *)
(* incomplete escape at the end, in readToken and readUntilFalse).           *)
LiteralsClosed ==
  \A k \in DOMAIN tokens :
    LET first == stream.source[tokens[k].first + 1]
        last == stream.source[tokens[k].last]
    IN first \in { "[", "'", "\"" } =>
         /\ tokens[k].last > tokens[k].first + 1
         /\ last = Closing(first)
         /\ tokens[k].kind \in { "VARIABLE", "STRING", "TIME" }

(* A token has the text that is written at its place, whether it was copied  *)
(* rune by rune or cut out of the source by the byte cursor: escapes, white  *)
(* space of any width and bytes that are no UTF-8 included.  Nothing between *)
(* tokens is passed over and nothing read twice: the rewinds of readToken,   *)
(* readTokenUntilFalse and readUntilFalse balance.                           *)
TextAsWritten ==
  stream.open =>
    /\ OnlySpaceBetween
    /\ LiteralsClosed
    /\ \A k \in DOMAIN tokens :
         tokens[k].text = Meaning(SubSeq(stream.source, tokens[k].first + 1, tokens[k].last))

(* Every source is lexed to its end or refused: each turn of parseTokens     *)
(* takes at least a character, also when nothing in it is known.             *)
LexEnds == []<>(status # "reading")

=============================================================================
