------------------------------ MODULE MCLexer ------------------------------
(***************************************************************************)
(* All sources of up to three characters over what readToken tells apart,  *)
(* and longer ones for keywords, accessors, escapes, white space and runes *)
(* of several bytes.  A stream that was given back reads one of MCLater    *)
(* next.                                                                   *)
(***************************************************************************)
EXTENDS Lexer, TLC, SequencesExt

MCEncoding ==
  (RuneError :> <<"ef", "bf", "bd">>) @@ (RuneSelf :> <<"c2", "80">>)
    @@ ("e-acute" :> <<"c3", "a9">>) @@ ("no-break space" :> <<"c2", "a0">>)

Signs == { "-", "&", "?", "!", ">", "=" }
MCAscii ==
  { "a", "A", "0", "1", "x", ".", "_", " ", "'", "\"", "[", "]", "(", ")", ",", "\\", "\t",
    "t", "r", "u", "e", "i", "n" } \cup Signs

MCBytes == MCAscii \cup { "ef", "bf", "bd", "c2", "80", "c3", "a9", "a0" }

MCSpaces == { " ", "\t", "no-break space" }
MCLowercase == { "a", "x", "t", "r", "u", "e", "i", "n", "e-acute" }
MCLetters == MCLowercase \cup { "A" }
MCDigits == { "0", "1" }
MCHexDigits == MCDigits \cup { "a", "A", "e" }
MCFunctions == { <<"a", "a">> }

Some(text, set) == \E k \in DOMAIN text : text[k] \in set
MCParseFloat(text) ==
  /\ \A k \in DOMAIN text : text[k] \in MCDigits \cup { "." }
  /\ Some(text, MCDigits)
  /\ \A j, k \in DOMAIN text : text[j] = "." /\ text[k] = "." => j = k
MCParseUint(text) == text # << >> /\ \A k \in DOMAIN text : text[k] \in MCHexDigits
MCTime(text) == text # << >> /\ \A k \in DOMAIN text : text[k] \in { "1", "-" }
MCSymbol(text) ==
  CASE text \in { <<s>> : s \in { "-", "&", "?", "!", ">" } } -> text[1]
    [] text = <<"&", "&">> -> "&&"
    [] text = <<"?", "?">> -> "??"
    [] text = <<">", "=">> -> ">="
    [] OTHER -> "unknown"

Short == { "a", "0", "x", ".", " ", "'", "\"", "[", "]", "(", "\\", "-" }
TwoByte == { <<"c3", "a9">>, <<"c2", "a0">>, <<"c2", "80">>, <<"ef", "bf", "bd">>, <<"c3">> }

Around ==
  { << >>, <<" ">>, <<"a">>, <<"a", "a">>, <<"'">>, <<"[">>, <<"-">>, <<"0">>, <<"0", "x">>, <<"\\">> }
After == { << >>, <<"a">>, <<"'">>, <<"]">>, <<" ", "a">>, <<"-", "a">>, <<"\\">>, <<"'", "-", "1">> }

MCLater == { <<"a", "-", "1">>, <<"c3", "a9">> }

MCExpressions ==
  UNION { [1..n -> Short] : n \in 0..3 }
  \cup { x \o b \o y : x \in Around, b \in TwoByte, y \in After }
  \cup { x \o b \o d \o y : x \in { <<"a">>, <<"'">> }, b, d \in TwoByte, y \in { << >>, <<"'">>, <<" ">> } }
  \cup { <<"t", "r", "u", "e">>, <<"a", " ", "i", "n", " ", "(", "1", ",", "\t", "1", ")">>,
         <<"a", "a", "(", "-", "1", ")">>, <<"a", "&", "&", "!", "a">>, <<"a", "&", "&", " ", "!", "a">>,
         <<"a", "?", "?", " ", "-", "1">>, <<"a", ">", "=", "A">>, <<"a", ".", "A", ".", "A", "_">>,
         <<"a", ".", "A", ".">>, <<"a", ".", "a">>, <<"a", ".", ".", "A">>, <<"a", "\\", "-", "a", " ", "-", "a">>,
         <<"[", "a", " ", "-", "\\", "]", "]", "-", "1">>, <<"'", "1", "-", "1", "'", "-", "1">>,
         <<"'", "\"", "'", " ", "\"", "'", "\"">>, <<"'", "a", "\\", "'", "'">>,
         <<"0", "x", "a", "A", "-", "1">>, <<"0", "x", " ", "1", " ", "1">>, <<"0", "1", ".", "1", ".", "1">>,
         <<"\\", "-", "a">>, <<"a", "-", "1">>, <<"a", " ", "\\", "&", "\\", "&", "a">>, <<"0", " ", "0", "x">> }

=============================================================================
