------------------------------ MODULE Screening ------------------------------
(***************************************************************************)
(* The static checks of expressions and parameter names: the two           *)
(* expression validators, which know words, brackets and quotes, and the   *)
(* name sanitizer.  A text is typed symbol by symbol; a symbol stands for  *)
(* a class of characters, or for one of the words that are looked for,     *)
(* itself made of identifier characters.  The lists of the two validators  *)
(* differ: "load" stands for the names in both, "rawlen" and "execute" for *)
(* those in the first and in the second only, and "os" for the tables that *)
(* the first forbids one function of, and the second altogether.           *)
(***************************************************************************)
EXTENDS Integers, SequencesExt

CONSTANTS
  Symbols,        \* of the words, "letter", "digit", "space", ".", "(", ")", "dq", "sq", "\\",
                  \* "nul"
  Reserved,       \* texts that are reserved names
  maxLength, maxParameterNameLength, maxParameterValueLength,
  MaxText         \* bound: symbols typed

ASSUME ScreeningAssumption ==
  /\ maxLength \in Nat /\ maxParameterNameLength \in Nat \ {0}
  /\ maxParameterValueLength \in Nat /\ MaxText \in Nat

VARIABLE text
screeningVars == <<text>>

ScreeningInit == text = <<>>
TypeSymbol(c) == Len(text) < MaxText /\ text' = Append(text, c)
ScreeningNext == \E c \in Symbols : TypeSymbol(c)

Words == {"load", "rawlen", "execute", "os"}

(* isIdentifierChar *)
IsIdentifierChar(c) == c \in Words \cup {"letter", "digit"}
IsIdentifierStart(c) == c \in Words \cup {"letter"}

(* A bug: what follows the occurrence is not looked at. *)
AtStartBoundaryOnly(s, i, j) == i = 1 \/ ~IsIdentifierChar(s[i - 1])

(* An occurrence at i .. j counts only where identifier characters end on    *)
(* both of its sides.                                                        *)
AtIdentifierBoundary(s, i, j) ==
  /\ i = 1 \/ ~IsIdentifierChar(s[i - 1])
  /\ j = Len(s) \/ ~IsIdentifierChar(s[j + 1])
Occurs(s, i, pattern) == SubSeq(s, i, i + Len(pattern) - 1) = pattern
ContainsAtIdentifierBoundary(s, pattern) ==
  \E i \in 1 .. Len(s) - Len(pattern) + 1 :
    Occurs(s, i, pattern) /\ AtIdentifierBoundary(s, i, i + Len(pattern) - 1)

(* ExpressionValidator::findDangerousPatterns, which has "package" and       *)
(* "rawlen" and of the libraries single functions, and                       *)
(* LuaExpressionValidator::checkDangerousPatterns, which looks for the names *)
(* of libraries and a dot anywhere, in a longer identifier too.              *)
FindDangerousPatterns(s) ==
  \E pattern \in {<<"load">>, <<"rawlen">>, <<"os", ".", "execute">>} :
    ContainsAtIdentifierBoundary(s, pattern)
CheckDangerousPatterns(s) ==
  \/ \E i \in 1 .. Len(s) - 1 : Occurs(s, i, <<"os", ".">>)
  \/ \E pattern \in {<<"load">>, <<"execute">>} : ContainsAtIdentifierBoundary(s, pattern)

Count(s, c) == Len(SelectSeq(s, LAMBDA d : d = c))

(* The quote that is open after each symbol; a quote closes its string       *)
(* unless a backslash stands before it.                                      *)
OpenQuote(s) ==
  LET open[k \in 0 .. Len(s)] ==
        IF k = 0 THEN "none"
        ELSE IF open[k - 1] = "none" THEN IF s[k] \in {"dq", "sq"} THEN s[k] ELSE "none"
        ELSE IF s[k] = open[k - 1] /\ s[k - 1] # "\\" THEN "none" ELSE open[k - 1]
  IN open[Len(s)]

(* ExpressionValidator::validate; brackets are counted, in strings too. *)
Validate(s) ==
  \/ s = <<>>
  \/ /\ ~FindDangerousPatterns(s)
     /\ Count(s, "(") = Count(s, ")")
     /\ OpenQuote(s) = "none"
IsValidLuaSyntax(s) == s = <<>> \/ Validate(s)

(* LuaExpressionValidator::validate; here no bracket may close too early. *)
NeverClosesEarly(s) ==
  \A k \in DOMAIN s : Count(SubSeq(s, 1, k), ")") <= Count(SubSeq(s, 1, k), "(")
Balanced(s) == NeverClosesEarly(s) /\ Count(s, "(") = Count(s, ")")
ValidateExpression(s) ==
  /\ Len(s) <= maxLength
  /\ \E i \in DOMAIN s : s[i] # "space"
  /\ ~CheckDangerousPatterns(s)
  /\ Balanced(s)

(* ParameterValidator::validateName and sanitizeName *)
ValidateName(s) ==
  /\ s # <<>> /\ Len(s) <= maxParameterNameLength /\ s \notin Reserved
  /\ IsIdentifierStart(s[1]) /\ \A i \in DOMAIN s : IsIdentifierChar(s[i])
CutAt(s, n) == SubSeq(s, 1, IF Len(s) < n THEN Len(s) ELSE n)
CutName(s) == CutAt(s, maxParameterNameLength)
WithStart(s) == IF s # <<>> /\ ~IsIdentifierStart(s[1]) THEN <<"letter">> \o s ELSE s
SanitizeName(s) == CutName(WithStart(SelectSeq(s, IsIdentifierChar)))

(* validateValue, sanitizeValue and sanitize of expressions *)
WithoutNul(s) == SelectSeq(s, LAMBDA c : c # "nul")
ValidateValue(s) == Len(s) <= maxParameterValueLength /\ Count(s, "nul") = 0
SanitizeValue(s) == CutAt(WithoutNul(s), maxParameterValueLength)
Sanitize(s) == CutAt(WithoutNul(s), maxLength)

-----------------------------------------------------------------------------
(* extractParameterNames: what the scanner is in after each symbol.  Inside  *)
(* a string a backslash takes the next symbol with it.                       *)
NextMode(mode, c, next) ==
  CASE mode \in {"dq\\", "sq\\"} -> IF mode = "dq\\" THEN "dq" ELSE "sq"
    [] mode \in {"dq", "sq"} -> IF c = mode THEN "code" ELSE IF c # "\\" THEN mode
                               ELSE IF mode = "dq" THEN "dq\\" ELSE "sq\\"
    [] c \in {"dq", "sq"} -> c
    [] mode = "name" /\ IsIdentifierChar(c) -> "name"
    [] mode = "number" /\ c \in {"digit", "."} -> "number"
    [] c = "digit" \/ (c = "." /\ next = "digit") -> "number"
    [] IsIdentifierStart(c) -> "name"
    [] OTHER -> "code"
Modes(s) ==
  LET mode[k \in 0 .. Len(s)] ==
        IF k = 0 THEN "code" ELSE NextMode(mode[k - 1], s[k], IF k < Len(s) THEN s[k + 1] ELSE "")
  IN mode

(* The symbols that are not spaces next to the name at i .. j. *)
IsField(s, i) ==
  \E k \in 1 .. i - 1 : s[k] = "." /\ \A m \in k + 1 .. i - 1 : s[m] = "space"
IsFunction(s, j) ==
  \E k \in j + 1 .. Len(s) : s[k] = "(" /\ \A m \in j + 1 .. k - 1 : s[m] = "space"

(* luaKeywords and builtins *)
IsKnownWord(s) == s \in {<<"load">>, <<"rawlen">>, <<"os">>}

(* Where names are that are neither fields nor functions nor known words. *)
ExtractParameterNames(s) ==
  LET mode == Modes(s) IN
    UNION {{<<i, j>> : j \in
      {l \in i .. Len(s) :
         /\ \A k \in i .. l : mode[k] = "name"
         /\ mode[i - 1] # "name" /\ (l = Len(s) \/ mode[l + 1] # "name")
         /\ ~IsField(s, i) /\ ~IsFunction(s, l) /\ ~IsKnownWord(SubSeq(s, i, l))}} : i \in DOMAIN s}

-----------------------------------------------------------------------------
ScreeningTypeOK == text \in Seq(Symbols) /\ Len(text) <= MaxText

(* The reference for names cuts the text into its longest runs of identifier *)
(* characters.                                                               *)
Identifiers(s) ==
  {id \in (DOMAIN s) \X (DOMAIN s) :
     /\ id[1] <= id[2] /\ \A k \in id[1] .. id[2] : IsIdentifierChar(s[k])
     /\ id[1] = 1 \/ ~IsIdentifierChar(s[id[1] - 1])
     /\ id[2] = Len(s) \/ ~IsIdentifierChar(s[id[2] + 1])}
HasIdentifier(s, w) == \E id \in Identifiers(s) : SubSeq(s, id[1], id[2]) = <<w>>

(* "load" is found as an identifier of its own and never inside "payload" or  *)
(* "load_type": both searches agree with cutting the text into identifiers.   *)
(* The second one is exact for the bare names only.                           *)
WordsAreWholeIdentifiers ==
  /\ FindDangerousPatterns(text) <=>
       \/ HasIdentifier(text, "load") \/ HasIdentifier(text, "rawlen")
       \/ \E i \in DOMAIN text :
            /\ <<i, i>> \in Identifiers(text) /\ text[i] = "os"
            /\ <<i + 2, i + 2>> \in Identifiers(text) /\ text[i + 2] = "execute"
            /\ text[i + 1] = "."
  /\ Count(text, "os") = 0 =>
       (CheckDangerousPatterns(text) <=>
          HasIdentifier(text, "load") \/ HasIdentifier(text, "execute"))

(* The reference for strings is the lexer of Lua, which pairs backslashes. *)
LexerQuote(s) ==
  LET lex[k \in 0 .. Len(s)] ==
        IF k = 0 THEN [quote |-> "none", escaped |-> FALSE]
        ELSE IF lex[k - 1].quote = "none"
          THEN [quote |-> IF s[k] \in {"dq", "sq"} THEN s[k] ELSE "none", escaped |-> FALSE]
        ELSE IF lex[k - 1].escaped THEN [quote |-> lex[k - 1].quote, escaped |-> FALSE]
        ELSE [quote |-> IF s[k] = lex[k - 1].quote THEN "none" ELSE lex[k - 1].quote,
              escaped |-> s[k] = "\\"]
  IN lex[Len(s)].quote

(* The scan for unclosed strings finds what the lexer finds, with quotes of   *)
(* both kinds nested and escaped, as long as no backslash follows another.    *)
QuotesAsTheLexer ==
  (\A i \in 1 .. Len(text) - 1 : ~(text[i] = "\\" /\ text[i + 1] = "\\"))
    => (OpenQuote(text) = LexerQuote(text))

(* The dot of a field access is a token of its own: no part of ".." and not   *)
(* the end of a numeral.                                                      *)
EndsNumeral(s, k) ==
  \E a \in 1 .. k :
    /\ \A m \in a .. k : s[m] \in {"digit", "."}
    /\ a = 1 \/ ~IsIdentifierChar(s[a - 1])
    /\ s[a] = "digit" \/ (a < k /\ s[a + 1] = "digit")
FieldAccess(s, i) ==
  \E k \in 1 .. i - 1 :
    /\ s[k] = "." /\ \A m \in k + 1 .. i - 1 : s[m] = "space"
    /\ k = 1 \/ (s[k - 1] # "." /\ ~EndsNumeral(s, k - 1))

(* "standalone variables (not field accesses, not function names)" *)
FreeVariables(s) ==
  {id \in Identifiers(s) :
     /\ IsIdentifierStart(s[id[1]]) /\ LexerQuote(SubSeq(s, 1, id[1] - 1)) = "none"
     /\ ~IsKnownWord(SubSeq(s, id[1], id[2]))
     /\ ~FieldAccess(s, id[1]) /\ ~IsFunction(s, id[2])}

(* The names a chunk is recorded with are its free variables, and the scanner *)
(* misses only those behind a dot that is no field access, of a concatenation *)
(* or a numeral ("the extracted parameter list may miss identifiers").  A     *)
(* number that letters follow, as in hexadecimal, is left out here: the       *)
(* scanner takes the letters for a name.                                      *)
ParametersAreFreeVariables ==
  (\A k \in 2 .. Len(text) : ~(text[k - 1] = "digit" /\ IsIdentifierStart(text[k]))) =>
    /\ ExtractParameterNames(text) \subseteq FreeVariables(text)
    /\ \A id \in FreeVariables(text) \ ExtractParameterNames(text) :
         \E k \in 1 .. id[1] - 1 :
           /\ text[k] = "." /\ \A m \in k + 1 .. id[1] - 1 : text[m] = "space"
           /\ k > 1 /\ text[k - 1] \in {".", "digit"}

(* Of a text without quotes that the validator for input accepts, and without *)
(* the names that are in the list of Rule::compile only, Rule::compile finds  *)
(* nothing to object to.                                                      *)
AcceptedInputCompiles ==
  /\ ValidateExpression(text) /\ ~HasIdentifier(text, "rawlen")
  /\ Count(text, "dq") = 0 /\ Count(text, "sq") = 0
  => Validate(text)

(* What the sanitizer makes of a name the validator accepts, unless nothing is *)
(* left of it or what is left is reserved; sanitizing it again changes nothing. *)
(* Sanitized values are accepted too, and expressions short enough.           *)
SanitizedIsAccepted ==
  LET s == SanitizeName(text) IN
    /\ s = <<>> \/ s \in Reserved \/ ValidateName(s)
    /\ SanitizeName(s) = s
    /\ ValidateValue(SanitizeValue(text)) /\ Len(Sanitize(text)) <= maxLength

(* "Performs syntax validation without dangerous pattern checks."             *)
(* (expression_validator.cpp:251, of isValidLuaSyntax): brackets and quotes   *)
(* that fit are enough.                                                       *)
SyntaxIsCheckedAlone ==
  Count(text, "(") = Count(text, ")") /\ OpenQuote(text) = "none" => IsValidLuaSyntax(text)

(* The scanners agree with the lexer on words, quotes, names and parameters, *)
(* and the validators with each other but for their lists.                   *)
ScreeningIsExact ==
  ScreeningTypeOK /\ WordsAreWholeIdentifiers /\ QuotesAsTheLexer /\ AcceptedInputCompiles
    /\ SanitizedIsAccepted /\ ParametersAreFreeVariables
=============================================================================
