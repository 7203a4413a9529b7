------------------------------ MODULE Windows ------------------------------
(***************************************************************************)
(* The windows of bytes that the validators of internal/rules/validators   *)
(* look at, and the byte classes, scans and tests of values they share.    *)
(*                                                                         *)
(* A byte is a character that stands for its class: a run of "k" is a run  *)
(* of assorted lower-case letters, "K" of upper-case ones, "a" and "A" of  *)
(* hexadecimal ones, "2" of digits from 2 on; "x", "z", "Z" and "0" are    *)
(* themselves, repeated, "w" the letters of dictionary words, "n" and "N"  *)
(* those of the literals that rules and validators look for, "n", "r" and  *)
(* "t" also those of escapes.  Where the literals are is noted beside the  *)
(* bytes, in words; a string is the sequence of its letters, so Len(word)  *)
(* is a literal's width.  Offsets are Go's: the first byte of a window has *)
(* offset 0, and a span is half open.                                      *)
(***************************************************************************)
EXTENDS Integers, Sequences, SequencesExt

LowerHexLetter == {"a"}
Lower     == LowerHexLetter \cup {"k", "n", "r", "t", "w", "x", "z"}
Upper     == {"A", "K", "N", "O", "Z"}
Digit     == {"0", "2"}
Letter    == Lower \cup Upper

(* isAlnum, isLowerAlnum, isLowerHex, isHexByte, isUpperOrDigit,           *)
(* isBase32Upper, isBase58 (which has no 0 and no O).                      *)
Alnum        == Letter \cup Digit
LowerAlnum   == Lower \cup Digit
LowerHex     == LowerHexLetter \cup Digit
HexByte      == LowerHex \cup {"A"}
UpperOrDigit == Upper \cup Digit
Base32Upper  == Upper \cup {"2"}
Base58       == Alnum \ {"0", "O"}

(* isTokenChar (also isURLSafeChar, isAlnumExt, isGCPKeyChar,              *)
(* isBase64URLByte), isAzureBase64Char (also isGrafanaCloudTokenChar,      *)
(* isBedrockBase64Char), isAWSSecretChar (also isBase64Char, pemIsBase64), *)
(* isJWTSignatureByte, isTerraformSecretChar, isDopplerLabelChar.          *)
TokenChar        == Alnum \cup {"-", "_"}
Base64Char       == Alnum \cup {"/", "+"}
PaddedBase64     == Base64Char \cup {"="}
JWTSignatureByte == TokenChar \cup {"/", "+"}
TerraformChar    == TokenChar \cup {"="}
DopplerLabel     == LowerAlnum \cup {"-", "_"}

(* isSpaceByte, isQuoteByte ("bq" is the backtick), isPrintableByte.       *)
Blank     == {" ", "\t"}
LineBreak == {"\n", "\r"}
QuoteByte == {"\"", "'", "bq"}
Punctuation == {"-", "_", "\"", "'", "bq", "/", "+", "=", ".", ":", ",", ";", "~", "$", "{", "}",
                "(", ")", "[", "]", "<", ">", "@", "%", "?", "#", "&", "|", "\\", "!"}
Printable   == Alnum \cup Punctuation

----------------------------------------------------------------------------
(* A window: its bytes, the words in it, each [at, word], and the trigger  *)
(* occurrence [trigStart, trigEnd), whose literal is trigger.              *)

Size(w)  == Len(w.bytes)
At(w, p) == w.bytes[p + 1]

Sees(w, p, S) == 0 <= p /\ p < Size(w) /\ At(w, p) \in S

AllIn(w, from, to, S) == \A p \in from .. (to - 1) : At(w, p) \in S

(* A word at p; one of several somewhere in [from, to).                    *)
Reads(w, p, word) == [at |-> p, word |-> word] \in w.words
Has(w, from, to, words) ==
    \E h \in w.words : h.word \in words /\ from <= h.at /\ h.at + Len(h.word) <= to

(* The first byte of S from p on, or else to.  Where the longest run of    *)
(* bytes of S that starts at p ends, and where the one that ends at p      *)
(* starts.                                                                 *)
FirstIn(w, p, to, S) == Min({q \in p .. (to - 1) : At(w, q) \in S} \cup {to})
RunEnd(w, p, S)      == Min({q \in p .. (Size(w) - 1) : At(w, q) \notin S} \cup {Size(w)})
RunStart(w, p, S)    == Min({q \in 0 .. p : AllIn(w, q, p, S)})

SkipSpaces(w, p) == RunEnd(w, p, Blank)

(* What a validator answers: a span, or none.                              *)
NoSpan == [start |-> 0, end |-> 0]
Span(from, to) == [start |-> from, end |-> to]

----------------------------------------------------------------------------
(* Values that stand in for a secret, and values too plain to be one       *)
(* (isPlaceholder, hasRepeatRun, and the package entropy).                 *)

(* Bytes that are themselves, not one of a class.                          *)
Itself == {"x", "z", "Z", "0"} \cup Punctuation
Same(w, from, to) == AllIn(w, from, to, {At(w, from)})
RepeatRun(w, from, to, n) ==
    \E p \in from .. (to - n) : At(w, p) \in Itself /\ Same(w, p, p + n)

(* One of the keyword lists' words stands for them all; so does a digit    *)
(* run of zeros, and four x.                                               *)
StandInWords == {"example", "password"}
StandIn(w, from, to) ==
    \/ Has(w, from, to, StandInWords)
    \/ \E p \in from .. (to - 4), c \in {"x", "0"} : AllIn(w, p, p + 4, {c})
    \/ to - from = 6 /\ Reads(w, from, "secret")

(* $NAME$NAME..., unless it is a password hash ("$2b$..."); ${...}, $(...),*)
(* {...}.                                                                  *)
ModularCryptHash(w, from) == Reads(w, from, "$2b$")
ShellVariables(w, from, to) ==
    /\ to - from >= 2 /\ AllIn(w, from, to, Alnum \cup {"$", "_"})
    /\ \A p \in from .. (to - 1) :
          At(w, p) = "$" => p + 1 < to /\ At(w, p + 1) \in Letter \cup {"_"}
Enclosed(w, from, to, open, close) ==
    to - from >= 2 /\ At(w, from) = open /\ At(w, to - 1) = close
TemplateRef(w, from, to) ==
    IF At(w, from) = "$"
    THEN \/ Enclosed(w, from + 1, to, "{", "}") \/ Enclosed(w, from + 1, to, "(", ")")
         \/ ~ModularCryptHash(w, from) /\ ShellVariables(w, from, to)
    ELSE to - from >= 3 /\ Enclosed(w, from, to, "{", "}")

IsPlaceholder(w, from, to) ==
    \/ from = to
    \/ to = from + 1
    \/ At(w, from) \in Itself /\ Same(w, from, to)
    \/ Enclosed(w, from, to, "<", ">")
    \/ TemplateRef(w, from, to)
    \/ StandIn(w, from, to)

(* isPlaceholder of the validators: x's between separators, and ellipses.  *)
Placeholder(w, from, to) ==
    \/ IsPlaceholder(w, from, to)
    \/ AllIn(w, from, to, {"x", "-", "_"}) /\ ~AllIn(w, from, to, {"-", "_"})
    \/ \E p \in from .. (to - 3) : AllIn(w, p, p + 3, {"."})

IsUUID(w, from, to) ==
    /\ to - from = 36
    /\ \A i \in 0 .. 35 : At(w, from + i) \in (IF i \in {8, 13, 18, 23} THEN {"-"} ELSE HexByte)
IsHexHash(w, from, to)   == to - from \in {32, 40, 64, 96, 128} /\ AllIn(w, from, to, HexByte)
IsAllDigits(w, from, to) == from < to /\ AllIn(w, from, to, Digit)

(* Shannon's entropy is that of the symbols a value can have: as many as   *)
(* there are in the classes of its bytes, and no more than it has bytes.   *)
(* Bits b are reached with 2^b of them: 11 for 3.4, 13 for 3.7, 19 for 4.2.*)
Symbols == ("a" :> 6) @@ ("k" :> 18) @@ ("A" :> 6) @@ ("K" :> 18) @@ ("2" :> 8) @@
           [c \in {"n", "w", "N"} |-> 10]
Spread(w, from, to) ==
    LET places(c)    == {p \in from .. (to - 1) : At(w, p) = c}
        SymbolsOf(c) == Min({Cardinality(places(c)), IF c \in DOMAIN Symbols THEN Symbols[c] ELSE 1})
    IN  Cardinality(UNION {{c} \X (1 .. SymbolsOf(c)) : c \in {At(w, p) : p \in from .. (to - 1)}})

(* isWordlikeEntropy, of what is neither a UUID nor a digest.              *)
Wordlike(w, from, to) ==
    LET letters == Cardinality({p \in from .. (to - 1) : At(w, p) \in Lower})
    IN  /\ AllIn(w, from, to, Lower \cup {"-", "_"})
        /\ letters > 0 /\ 10 * letters >= 8 * (to - from)
        /\ ~IsUUID(w, from, to) /\ ~IsHexHash(w, from, to)
        /\ Spread(w, from, to) < 19

Secretlike(w, from, to, preset) ==
    /\ preset.min <= to - from /\ to - from <= preset.max
    /\ ~IsPlaceholder(w, from, to)
    /\ preset.repeats > 0 => ~RepeatRun(w, from, to, preset.repeats + 1)
    /\ ~IsUUID(w, from, to) /\ ~IsAllDigits(w, from, to)
    /\ preset.hashes \/ ~IsHexHash(w, from, to)
    /\ ~Wordlike(w, from, to) /\ Spread(w, from, to) >= preset.spread

PresetAssignmentValue  == [min |-> 12, max |-> 128, spread |-> 11, repeats |-> 4, hashes |-> FALSE]
PresetLooseToken       == [min |-> 16, max |-> 256, spread |-> 13, repeats |-> 0, hashes |-> TRUE]
PresetDeepGenericValue == [min |-> 16, max |-> 128, spread |-> 13, repeats |-> 4, hashes |-> TRUE]
=============================================================================
