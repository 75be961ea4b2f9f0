----------------------------- MODULE AddonCodec -----------------------------
(***************************************************************************)
(* The binary escaping of add-on files inside WML: the game's encoder and  *)
(* decoder (game/src/addon_checks.cpp) and those of the Python library     *)
(* (wesnoth/campaignserver_client.py), which the server uses too.  A file  *)
(* is a sequence of byte values; a behaviour is one file that is packed.   *)
(***************************************************************************)
EXTENDS Integers, Sequences, SequencesExt

CONSTANT Files      \* the files of add-ons

ASSUME CodecAssumption == Files \subseteq Seq(0..255)

VARIABLE text       \* the file

EscapeChar == 1     \* 0 ends a text, 13 is the carriage return, 254 marks
                    \* text domains and line numbers for the parser

NeedsEscaping(c) == c \in {0, EscapeChar, 13, 254}

\* encode_binary: char arithmetic wraps around at one byte.
EncodeBinary(s) ==
    FlattenSeq([k \in DOMAIN s |->
        IF NeedsEscaping(s[k]) THEN <<EscapeChar, (s[k] + 1) % 256>>
                               ELSE <<s[k]>>])

\* unencode_binary: an escape character at the very end stands for itself.
UnencodeBinary(s) ==
    LET from[k \in 1..(Len(s) + 1)] ==
            IF k > Len(s) THEN <<>>
            ELSE IF s[k] = EscapeChar /\ k < Len(s)
                 THEN <<(s[k + 1] + 255) % 256>> \o from[k + 2]
                 ELSE <<s[k]>> \o from[k + 1]
    IN  from[1]

\* str.replace of one byte.
Replaced(s, c, by) ==
    FlattenSeq([k \in DOMAIN s |-> IF s[k] = c THEN by ELSE <<s[k]>>])

\* Mutant of PutFile: the escape character is replaced after another.
PutFileNulFirst(s) ==
    Replaced(Replaced(Replaced(Replaced(s, 0, <<1, 1>>), 1, <<1, 2>>),
                      13, <<1, 14>>), 254, <<1, 255>>)

\* put_file: one replacement after the other, in this order.
PutFile(s) ==
    Replaced(Replaced(Replaced(Replaced(s, 1, <<1, 2>>), 0, <<1, 1>>),
                      13, <<1, 14>>), 254, <<1, 255>>)

\* unescape: chr(ord(c) - 1) of the byte after each escape character; one at
\* the very end is dropped.
Unescape(s) ==
    LET after[k \in 0..Len(s)] ==
            IF k = 0 THEN [out |-> <<>>, escape |-> FALSE]
            ELSE LET r == after[k - 1]
                 IN  IF r.escape
                     THEN [out |-> Append(r.out, s[k] - 1), escape |-> FALSE]
                     ELSE IF s[k] = EscapeChar
                          THEN [r EXCEPT !.escape = TRUE]
                          ELSE [r EXCEPT !.out = Append(@, s[k])]
    IN  after[Len(s)].out

CodecInit == text \in Files
CodecSpec == CodecInit /\ [][UNCHANGED text]_text

-----------------------------------------------------------------------------
\* Whoever encoded a file, the game and the server decode it to the same bytes.
RoundTrip(s) ==
    /\ UnencodeBinary(EncodeBinary(s)) = s
    /\ Unescape(EncodeBinary(s)) = s

\* Both encoders give one text: the order of the four replacements matters.
EncodersAgree(s) == PutFile(s) = EncodeBinary(s)

\* An encoded file has no byte that a WML parser takes for its own.
NoParserBytes(s) ==
    \A k \in DOMAIN EncodeBinary(s) : EncodeBinary(s)[k] \notin {0, 13, 254}

\* What is packed and uploaded is what the game and the server unpack, whichever
\* packed it, and what was packed passes the WML parsers (addon_checks.cpp:122,
\* campaignserver_client.py:315).
TextSurvives == RoundTrip(text) /\ EncodersAgree(text) /\ NoParserBytes(text)
=============================================================================
