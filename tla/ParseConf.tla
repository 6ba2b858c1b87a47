----------------------------- MODULE ParseConf -----------------------------
(***************************************************************************)
(* The parser of configuration files and of every line between upsd, the   *)
(* driver and the clients (common/parseconf.c), driven one character at a  *)
(* time, and pconf_encode, which makes a value safe for it.                *)
(***************************************************************************)
EXTENDS Integers, Sequences, SequencesExt

CONSTANTS
    ArgLimit,       \* PCONF_DEFAULT_ARG_LIMIT
    WordLimit,      \* PCONF_DEFAULT_WORDLEN_LIMIT
    DestSizes,      \* sizes of the buffers of pconf_encode
    MaxChars        \* bound: characters fed

ASSUME ParseAssumption ==
    ArgLimit \in Nat \ {0} /\ WordLimit \in Nat \ {0} /\ MaxChars \in Nat
    /\ DestSizes \subseteq Nat \ {0, 1}

(* A letter, a character that isspace accepts, a control character that is  *)
(* not one, and those the parser treats in a way of their own.              *)
Printable == {"a", " ", "=", "#", "\\", "\""}
Chars == Printable \cup {"\n", "ctrl"}

VARIABLES
    fed,        \* the characters fed
    ctx         \* PCONF_CTX_t: state, arglist up to numargs, wordbuf, error

parseVars == <<fed, ctx>>

StartLine(x) == [x EXCEPT !.state = "FINDWORDSTART", !.args = <<>>]
PconfInit == [state |-> "FINDWORDSTART", args |-> <<>>, word |-> <<>>, error |-> FALSE]

-----------------------------------------------------------------------------
(* One character *)

(* addchar: only printable characters, and no more than the limit. *)
AddChar(x, c) ==
    IF c \in Printable /\ Len(x.word) < WordLimit THEN [x EXCEPT !.word = Append(@, c)] ELSE x

(* endofword: one argument more, unless there are enough. *)
EndOfWord(x) ==
    [x EXCEPT !.word = <<>>,
              !.args = IF Len(@) >= ArgLimit THEN @ ELSE Append(@, x.word)]

To(x, s) == [x EXCEPT !.state = s]

FindWordStart(x, c) ==
    CASE c = "\n" -> To(x, "ENDOFLINE")
      [] c = "#" -> To(x, "FINDEOL")
      [] c = " " -> To(x, "FINDWORDSTART")
      [] c = "\\" -> To(x, "COLLECTLITERAL")
      [] c = "\"" -> To(x, "QUOTECOLLECT")
      [] c = "=" -> To(EndOfWord(AddChar(x, c)), "FINDWORDSTART")
      [] OTHER -> To(AddChar(x, c), "COLLECT")

FindEol(x, c) == IF c = "\n" THEN To(x, "ENDOFLINE") ELSE x

QuoteCollect(x, c) ==
    CASE c = "#" -> To(EndOfWord([x EXCEPT !.error = TRUE]), "PARSEERR")
      [] c = "\"" -> To(EndOfWord(x), "FINDWORDSTART")
      [] c = "\\" -> To(x, "QC_LITERAL")
      [] OTHER -> AddChar(x, c)

(* A backslash before the end of the physical line continues it. *)
QcLiteral(x, c) == To(IF c = "\n" THEN x ELSE AddChar(x, c), "QUOTECOLLECT")
CollectLiteral(x, c) == To(IF c = "\n" THEN x ELSE AddChar(x, c), "COLLECT")

Collect(x, c) ==
    CASE c = "#" -> To(EndOfWord(x), "FINDEOL")
      [] c = "\n" -> To(EndOfWord(x), "ENDOFLINE")
      [] c = " " -> To(EndOfWord(x), "FINDWORDSTART")
      [] c = "=" -> FindWordStart(EndOfWord(x), c)
      [] c = "\\" -> To(x, "COLLECTLITERAL")
      [] OTHER -> AddChar(x, c)

ParseChar(x, c) ==
    CASE x.state = "FINDWORDSTART" -> FindWordStart(x, c)
      [] x.state = "FINDEOL" -> FindEol(x, c)
      [] x.state = "QUOTECOLLECT" -> QuoteCollect(x, c)
      [] x.state = "QC_LITERAL" -> QcLiteral(x, c)
      [] x.state = "COLLECT" -> Collect(x, c)
      [] x.state = "COLLECTLITERAL" -> CollectLiteral(x, c)

(* pconf_char: the character after the end of a line, or after an error,    *)
(* starts a line.                                                           *)
PconfChar(x, c) ==
    ParseChar(IF x.state \in {"ENDOFLINE", "PARSEERR"} THEN StartLine(x) ELSE x, c)

(* pconf_file_next at the end of the file, pconf_line at the end of a line: *)
(* what is left counts.  In a file a first word needs something after it.   *)
AtEof(x) == IF x.args # <<>> /\ x.word # <<>> THEN EndOfWord(x) ELSE x
AtEndOfString(x) == IF x.word # <<>> THEN EndOfWord(x) ELSE x

-----------------------------------------------------------------------------
(* pconf_encode, into a buffer of the given size *)

Escaped == {"#", "\\", "\""}
EncodeChar(out, c, maxlen) ==
    LET full == \/ out.full
                \/ c \in Escaped /\ Len(out.text) >= maxlen - 1
                \/ Len(out.text) >= maxlen
    IN [full |-> full,
        text |-> IF full THEN out.text
                 ELSE out.text \o (IF c \in Escaped THEN <<"\\", c>> ELSE <<c>>)]
Encode(v, size) ==
    FoldLeft(LAMBDA out, c : EncodeChar(out, c, size - 1), [full |-> FALSE, text |-> <<>>], v)

-----------------------------------------------------------------------------

ParseInit == fed = <<>> /\ ctx = PconfInit
ParseNext ==
    \E c \in Chars :
        /\ Len(fed) < MaxChars
        /\ fed' = Append(fed, c)
        /\ ctx' = PconfChar(ctx, c)
ParseSpec == ParseInit /\ [][ParseNext]_parseVars

(* Properties *)

ParseTypeOK ==
    /\ ctx.args \in Seq(Seq(Printable)) /\ ctx.word \in Seq(Printable)
    /\ Len(ctx.args) <= ArgLimit /\ Len(ctx.word) <= WordLimit

(* Whatever was fed, a word is finished before the parser looks for the      *)
(* next one or for the end of the line: no line starts with what an earlier  *)
(* one, too long or broken off by an error, left in the word buffer.         *)
WordsEnd ==
    ctx.state \notin {"COLLECT", "COLLECTLITERAL", "QUOTECOLLECT", "QC_LITERAL"} => ctx.word = <<>>

(* A value that is encoded, quoted and sent comes out as one word: the value *)
(* itself, or what of it fitted the buffer and the limit, wherever the       *)
(* buffer ended; and the line ends where the sender ended it.                *)
LineOf(v, size) == <<"\"">> \o Encode(v, size).text \o <<"\"", "\n">>
RoundTrip ==
    ToSet(fed) \subseteq Printable =>
        \A size \in DestSizes :
            LET got == FoldLeft(PconfChar, PconfInit, LineOf(fed, size))
            IN /\ got.state = "ENDOFLINE" /\ ~got.error
               /\ Len(got.args) = 1 /\ IsPrefix(got.args[1], fed)
               /\ (~Encode(fed, size).full /\ Len(fed) <= WordLimit) => got.args[1] = fed

(* A last line without a newline reads like one with it, unless it is one    *)
(* bare word (which pconf_file_next drops) or ends inside quotes.            *)
EofIsNewline ==
    ctx.state \in {"FINDWORDSTART", "FINDEOL", "COLLECT"} =>
        /\ \/ AtEndOfString(ctx).args = ParseChar(ctx, "\n").args
           \/ ctx.state = "COLLECT" /\ ctx.word = <<>>
        /\ ctx.args # <<>> => AtEof(ctx).args = AtEndOfString(ctx).args

(* The parser and its encoder (parseconf.c:121-655). *)
ParseSafe == ParseTypeOK /\ WordsEnd /\ RoundTrip /\ EofIsNewline
=============================================================================
