-------------------------------- MODULE Scanf --------------------------------
(***************************************************************************)
(* The scanf family of the C library, as genmon uses it.  A text is a      *)
(* sequence of tokens; blanks are between tokens and are not written down, *)
(* line ends are tokens.  A token knows where it comes from, so that a     *)
(* property can say which one a variable got.                              *)
(***************************************************************************)
EXTENDS Integers, Sequences, SequencesExt

\* A number as printed, or one with a unit behind it ("10G"), of value n; a word
\* that begins with no digit; a lone "-"; a line end.
Kind == {"number", "size", "word", "dash", "newline"}

\* Where a token comes from: a module, a command, memory nobody has written, or the
\* end of a line; and its place there.
Source == {"cpu", "ram", "temp", "freq", "time", "gpu_rc6",
           "nvidia", "meminfo", "swap", "df", "memory", "end"}
Origin == (Source \X Nat) \cup (Source \X Nat \X Nat)

Token == [kind : Kind, n : Int, from : Origin]

Number(n, from) == [kind |-> "number", n |-> n, from |-> from]
Word(from) == [kind |-> "word", n |-> 0, from |-> from]
\* A size is a number and its unit.
Amount(t) == Number(t.n, t.from)
Unit(t) == Word(t.from)

Newline == [kind |-> "newline", n |-> 0, from |-> <<"end", 0>>]

\* The text from the first token that is no line end.
SkipSpace(text) ==
  LET first == SelectInSeq(text, LAMBDA t : t.kind # "newline")
  IN IF first = 0 THEN <<>> ELSE SubSeq(text, first, Len(text))

\* The tokens in front of the first line end.
LineLength(text) == SelectInSeq(text \o <<Newline>>, LAMBDA t : t.kind = "newline") - 1

Takes(tokens, rest) == [ok |-> TRUE, tokens |-> tokens, rest |-> rest]
Fails(rest) == [ok |-> FALSE, tokens |-> <<>>, rest |-> rest]

\* A number is taken off a size; a "-" is read before it turns out that no digit
\* follows.
TakeNumber(here) ==
  LET t == Head(here)
  IN CASE t.kind = "number" -> Takes(<<t>>, Tail(here))
       [] t.kind = "size"   -> Takes(<<Amount(t)>>, <<Unit(t)>> \o Tail(here))
       [] t.kind = "dash"   -> Fails(Tail(here))
       [] OTHER             -> Fails(here)

\* The rest of a line, which must not be empty.
TakeLine(text) ==
  LET line == LineLength(text)
  IN IF line = 0 THEN Fails(text)
     ELSE Takes(SubSeq(text, 1, line), SubSeq(text, line + 1, Len(text)))

\* What a conversion makes of a text: whether it succeeds, the tokens it takes,
\* and what it leaves.
Conversion(kind, text) ==
  LET here == SkipSpace(text)
  IN CASE kind = "rest"                   -> TakeLine(text)
       [] kind # "rest" /\ here = <<>>    -> Fails(<<>>)
       [] kind = "word" /\ here # <<>>    -> Takes(<<Head(here)>>, Tail(here))
       [] kind = "number" /\ here # <<>>  -> TakeNumber(here)

\* An item of a format: what is converted, and whether it is stored.
Store(kind) == [kind |-> kind, stored |-> TRUE]
Skip(kind) == [kind |-> kind, stored |-> FALSE]
Times(n, item) == [i \in 1 .. n |-> item]

\* One item of a format: the format stops at the first conversion that fails.  The
\* call returns EOF when the text ends before anything was converted.
ScanItem(done, item) ==
  LET c == Conversion(item.kind, done.rest)
  IN IF ~done.going THEN done
     ELSE [going  |-> c.ok,
           stored |-> IF c.ok /\ item.stored THEN Append(done.stored, c.tokens) ELSE done.stored,
           rest   |-> c.rest,
           eof    |-> done.eof /\ ~c.ok /\ SkipSpace(done.rest) = <<>>]

Begun(text) == [going |-> TRUE, stored |-> <<>>, rest |-> text, eof |-> TRUE]

\* The items of a format in turn.  (TLC evaluates what is in a set once only.)
sscanf(text, format) ==
  LET done[k \in 0 .. Len(format)] ==
        IF k = 0 THEN Begun(text)
        ELSE CHOOSE next \in {ScanItem(d, format[k]) : d \in {done[k - 1]}} : TRUE
  IN done[Len(format)]

\* The n targets after a call: those that were not stored keep what they had.
Assign(n, stored, old) ==
  [i \in 1 .. n |-> IF i <= Len(stored) THEN stored[i] ELSE old[i]]
=============================================================================
