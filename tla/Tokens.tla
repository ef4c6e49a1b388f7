------------------------------- MODULE Tokens -------------------------------
(****************************************************************************)
(* The tokenizer of the lines of the modem (huawei-generic/at_tok.c).       *)
(*                                                                          *)
(* A line is a sequence of characters, each a string of length 1; a cursor  *)
(* is what is left of it, or Null, when strsep() has found no comma.        *)
(****************************************************************************)
EXTENDS Naturals, SequencesExt

Quote == "\""
Blank == " "
(* The digits that occur in the lines of the models. *)
DigitValue(c) ==
    CASE c = "0" -> 0 [] c = "1" -> 1 [] c = "2" -> 2 [] c = "3" -> 3 [] c = "4" -> 4
      [] c = "5" -> 5 [] c = "A" -> 10 [] c = "B" -> 11 [] c = "F" -> 15
Digits(base) ==
    [c \in {"0", "1", "2", "3", "4", "5"} \cup (IF base = 16 THEN {"A", "B", "F"} ELSE {}) |->
       DigitValue(c)]

Null == <<"NULL">>

From(s, i) == SubSeq(s, i, Len(s))

(* The first position that passes the test, or the one behind the last.     *)
First(s, Test(_)) == Min({i \in DOMAIN s : Test(i)} \cup {Len(s) + 1})

SkipWhiteSpace(s) == From(s, First(s, LAMBDA i : s[i] # Blank))
SkipNextComma(s)  == From(s, First(s, LAMBDA i : s[i] = ",") + 1)

(* An odd number of backslashes before position i, from position 2 on. *)
Escaped(s, i) ==
    \E n \in 1 .. i - 2 :
       /\ n % 2 = 1 /\ \A j \in i - n .. i - 1 : s[j] = "\\"
       /\ i - n > 2 => s[i - n - 1] # "\\"

Token(string, cur) == [ok |-> TRUE, string |-> string, cur |-> cur]
NoTok(cur)       == [ok |-> FALSE, string |-> <<>>, cur |-> cur]

QuotedTok(s, close) ==
    IF close > Len(s) THEN NoTok(<<>>)
    ELSE Token(SubSeq(s, 2, close - 1), SkipNextComma(From(s, close + 1)))

PlainTok(s, comma) ==
    Token(SubSeq(s, 1, comma - 1), IF comma > Len(s) THEN Null ELSE From(s, comma + 1))

(* What stands between two quotation marks, the first at the start, or up   *)
(* to the first comma.                                                      *)
TokAt(s) ==
    IF s # <<>> /\ s[1] = Quote
    THEN QuotedTok(s, First(s, LAMBDA i : i > 1 /\ s[i] = Quote /\ ~Escaped(s, i)))
    ELSE PlainTok(s, First(s, LAMBDA i : s[i] = ","))

NextTok(cur) == IF cur = Null THEN NoTok(Null) ELSE TokAt(SkipWhiteSpace(cur))

(* strtol() on the token: the digits it begins with, of which it needs one. *)
Number(s, end, base) ==
    FoldLeft(LAMBDA n, c : n * base + Digits(base)[c], 0, SubSeq(s, 1, end - 1))

IntOf(t, s, base) ==
    LET end == First(s, LAMBDA i : s[i] \notin DOMAIN Digits(base)) IN
    [ok |-> t.ok /\ end > 1, value |-> Number(s, end, base), cur |-> t.cur]

IntAt(t, base) == IntOf(t, SkipWhiteSpace(t.string), base)

NextInt(cur, base) == IntAt(NextTok(cur), base)

Commas(s) == Cardinality({i \in DOMAIN s : s[i] = ","})

Found(strings, t) ==
    [strings |-> IF t.ok THEN Append(strings, t.string) ELSE strings, cur |-> t.cur]

(* The tokens a loop over at_tok_nextstr() finds, at most max of them.      *)
Strings(cur, max) ==
    FoldLeft(LAMBDA found, i : Found(found.strings, NextTok(found.cur)),
             Found(<<>>, NoTok(cur)), [i \in 1 .. max |-> i]).strings
=============================================================================
