---------------------------- MODULE LinesProofs ----------------------------
(****************************************************************************)
(* What the RIL makes of the lines of the modem.                            *)
(*                                                                          *)
(* First what the tokenizer (Tokens) makes of the texts: for words of any   *)
(* length, quoted or not, for numbers and for fields joined with commas,    *)
(* at_tok_nextstr() and at_tok_nextint() take apart what was put together,  *)
(* and the number of commas is that of the fields.                          *)
(*                                                                          *)
(* Then that Messaging reads back the cell broadcasts it was given and      *)
(* sends to the service centre the modem has, for lists and numbers of any  *)
(* length, and that every handler of NetworkInfo tells the framework what   *)
(* the modem knows, whichever form its line has. There are three inductive  *)
(* invariants: BroadcastInv, CentreInv and NetworkInv.                      *)
(****************************************************************************)
EXTENDS NetworkInfo, Messaging, SequenceTheorems, FiniteSetTheorems, TLAPS

-----------------------------------------------------------------------------
(* Sequences, and the characters of the lines. *)

(* The characters of the lines. *)
Letters == {"0", "1", "2", "5", "B", "F", "-"}
Chars   == Letters \cup {Blank, Quote, ","}

(* What stands between words is in none, and no character is Null. *)
LEMMA CharFacts ==
    /\ Blank \notin Letters /\ Quote \notin Letters /\ "," \notin Letters /\ "\\" \notin Letters
    /\ Blank # Quote /\ Blank # "," /\ Quote # "," /\ "NULL" \notin Chars /\ "\\" \notin Chars
  BY DEF Blank, Letters, Chars, Quote

(* The least element of a set is the one that exceeds no other. *)
LEMMA Least ==
    ASSUME NEW T, T \subseteq Nat, NEW m \in T, \A x \in T : m <= x
    PROVE  Min(T) = m
  <1> DEFINE Lowest(x) == x \in T /\ \A y \in T : x <= y
  <1>1. Lowest(m)
    OBVIOUS
  <1>2. \A x : Lowest(x) => x = m
    <2> SUFFICES ASSUME NEW x, Lowest(x) PROVE x = m
      OBVIOUS
    <2>1. x \in Nat /\ m \in Nat /\ x <= m /\ m <= x
      OBVIOUS
    <2> QED
      BY <2>1
  <1>3. Min(T) = CHOOSE x : Lowest(x)
    BY DEF Min
  <1> HIDE DEF Lowest
  <1> QED
    BY <1>1, <1>2, <1>3

(* The first of the positions T of a sequence of length n, or n + 1.        *)
LEMMA MinAt ==
    ASSUME NEW n \in Nat, NEW T, T \subseteq 1 .. n, NEW k \in 1 .. n + 1,
           \A i \in 1 .. n : i < k => i \notin T, k \in T \/ k = n + 1
    PROVE  Min(T \cup {n + 1}) = k
  <1> DEFINE U == T \cup {n + 1}
  <1>1. U \subseteq Nat /\ k \in U /\ \A x \in U : k <= x
    OBVIOUS
  <1> HIDE DEF U
  <1>2. Min(U) = k
    BY <1>1, Least
  <1> QED
    BY <1>2 DEF U

(* A sequence of one element. *)
LEMMA Single ==
    ASSUME NEW S, NEW e \in S
    PROVE  <<e>> \in Seq(S) /\ Len(<<e>>) = 1 /\ <<e>>[1] = e
  OBVIOUS

(* s is a and then b. *)
IsJoined(s, a, b) ==
    /\ Len(s) = Len(a) + Len(b)
    /\ DOMAIN s = 1 .. Len(a) + Len(b)
    /\ \A i \in 1 .. Len(a) : s[i] = a[i]
    /\ \A i \in 1 .. Len(b) : s[Len(a) + i] = b[i]

(* One sequence behind another has the elements of both, in their places. *)
LEMMA JoinedIs ==
    ASSUME NEW S, NEW a \in Seq(S), NEW b \in Seq(S)
    PROVE  /\ Len(a) \in Nat /\ Len(b) \in Nat
           /\ a \o b \in Seq(S) /\ IsJoined(a \o b, a, b)
  <1> DEFINE m == Len(a)  n == Len(b)
  <1>1. m \in Nat /\ n \in Nat
    BY LenProperties
  <1>2. PICK s : s = a \o b
    OBVIOUS
  <1>3. /\ s \in Seq(S) /\ Len(s) = m + n
        /\ \A i \in 1 .. m + n : s[i] = IF i <= m THEN a[i] ELSE b[i - m]
    BY <1>2, ConcatProperties
  <1>4. DOMAIN s = 1 .. m + n
    BY <1>3, LenProperties
  <1>5. ASSUME NEW i \in 1 .. m
        PROVE  s[i] = a[i]
    <2>1. i \in 1 .. m + n /\ i <= m
      BY <1>1
    <2> QED
      BY <1>3, <2>1
  <1>6. ASSUME NEW i \in 1 .. n
        PROVE  s[m + i] = b[i]
    <2>1. m + i \in 1 .. m + n /\ ~(m + i <= m) /\ (m + i) - m = i
      BY <1>1
    <2> QED
      BY <1>3, <2>1
  <1> QED
    BY <1>1, <1>2, <1>3, <1>4, <1>5, <1>6 DEF IsJoined

(* A sequence of two parts gives them back. *)
LEMMA TwoParts ==
    ASSUME NEW S, NEW a \in Seq(S), NEW b \in Seq(S)
    PROVE  /\ SubSeq(a \o b, 1, Len(a)) = a
           /\ From(a \o b, Len(a) + 1) = b
  <1>1. PICK s : s = a \o b
    OBVIOUS
  <1>2. PICK m \in Nat, n \in Nat : m = Len(a) /\ n = Len(b)
    BY LenProperties
  <1>3. /\ s \in Seq(S) /\ Len(s) = m + n
        /\ \A i \in 1 .. m : s[i] = a[i]
        /\ \A i \in 1 .. n : s[m + i] = b[i]
    <2>1. s \in Seq(S) /\ IsJoined(s, a, b)
      BY <1>1, JoinedIs
    <2> QED
      BY <1>2, <2>1 DEF IsJoined
  <1>4. \A i \in 1 .. m + n : s[i] \in S
    BY <1>3, ElementOfSeq
  <1>5. SubSeq(s, 1, m) = a
    <2>1. /\ SubSeq(s, 1, m) \in Seq(S) /\ Len(SubSeq(s, 1, m)) = m
          /\ \A i \in 1 .. m : SubSeq(s, 1, m)[i] = s[i]
      BY <1>2, <1>4, SubSeqProperties
    <2> QED
      BY <1>2, <1>3, <2>1, SeqEqual
  <1>6. SubSeq(s, m + 1, m + n) = b
    <2>1. PICK t : t = SubSeq(s, m + 1, m + n)
      OBVIOUS
    <2>2. /\ t \in Seq(S) /\ Len(t) = n
          /\ \A i \in 1 .. n : t[i] = s[m + i]
      BY <1>2, <1>4, <2>1, SubSeqProperties
    <2>3. \A i \in 1 .. Len(t) : t[i] = b[i]
      BY <1>3, <2>2
    <2>4. Len(t) = Len(b)
      BY <1>2, <2>2
    <2>5. t = b
      BY <2>2, <2>3, <2>4, SeqEqual
    <2> QED
      BY <2>1, <2>5
  <1> QED
    BY <1>1, <1>2, <1>3, <1>5, <1>6 DEF From

(* What stands behind the first m of a sequence, n of it. *)
LEMMA Part ==
    ASSUME NEW S, NEW s \in Seq(S), NEW m \in Nat, NEW n \in Nat, m + n <= Len(s)
    PROVE  /\ SubSeq(s, m + 1, m + n) \in Seq(S) /\ Len(SubSeq(s, m + 1, m + n)) = n
           /\ \A i \in 1 .. n : SubSeq(s, m + 1, m + n)[i] = s[m + i]
  <1>1. PICK k \in Nat : k = Len(s)
    BY LenProperties
  <1>2. \A i \in 1 .. m + n : s[i] \in S
    <2>1. \A i \in 1 .. m + n : i \in 1 .. Len(s)
      BY <1>1
    <2> QED
      BY <2>1, ElementOfSeq
  <1>3. PICK t : t = SubSeq(s, m + 1, m + n)
    OBVIOUS
  <1>4. t \in Seq(S) /\ Len(t) = n /\ \A i \in 1 .. n : t[i] = s[m + i]
    BY <1>2, <1>3, SubSeqProperties
  <1> QED
    BY <1>3, <1>4

(* A text is not Null, which is of one string that is no character. *)
LEMMA NotNull ==
    ASSUME NEW s \in Seq(Chars)
    PROVE  s # Null
  <1> SUFFICES ASSUME s = Null PROVE FALSE
    OBVIOUS
  <1>1. Len(s) = 1 /\ s[1] = "NULL"
    BY DEF Null
  <1>2. s[1] \in Chars
    BY <1>1, ElementOfSeq
  <1> QED
    BY <1>1, <1>2, CharFacts

(* One element before a sequence. *)
LEMMA Prefixed ==
    ASSUME NEW S, NEW e \in S, NEW s \in Seq(S)
    PROVE  /\ <<e>> \o s \in Seq(S) /\ Len(<<e>> \o s) = Len(s) + 1
           /\ (<<e>> \o s)[1] = e /\ \A i \in 1 .. Len(s) : (<<e>> \o s)[i + 1] = s[i]
           /\ From(<<e>> \o s, 2) = s /\ <<e>> \o s # <<>>
  <1>1. PICK a : a = <<e>>
    OBVIOUS
  <1>2. a \in Seq(S) /\ Len(a) = 1 /\ a[1] = e /\ Len(a) + 1 = 2
    BY <1>1, Single
  <1>3. PICK n \in Nat : n = Len(s)
    BY LenProperties
  <1>4. PICK t : t = a \o s
    OBVIOUS
  <1>5. /\ t \in Seq(S) /\ Len(t) = n + 1
        /\ \A i \in 1 .. 1 : t[i] = a[i]
        /\ \A i \in 1 .. n : t[1 + i] = s[i]
    <2>1. t \in Seq(S) /\ IsJoined(t, a, s)
      BY <1>2, <1>4, JoinedIs
    <2> QED
      BY <1>2, <1>3, <2>1 DEF IsJoined
  <1>6. t[1] = e /\ \A i \in 1 .. n : t[i + 1] = s[i]
    BY <1>2, <1>5
  <1>7. From(t, 2) = s
    <2>1. From(t, Len(a) + 1) = s
      BY <1>2, <1>4, TwoParts
    <2> QED
      BY <1>2, <2>1
  <1>8. t # <<>>
    BY <1>3, <1>5, EmptySeq
  <1> QED
    BY <1>1, <1>3, <1>4, <1>5, <1>6, <1>7, <1>8

-----------------------------------------------------------------------------
(* Tokens. *)

(* skipWhiteSpace() leaves a text alone that does not begin with a blank, *)
LEMMA SkipNone ==
    ASSUME NEW s \in Seq(Chars), s = <<>> \/ s[1] # Blank
    PROVE  SkipWhiteSpace(s) = s
  <1> DEFINE T == {i \in DOMAIN s : s[i] # Blank} \cup {Len(s) + 1}
  <1>1. SkipWhiteSpace(s) = From(s, Min(T))
    BY DEF SkipWhiteSpace, First, Blank
  <1>2. Len(s) \in Nat /\ DOMAIN s = 1 .. Len(s) /\ (s # <<>> => Len(s) > 0) /\ (s = <<>> => Len(s) = 0)
    BY LenProperties, EmptySeq
  <1>3. T \subseteq Nat /\ 1 \in T /\ \A x \in T : 1 <= x
    BY <1>2
  <1> HIDE DEF T
  <1>4. Min(T) = 1
    BY <1>3, Least
  <1> QED
    BY <1>1, <1>4, SubSeqFull DEF From

(* and takes one blank away. *)
LEMMA SkipBlank ==
    ASSUME NEW s \in Seq(Chars), s # <<>>, s[1] # Blank
    PROVE  SkipWhiteSpace(<<Blank>> \o s) = s
  <1>1. PICK t : t = <<Blank>> \o s
    OBVIOUS
  <1>2. Blank \in Chars
    BY DEF Chars
  <1>3. PICK n \in Nat : n = Len(s) /\ n > 0
    BY EmptySeq
  <1>4. Len(t) = n + 1 /\ DOMAIN t = 1 .. n + 1 /\ t[1] = Blank /\ t[2] = s[1]
    <2>1. t \in Seq(Chars) /\ Len(t) = n + 1 /\ t[1] = Blank /\ \A i \in 1 .. n : t[i + 1] = s[i]
      BY <1>1, <1>2, <1>3, Prefixed
    <2>2. 1 \in 1 .. n /\ 1 + 1 = 2
      BY <1>3
    <2> QED
      BY <2>1, <2>2, LenProperties
  <1> DEFINE T == {i \in DOMAIN t : t[i] # Blank} \cup {Len(t) + 1}
  <1>5. SkipWhiteSpace(t) = From(t, Min(T))
    BY DEF SkipWhiteSpace, First, Blank
  <1>6. T \subseteq Nat /\ 2 \in T /\ \A x \in T : 2 <= x
    BY <1>3, <1>4
  <1> HIDE DEF T
  <1>7. Min(T) = 2
    BY <1>6, Least
  <1>8. From(t, 2) = s
    BY <1>1, <1>2, Prefixed
  <1> QED
    BY <1>1, <1>5, <1>7, <1>8
(* The first comma of a word, and of a word before a comma. *)
CommaAt(s) == First(s, LAMBDA i : s[i] = ",")

(* In a word nothing ends the token. *)
LEMMA WordSeq ==
    ASSUME NEW f \in Seq(Letters)
    PROVE  /\ f \in Seq(Chars) /\ Len(f) \in Nat /\ DOMAIN f = 1 .. Len(f)
           /\ \A i \in 1 .. Len(f) : /\ f[i] \in Letters /\ f[i] # "," /\ f[i] # Quote
                                     /\ f[i] # Blank /\ f[i] # "\\"
           /\ f # Null
  <1>1. f \in Seq(Chars)
    BY SeqMonotonic DEF Chars
  <1>2. Len(f) \in Nat /\ DOMAIN f = 1 .. Len(f) /\ \A i \in 1 .. Len(f) : f[i] \in Letters
    BY LenProperties, ElementOfSeq
  <1>3. f # Null
    BY <1>1, NotNull
  <1> QED
    BY <1>1, <1>2, <1>3, CharFacts

(* A word has no comma, *)
LEMMA CommaNone ==
    ASSUME NEW f \in Seq(Letters)
    PROVE  CommaAt(f) = Len(f) + 1
  <1> DEFINE T == {i \in DOMAIN f : f[i] = ","} \cup {Len(f) + 1}
  <1>1. CommaAt(f) = Min(T)
    BY DEF CommaAt, First
  <1>2. T = {Len(f) + 1} /\ Len(f) \in Nat
    BY WordSeq
  <1> HIDE DEF T
  <1> QED
    BY <1>1, <1>2, Least

(* and with a comma behind it, that is the first. *)
LEMMA CommaNext ==
    ASSUME NEW f \in Seq(Letters), NEW r \in Seq(Chars)
    PROVE  CommaAt(f \o (<<",">> \o r)) = Len(f) + 1
  <1>1. PICK t : t = <<",">> \o r
    OBVIOUS
  <1>2. PICK s : s = f \o t
    OBVIOUS
  <1>3. t \in Seq(Chars) /\ t # <<>> /\ t[1] = ","
    <2>1. "," \in Chars
      BY DEF Chars
    <2> QED
      BY <1>1, <2>1, Prefixed, ZenonT(30)
  <1>4. Len(t) \in Nat /\ 1 \in 1 .. Len(t)
    <2>1. Len(t) \in Nat /\ Len(t) # 0
      BY <1>3, EmptySeq, LenProperties
    <2> QED
      BY <2>1
  <1>5. f \in Seq(Chars) /\ Len(f) \in Nat /\ \A i \in 1 .. Len(f) : f[i] # ","
    BY WordSeq
  <1>6. IsJoined(s, f, t)
    BY <1>2, <1>3, <1>5, JoinedIs
  <1>7. /\ DOMAIN s = 1 .. Len(f) + Len(t) /\ Len(s) = Len(f) + Len(t)
        /\ \A i \in 1 .. Len(f) : s[i] # ","
        /\ s[Len(f) + 1] = ","
    BY <1>3, <1>4, <1>5, <1>6 DEF IsJoined
  <1>8. PICK m \in Nat : m = Len(f)
    BY <1>5
  <1>9. PICK n \in Nat : n = Len(f) + Len(t)
    <2>1. Len(f) \in Nat
      BY WordSeq
    <2>2. Len(f) + Len(t) \in Nat
      BY <1>4, <2>1
    <2> QED
      BY <2>2
  <1>10. m < n /\ m + 1 \in 1 .. n /\ m + 1 \in 1 .. n + 1
    BY <1>4, <1>8, <1>9
  <1> DEFINE T == {i \in DOMAIN s : s[i] = ","}
  <1>11. CommaAt(s) = Min(T \cup {n + 1})
    BY <1>7, <1>9 DEF CommaAt, First
  <1>12. DOMAIN s = 1 .. n /\ \A i \in 1 .. m : s[i] # ","
    BY <1>7, <1>8, <1>9
  <1>13. T \subseteq 1 .. n /\ m + 1 \in T
    BY <1>7, <1>8, <1>10, <1>12
  <1>14. \A i \in 1 .. m : i \notin T
    BY <1>12
  <1> HIDE DEF T
  <1>15. \A i \in 1 .. n : i < m + 1 => i \notin T
    BY <1>14
  <1>16. Min(T \cup {n + 1}) = m + 1
    BY <1>10, <1>13, <1>15, MinAt
  <1> QED
    BY <1>1, <1>2, <1>8, <1>11, <1>16

(* A field and what follows it. *)
Then(f, r) == f \o (<<",">> \o r)

(* The two parts of it are where they are, and cutting at the comma gives   *)
(* them back.                                                               *)
LEMMA ThenFacts ==
    ASSUME NEW f \in Seq(Chars), NEW r \in Seq(Chars)
    PROVE  /\ Then(f, r) \in Seq(Chars) /\ Then(f, r) # <<>>
           /\ Then(f, r)[1] = IF f = <<>> THEN "," ELSE f[1]
           /\ SubSeq(Then(f, r), 1, Len(f)) = f
           /\ From(Then(f, r), Len(f) + 1) = <<",">> \o r
           /\ From(Then(f, r), Len(f) + 2) = r
           /\ Len(Then(f, r)) = Len(f) + Len(r) + 1
  <1>1. PICK t : t = <<",">> \o r
    OBVIOUS
  <1>2. PICK s : s = f \o t
    OBVIOUS
  <1>3. "," \in Chars
    BY DEF Chars
  <1>4. t \in Seq(Chars) /\ Len(t) = Len(r) + 1 /\ t[1] = "," /\ From(t, 2) = r
    BY <1>1, <1>3, Prefixed, ZenonT(30)
  <1>5. s \in Seq(Chars) /\ IsJoined(s, f, t) /\ Len(f) \in Nat
    BY <1>2, <1>4, JoinedIs
  <1>6. SubSeq(s, 1, Len(f)) = f /\ From(s, Len(f) + 1) = t
    BY <1>2, <1>4, TwoParts
  <1>7. Len(r) \in Nat
    BY LenProperties
  <1>8. Len(s) = Len(f) + Len(r) + 1
    <2>1. Len(s) = Len(f) + Len(t)
      BY <1>5 DEF IsJoined
    <2>2. Len(t) = Len(r) + 1
      BY <1>4
    <2>3. Len(f) \in Nat
      BY <1>5
    <2> QED
      BY <1>7, <2>1, <2>2, <2>3
  <1>9. s # <<>>
    BY <1>5, <1>7, <1>8, EmptySeq
  <1>10. s[1] = IF f = <<>> THEN "," ELSE f[1]
    <2>1. CASE f = <<>>
      <3>1. Len(f) = 0 /\ 1 \in 1 .. Len(t) /\ Len(f) + 1 = 1
        <4>1. Len(f) = 0 /\ Len(t) = Len(r) + 1
          BY <1>4, <2>1, EmptySeq
        <4> QED
          BY <1>7, <4>1
      <3>2. s[Len(f) + 1] = t[1]
        BY <1>5, <3>1 DEF IsJoined
      <3> QED
        BY <1>4, <2>1, <3>1, <3>2
    <2>2. CASE f # <<>>
      <3>1. 1 \in 1 .. Len(f)
        BY <1>5, <2>2, EmptySeq
      <3>2. s[1] = f[1]
        BY <1>5, <3>1 DEF IsJoined
      <3> QED
        BY <2>2, <3>2
    <2> QED
      BY <2>1, <2>2
  <1>11. From(s, Len(f) + 2) = r
    <2>1. PICK c : c = <<",">>
      OBVIOUS
    <2>2. c \in Seq(Chars) /\ Len(c) = 1
      BY <1>3, <2>1, Single
    <2>3. PICK g : g = f \o c
      OBVIOUS
    <2>4. g \in Seq(Chars) /\ Len(g) = Len(f) + 1
      <3>1. g \in Seq(Chars) /\ IsJoined(g, f, c)
        BY <2>2, <2>3, JoinedIs
      <3> QED
        BY <2>2, <3>1 DEF IsJoined
    <2>5. s = g \o r
      <3>1. (f \o c) \o r = f \o (c \o r)
        BY <2>2, ConcatAssociative
      <3> QED
        BY <1>1, <1>2, <2>1, <2>3, <3>1
    <2>6. From(s, Len(g) + 1) = r
      BY <2>4, <2>5, TwoParts
    <2>7. Len(g) + 1 = Len(f) + 2
      BY <1>5, <2>4
    <2> QED
      BY <2>6, <2>7
  <1> QED
    BY <1>1, <1>2, <1>5, <1>6, <1>8, <1>9, <1>10, <1>11 DEF Then

(* at_tok_nextstr(): of a word alone, the word, and nothing is left; *)
LEMMA TokPlain ==
    ASSUME NEW f \in Seq(Letters)
    PROVE  NextTok(f) = Token(f, Null)
  <1>1. f \in Seq(Chars) /\ f # Null /\ Len(f) \in Nat
    BY WordSeq
  <1>2. f = <<>> \/ (f[1] # Blank /\ f[1] # Quote)
    <2>1. f # <<>> => 1 \in 1 .. Len(f)
      BY <1>1, EmptySeq
    <2> QED
      BY <2>1, WordSeq
  <1>3. SkipWhiteSpace(f) = f
    BY <1>1, <1>2, SkipNone
  <1>4. CommaAt(f) = Len(f) + 1
    BY CommaNone
  <1>5. TokAt(f) = PlainTok(f, Len(f) + 1)
    BY <1>2, <1>4 DEF TokAt, CommaAt
  <1>6. Len(f) + 1 > Len(f) /\ (Len(f) + 1) - 1 = Len(f)
    BY <1>1
  <1>7. PlainTok(f, Len(f) + 1) = Token(SubSeq(f, 1, Len(f)), Null)
    BY <1>6 DEF PlainTok
  <1>8. SubSeq(f, 1, Len(f)) = f
    BY <1>1, SubSeqFull
  <1> QED
    BY <1>1, <1>3, <1>5, <1>7, <1>8 DEF NextTok

(* of a word and a comma, the word, and the cursor is behind the comma; *)
LEMMA TokPlainNext ==
    ASSUME NEW f \in Seq(Letters), NEW r \in Seq(Chars)
    PROVE  NextTok(Then(f, r)) = Token(f, r)
  <1>1. PICK s : s = Then(f, r)
    OBVIOUS
  <1>2. f \in Seq(Chars) /\ Len(f) \in Nat
    BY WordSeq
  <1>3. /\ s \in Seq(Chars) /\ s # <<>> /\ s[1] = IF f = <<>> THEN "," ELSE f[1]
        /\ SubSeq(s, 1, Len(f)) = f /\ From(s, Len(f) + 2) = r
        /\ Len(s) = Len(f) + Len(r) + 1
    BY <1>1, <1>2, ThenFacts
  <1>4. s[1] # Blank /\ s[1] # Quote
    <2>1. f # <<>> => 1 \in 1 .. Len(f)
      BY <1>2, EmptySeq
    <2> QED
      BY <1>3, <2>1, WordSeq, CharFacts
  <1>5. SkipWhiteSpace(s) = s /\ s # Null
    BY <1>3, <1>4, SkipNone, NotNull
  <1>6. CommaAt(s) = Len(f) + 1
    BY <1>1, CommaNext DEF Then
  <1>7. TokAt(s) = PlainTok(s, Len(f) + 1)
    BY <1>4, <1>6 DEF TokAt, CommaAt
  <1>8. /\ ~(Len(f) + 1 > Len(s)) /\ (Len(f) + 1) - 1 = Len(f)
        /\ (Len(f) + 1) + 1 = Len(f) + 2
    <2>1. Len(r) \in Nat
      BY LenProperties
    <2>2. Len(f) \in Nat /\ Len(s) = Len(f) + Len(r) + 1
      BY <1>2, <1>3
    <2> QED
      BY <2>1, <2>2
  <1>9. PlainTok(s, Len(f) + 1) = Token(SubSeq(s, 1, Len(f)), From(s, Len(f) + 2))
    BY <1>8 DEF PlainTok
  <1> QED
    BY <1>1, <1>3, <1>5, <1>7, <1>9 DEF NextTok

(* a blank before it makes no difference. *)
LEMMA TokBlank ==
    ASSUME NEW s \in Seq(Chars), s # <<>>, s[1] # Blank
    PROVE  NextTok(<<Blank>> \o s) = NextTok(s)
  <1>1. Blank \in Chars
    BY DEF Chars
  <1>2. <<Blank>> \o s \in Seq(Chars)
    BY <1>1, Prefixed
  <1>3. <<Blank>> \o s # Null /\ s # Null
    BY <1>2, NotNull
  <1>4. SkipWhiteSpace(<<Blank>> \o s) = s /\ SkipWhiteSpace(s) = s
    BY SkipBlank, SkipNone
  <1> QED
    BY <1>3, <1>4 DEF NextTok

(* There are no backslashes in these texts. *)
LEMMA NeverEscaped ==
    ASSUME NEW s \in Seq(Chars), NEW i \in 1 .. Len(s)
    PROVE  ~Escaped(s, i)
  <1> SUFFICES ASSUME NEW n \in 1 .. i - 2, \A j \in i - n .. i - 1 : s[j] = "\\"
               PROVE  FALSE
    BY DEF Escaped
  <1>1. Len(s) \in Nat
    BY LenProperties
  <1>2. i - 1 \in i - n .. i - 1 /\ i - 1 \in 1 .. Len(s)
    BY <1>1
  <1>3. s[i - 1] = "\\"
    BY <1>2
  <1>4. s[i - 1] \in Chars
    BY <1>2, ElementOfSeq
  <1> QED
    BY <1>3, <1>4, CharFacts

(* skipNextComma(), at the end and at a comma. *)
LEMMA SkipsComma ==
    /\ SkipNextComma(<<>>) = <<>>
    /\ \A r \in Seq(Chars) : SkipNextComma(<<",">> \o r) = r
  <1>1. SkipNextComma(<<>>) = <<>>
    BY DEF SkipNextComma, From
  <1>2. ASSUME NEW r \in Seq(Chars)
        PROVE  SkipNextComma(<<",">> \o r) = r
    <2>1. PICK f : f = <<>>
      OBVIOUS
    <2>2. f \in Seq(Letters) /\ f \in Seq(Chars) /\ Len(f) = 0
      BY <2>1, EmptySeq
    <2>3. PICK t : t = <<",">> \o r
      OBVIOUS
    <2>4. "," \in Chars
      BY DEF Chars
    <2>5. t \in Seq(Chars) /\ From(t, 2) = r
      BY <2>3, <2>4, Prefixed
    <2>6. f \o t = t
      BY <2>1, <2>5, ConcatEmptySeq
    <2>7. CommaAt(t) = 1
      <3>1. CommaAt(f \o t) = Len(f) + 1
        BY <2>2, <2>3, CommaNext
      <3>2. Len(f) + 1 = 1
        BY <2>2
      <3> QED
        BY <2>6, <3>1, <3>2
    <2>8. SkipNextComma(t) = From(t, CommaAt(t) + 1) /\ 1 + 1 = 2
      BY DEF SkipNextComma, CommaAt
    <2> QED
      BY <2>3, <2>5, <2>7, <2>8
  <1> QED
    BY <1>1, <1>2

(* A quoted word, and what follows it.                                      *)
LEMMA QuotedFacts ==
    ASSUME NEW f \in Seq(Letters), NEW t \in Seq(Chars), NEW s, s = Quoted(f) \o t
    PROVE  /\ s \in Seq(Chars) /\ s # <<>> /\ s[1] = Quote /\ s[Len(f) + 2] = Quote
           /\ Len(s) = Len(f) + 2 + Len(t)
           /\ \A i \in 1 .. Len(f) : s[i + 1] = f[i]
           /\ SubSeq(s, 2, Len(f) + 1) = f /\ From(s, Len(f) + 3) = t
  <1>1. PICK q : q = <<Quote>>
    OBVIOUS
  <1>2. Quote \in Chars
    BY DEF Chars
  <1>3. q \in Seq(Chars) /\ Len(q) = 1 /\ q[1] = Quote
    BY <1>1, <1>2, Single
  <1>4. f \in Seq(Chars)
    BY WordSeq
  <1>5. PICK m \in Nat : m = Len(f)
    BY WordSeq
  <1>6. PICK a : a = q \o f
    OBVIOUS
  <1>7. /\ a \in Seq(Chars) /\ Len(a) = m + 1 /\ a[1] = Quote
        /\ \A i \in 1 .. m : a[i + 1] = f[i]
    BY <1>1, <1>2, <1>4, <1>5, <1>6, Prefixed
  <1>8. PICK b : b = a \o q
    OBVIOUS
  <1>9. b \in Seq(Chars) /\ IsJoined(b, a, q)
    BY <1>3, <1>7, <1>8, JoinedIs
  <1>10. s = b \o t
    BY <1>1, <1>6, <1>8 DEF Quoted
  <1>11. s \in Seq(Chars) /\ IsJoined(s, b, t)
    BY <1>9, <1>10, JoinedIs
  <1>12. Len(b) = m + 2
    <2>1. Len(b) = Len(a) + Len(q)
      BY <1>9 DEF IsJoined
    <2>2. Len(a) = m + 1 /\ Len(q) = 1
      BY <1>3, <1>7
    <2> QED
      BY <2>1, <2>2
  <1>13. PICK n \in Nat : n = Len(t)
    BY LenProperties
  <1>14. Len(s) = m + 2 + n
    BY <1>11, <1>12, <1>13 DEF IsJoined
  <1>15. \A i \in 1 .. m + 2 : s[i] = b[i]
    BY <1>11, <1>12 DEF IsJoined
  <1>16. \A i \in 1 .. m + 1 : b[i] = a[i]
    BY <1>7, <1>9 DEF IsJoined
  <1>17. b[m + 2] = Quote
    <2>1. 1 \in 1 .. Len(q)
      BY <1>3
    <2>2. b[Len(a) + 1] = q[1]
      BY <1>9, <2>1 DEF IsJoined
    <2>3. Len(a) + 1 = m + 2
      BY <1>7
    <2> QED
      BY <1>3, <2>2, <2>3
  <1>18. /\ 1 \in 1 .. m + 2 /\ 1 \in 1 .. m + 1 /\ m + 2 \in 1 .. m + 2
         /\ \A i \in 1 .. m : i + 1 \in 1 .. m + 2 /\ i + 1 \in 1 .. m + 1
    OBVIOUS
  <1>19. s[1] = Quote /\ s[m + 2] = Quote
    BY <1>7, <1>15, <1>16, <1>17, <1>18
  <1>20. \A i \in 1 .. m : s[i + 1] = f[i]
    BY <1>7, <1>15, <1>16, <1>18
  <1>21. From(s, m + 3) = t
    <2>1. From(s, Len(b) + 1) = t
      BY <1>9, <1>10, TwoParts
    <2>2. Len(b) + 1 = m + 3
      BY <1>12
    <2> QED
      BY <2>1, <2>2
  <1>22. SubSeq(s, 2, m + 1) = f
    <2>1. PICK u : u = SubSeq(s, 2, m + 1)
      OBVIOUS
    <2>3. u \in Seq(Chars) /\ Len(u) = m /\ \A i \in 1 .. m : u[i] = s[i + 1]
      <3>1. 1 + m <= Len(s) /\ 1 \in Nat /\ 1 + 1 = 2 /\ m + 1 = 1 + m
        BY <1>13, <1>14
      <3>2. u = SubSeq(s, 1 + 1, 1 + m)
        BY <2>1, <3>1
      <3>3. u \in Seq(Chars) /\ Len(u) = m /\ \A i \in 1 .. m : u[i] = s[1 + i]
        BY <1>11, <3>1, <3>2, Part
      <3>4. \A i \in 1 .. m : 1 + i = i + 1
        OBVIOUS
      <3> QED
        BY <3>3, <3>4
    <2>4. Len(u) = Len(f)
      BY <1>5, <2>3
    <2>5. \A i \in 1 .. Len(u) : u[i] = f[i]
      BY <1>20, <2>3
    <2>6. u = f
      BY <1>4, <2>3, <2>4, <2>5, SeqEqual
    <2> QED
      BY <2>1, <2>6
  <1>23. s # <<>>
    BY <1>13, <1>14, EmptySeq
  <1> QED
    BY <1>5, <1>11, <1>13, <1>14, <1>19, <1>20, <1>21, <1>22, <1>23

(* at_tok_nextstr(): of a quoted word, the word without the marks, and the  *)
(* cursor is behind the comma that follows.                                 *)
LEMMA TokQuoted ==
    ASSUME NEW f \in Seq(Letters), NEW t \in Seq(Chars)
    PROVE  NextTok(Quoted(f) \o t) = Token(f, SkipNextComma(t))
  <1>1. PICK s : s = Quoted(f) \o t
    OBVIOUS
  <1>2. PICK m \in Nat : m = Len(f)
    BY WordSeq
  <1>3. PICK n \in Nat : n = Len(t)
    BY LenProperties
  <1>4. /\ s \in Seq(Chars) /\ s # <<>> /\ s[1] = Quote /\ s[m + 2] = Quote
        /\ Len(s) = m + 2 + n
        /\ \A i \in 1 .. m : s[i + 1] = f[i]
        /\ SubSeq(s, 2, m + 1) = f /\ From(s, m + 3) = t
    BY <1>1, <1>2, <1>3, QuotedFacts, ZenonT(30)
  <1>5. SkipWhiteSpace(s) = s /\ s # Null
    BY <1>4, CharFacts, SkipNone, NotNull
  <1>6. PICK l \in Nat : l = m + 2 + n
    OBVIOUS
  <1>7. DOMAIN s = 1 .. l /\ Len(s) = l
    BY <1>4, <1>6, LenProperties
  <1> DEFINE T == {i \in DOMAIN s : i > 1 /\ s[i] = Quote /\ ~Escaped(s, i)}
             close == First(s, LAMBDA i : i > 1 /\ s[i] = Quote /\ ~Escaped(s, i))
  <1>8. close = Min(T \cup {l + 1})
    BY <1>7 DEF First
  <1>9. m + 2 \in 1 .. l /\ m + 2 \in 1 .. l + 1 /\ m + 2 > 1
    BY <1>6
  <1>10. T \subseteq 1 .. l /\ m + 2 \in T
    BY <1>4, <1>7, <1>9, NeverEscaped
  <1>11. ASSUME NEW i \in 1 .. l, i < m + 2
         PROVE  i \notin T
    <2>1. CASE i = 1
      BY <2>1
    <2>2. CASE i # 1
      <3>1. i - 1 \in 1 .. m /\ (i - 1) + 1 = i
        BY <1>11, <2>2
      <3>2. s[i] = f[i - 1]
        BY <1>4, <3>1
      <3>3. f[i - 1] # Quote
        BY <1>2, <3>1, WordSeq
      <3> QED
        BY <3>2, <3>3
    <2> QED
      BY <2>1, <2>2
  <1> HIDE DEF T
  <1>12. close = m + 2
    BY <1>8, <1>9, <1>10, <1>11, MinAt
  <1>13. TokAt(s) = QuotedTok(s, close)
    BY <1>4 DEF TokAt
  <1> HIDE DEF close
  <1>14. ~(m + 2 > l) /\ (m + 2) - 1 = m + 1 /\ (m + 2) + 1 = m + 3
    BY <1>6
  <1>15. QuotedTok(s, m + 2) = Token(SubSeq(s, 2, m + 1), SkipNextComma(From(s, m + 3)))
    BY <1>7, <1>14 DEF QuotedTok
  <1> QED
    BY <1>1, <1>4, <1>5, <1>12, <1>13, <1>15 DEF NextTok

(* A quoted word is a text that begins with a mark. *)
LEMMA QuotedIs ==
    ASSUME NEW f \in Seq(Letters)
    PROVE  /\ Quoted(f) \in Seq(Chars) /\ Quoted(f) # <<>> /\ Quoted(f)[1] = Quote
           /\ Quoted(f) \o <<>> = Quoted(f)
  <1>1. PICK q : q = <<Quote>>
    OBVIOUS
  <1>2. Quote \in Chars
    BY DEF Chars
  <1>3. q \in Seq(Chars)
    BY <1>1, <1>2, Single
  <1>4. PICK a : a = q \o f
    OBVIOUS
  <1>5. a \in Seq(Chars) /\ a \o q \in Seq(Chars)
    BY <1>3, <1>4, WordSeq, JoinedIs
  <1>6. Quoted(f) \in Seq(Chars)
    BY <1>1, <1>4, <1>5 DEF Quoted
  <1>7. Quoted(f) \o <<>> = Quoted(f)
    BY <1>6, ConcatEmptySeq
  <1>8. PICK t : t = <<>>
    OBVIOUS
  <1>9. t \in Seq(Chars)
    BY <1>8, EmptySeq
  <1>10. PICK s : s = Quoted(f) \o t
    OBVIOUS
  <1>11. s # <<>> /\ s[1] = Quote
    BY <1>9, <1>10, QuotedFacts, SMTT(30)
  <1> QED
    BY <1>6, <1>7, <1>8, <1>10, <1>11

-----------------------------------------------------------------------------
(* Numbers. *)

(* One digit more. *)
Shift(base, n, c) == n * base + Digits(base)[c]
Num == INSTANCE FoldFacts WITH Op <- Shift

(* What is read of a word that is a number. *)
Value(w, base) == Number(w, Len(w) + 1, base)
Digital(w, base) ==
    w \in Seq(Letters) /\ w # <<>> /\ \A i \in 1 .. Len(w) : w[i] \in DOMAIN Digits(base)

(* strtol() goes along the digits. *)
LEMMA ValueIsFold ==
    ASSUME NEW w \in Seq(Letters), NEW base
    PROVE  Value(w, base) = Num!Fold(base, 0, w)
  <1>1. Len(w) \in Nat
    BY LenProperties
  <1>2. (Len(w) + 1) - 1 = Len(w)
    BY <1>1
  <1>3. SubSeq(w, 1, (Len(w) + 1) - 1) = w
    BY <1>2, SubSeqFull
  <1>4. Number(w, Len(w) + 1, base) = Num!Fold(base, 0, SubSeq(w, 1, (Len(w) + 1) - 1))
    BY DEF Number, Num!Fold, Num!FoldLeft, Num!MapThenFoldSet, Num!Max, Shift,
           FoldLeft, MapThenFoldSet, Max
  <1> QED
    BY <1>3, <1>4 DEF Value

(* The digits, and what the lines use of them. *)
LEMMA DigitFacts ==
    /\ DOMAIN Digits(10) = {"0", "1", "2", "3", "4", "5"}
    /\ DOMAIN Digits(16) = {"0", "1", "2", "3", "4", "5", "A", "B", "F"}
    /\ \A base \in {10, 16} :
          /\ Digits(base)["0"] = 0 /\ Digits(base)["1"] = 1 /\ Digits(base)["2"] = 2
          /\ Digits(base)["5"] = 5
    /\ Digits(16)["B"] = 11 /\ Digits(16)["F"] = 15
  BY DEF Digits, DigitValue

(* A number of one digit, *)
LEMMA ValueOne ==
    ASSUME NEW c \in Letters, NEW base, Digits(base)[c] \in Nat, base \in Nat
    PROVE  Value(<<c>>, base) = Digits(base)[c]
  <1>1. PICK e : e = <<>>
    OBVIOUS
  <1>2. e \in Seq(Letters) /\ <<c>> = Append(e, c)
    BY <1>1
  <1>3. Num!Fold(base, 0, Append(e, c)) = Shift(base, Num!Fold(base, 0, e), c)
    BY <1>2, Num!FoldAppend
  <1>4. Num!Fold(base, 0, e) = 0
    BY <1>1, Num!FoldEmpty
  <1>5. Shift(base, 0, c) = Digits(base)[c]
    BY DEF Shift
  <1>6. <<c>> \in Seq(Letters)
    OBVIOUS
  <1> QED
    BY <1>2, <1>3, <1>4, <1>5, <1>6, ValueIsFold

(* and of two. *)
LEMMA ValueTwo ==
    ASSUME NEW b \in Letters, NEW c \in Letters, NEW base
    PROVE  Value(<<b, c>>, base) = Shift(base, Value(<<b>>, base), c)
  <1>1. PICK s : s = <<b>>
    OBVIOUS
  <1>2. s \in Seq(Letters) /\ <<b, c>> \in Seq(Letters) /\ <<b, c>> = Append(s, c)
    BY <1>1
  <1>3. Num!Fold(base, 0, Append(s, c)) = Shift(base, Num!Fold(base, 0, s), c)
    BY <1>2, Num!FoldAppend
  <1> QED
    BY <1>1, <1>2, <1>3, ValueIsFold

(* at_tok_nextint() of a token that is a number is its value. *)
LEMMA IntIs ==
    ASSUME NEW w, NEW base, Digital(w, base), NEW cur
    PROVE  IntAt(Token(w, cur), base) = [ok |-> TRUE, value |-> Value(w, base), cur |-> cur]
  <1>1. w \in Seq(Letters) /\ w # <<>> /\ \A i \in 1 .. Len(w) : w[i] \in DOMAIN Digits(base)
    BY DEF Digital
  <1>2. /\ w \in Seq(Chars) /\ Len(w) \in Nat /\ DOMAIN w = 1 .. Len(w)
        /\ \A i \in 1 .. Len(w) : w[i] # Blank
    BY <1>1, WordSeq
  <1>3. PICK n \in Nat : n = Len(w)
    BY <1>2
  <1>4. n > 0 /\ n + 1 > 1 /\ 1 \in 1 .. n
    BY <1>1, <1>3, EmptySeq
  <1>5. SkipWhiteSpace(w) = w
    BY <1>2, <1>3, <1>4, SkipNone
  <1> DEFINE T == {i \in DOMAIN w : w[i] \notin DOMAIN Digits(base)}
             end == First(w, LAMBDA i : w[i] \notin DOMAIN Digits(base))
  <1>6. end = Min(T \cup {n + 1})
    BY <1>3 DEF First
  <1>7. T = {} /\ T \subseteq 1 .. n
    BY <1>1, <1>2
  <1>8. end = n + 1
    <2>1. n + 1 \in 1 .. n + 1 /\ \A i \in 1 .. n : i < n + 1 => i \notin T
      BY <1>7
    <2> HIDE DEF T
    <2> QED
      BY <1>6, <1>7, <2>1, MinAt
  <1>9. Token(w, cur).ok = TRUE /\ Token(w, cur).string = w /\ Token(w, cur).cur = cur
    BY DEF Token
  <1>10. IntOf(Token(w, cur), w, base) =
            [ok |-> Token(w, cur).ok /\ end > 1, value |-> Number(w, end, base), cur |-> Token(w, cur).cur]
    BY DEF IntOf
  <1> HIDE DEF end
  <1>11. IntOf(Token(w, cur), w, base) = [ok |-> TRUE, value |-> Value(w, base), cur |-> cur]
    BY <1>3, <1>4, <1>8, <1>9, <1>10 DEF Value
  <1> QED
    BY <1>5, <1>9, <1>11 DEF IntAt

(* A digit alone is a number. *)
LEMMA OneDigit ==
    ASSUME NEW c \in {"0", "1", "2", "5"}, NEW base \in {10, 16}
    PROVE  c \in Letters /\ <<c>> \in Seq(Letters) /\ Digital(<<c>>, base)
           /\ Digits(base)[c] \in Nat /\ (c # "0" => Digits(base)[c] > 0)
  <1>1. c \in Letters
    BY DEF Letters
  <1>2. c \in DOMAIN Digits(base)
    BY DigitFacts
  <1>3. <<c>> \in Seq(Letters) /\ Len(<<c>>) = 1 /\ <<c>>[1] = c /\ <<c>> # <<>>
    BY <1>1
  <1>4. \A i \in 1 .. Len(<<c>>) : <<c>>[i] \in DOMAIN Digits(base)
    <2>1. \A i \in 1 .. 1 : i = 1
      OBVIOUS
    <2> QED
      BY <1>2, <1>3, <2>1
  <1>5. Digital(<<c>>, base)
    BY <1>3, <1>4 DEF Digital
  <1>6. Digits(base)[c] \in Nat /\ (c # "0" => Digits(base)[c] > 0)
    BY DigitFacts
  <1> QED
    BY <1>1, <1>3, <1>5, <1>6

(* at_tok_nextint(): of a number alone, its value, and nothing is left; *)
LEMMA NextIntLast ==
    ASSUME NEW w, NEW base, Digital(w, base)
    PROVE  NextInt(w, base) = [ok |-> TRUE, value |-> Value(w, base), cur |-> Null]
  <1>1. NextTok(w) = Token(w, Null)
    BY TokPlain DEF Digital
  <1> QED
    BY <1>1, IntIs DEF NextInt

(* of a number and a comma, its value, and the cursor is behind the comma. *)
LEMMA NextIntThen ==
    ASSUME NEW w, NEW base, Digital(w, base), NEW r \in Seq(Chars)
    PROVE  NextInt(Then(w, r), base) = [ok |-> TRUE, value |-> Value(w, base), cur |-> r]
  <1>1. NextTok(Then(w, r)) = Token(w, r)
    BY TokPlainNext DEF Digital
  <1> QED
    BY <1>1, IntIs DEF NextInt

-----------------------------------------------------------------------------
(* Commas. *)

(* Where the commas are. *)
CommasOf(s) == {i \in DOMAIN s : s[i] = ","}

(* They are finitely many, and Commas() is their number. *)
LEMMA CommasFinite ==
    ASSUME NEW S, NEW s \in Seq(S)
    PROVE  IsFiniteSet(CommasOf(s)) /\ Commas(s) \in Nat /\ Commas(s) = Cardinality(CommasOf(s))
  <1>1. IsFiniteSet(1 .. Len(s))
    BY LenProperties, FS_Interval
  <1>2. CommasOf(s) \subseteq 1 .. Len(s)
    BY LenProperties DEF CommasOf
  <1>3. IsFiniteSet(CommasOf(s))
    BY <1>1, <1>2, FS_Subset
  <1>4. Commas(s) = Cardinality(CommasOf(s))
    BY DEF Commas, CommasOf
  <1> QED
    BY <1>3, <1>4, FS_CardinalityType

(* The commas of two texts are those of the one behind the other. *)
LEMMA CommasSum ==
    ASSUME NEW S, NEW a \in Seq(S), NEW b \in Seq(S)
    PROVE  Commas(a \o b) = Commas(a) + Commas(b)
  <1>1. PICK s : s = a \o b
    OBVIOUS
  <1>2. s \in Seq(S) /\ IsJoined(s, a, b)
    BY <1>1, JoinedIs
  <1>3. PICK m \in Nat : m = Len(a)
    BY LenProperties
  <1>4. PICK n \in Nat : n = Len(b)
    BY LenProperties
  <1>5. DOMAIN s = 1 .. m + n /\ DOMAIN a = 1 .. m /\ DOMAIN b = 1 .. n
    BY <1>2, <1>3, <1>4, LenProperties DEF IsJoined
  <1>6. (\A i \in 1 .. m : s[i] = a[i]) /\ (\A i \in 1 .. n : s[m + i] = b[i])
    BY <1>2, <1>3, <1>4 DEF IsJoined
  <1>7. PICK A : A = CommasOf(a)
    OBVIOUS
  <1>8. PICK B : B = CommasOf(b)
    OBVIOUS
  <1> DEFINE T == {m + i : i \in B}
  <1>9. A \subseteq 1 .. m /\ B \subseteq 1 .. n
    BY <1>5, <1>7, <1>8 DEF CommasOf
  <1>10. CommasOf(s) = A \cup T
    <2>1. \A i \in 1 .. m : i \in CommasOf(s) <=> i \in A
      <3>1. \A i \in 1 .. m : i \in 1 .. m + n
        OBVIOUS
      <3> QED
        BY <1>5, <1>6, <1>7, <3>1 DEF CommasOf
    <2>2. \A i \in 1 .. n : m + i \in CommasOf(s) <=> i \in B
      <3>1. \A i \in 1 .. n : m + i \in 1 .. m + n
        OBVIOUS
      <3> QED
        BY <1>5, <1>6, <1>8, <3>1 DEF CommasOf
    <2>3. \A i \in 1 .. m + n : i \in 1 .. m \/ \E j \in 1 .. n : i = m + j
      <3> SUFFICES ASSUME NEW i \in 1 .. m + n, i \notin 1 .. m PROVE \E j \in 1 .. n : i = m + j
        OBVIOUS
      <3>1. i - m \in 1 .. n /\ i = m + (i - m)
        OBVIOUS
      <3> QED
        BY <3>1
    <2>4. CommasOf(s) \subseteq 1 .. m + n
      BY <1>5 DEF CommasOf
    <2>5. ASSUME NEW i \in CommasOf(s) PROVE i \in A \cup T
      <3>1. CASE i \in 1 .. m
        BY <2>1, <3>1
      <3>2. CASE \E j \in 1 .. n : i = m + j
        BY <2>2, <3>2
      <3> QED
        BY <2>3, <2>4, <3>1, <3>2
    <2>6. A \subseteq CommasOf(s)
      BY <1>9, <2>1
    <2>7. T \subseteq CommasOf(s)
      BY <1>9, <2>2
    <2> QED
      BY <2>5, <2>6, <2>7
  <1>11. IsFiniteSet(A) /\ IsFiniteSet(B) /\ Commas(a) = Cardinality(A) /\ Commas(b) = Cardinality(B)
         /\ Commas(s) = Cardinality(CommasOf(s)) /\ Cardinality(A) \in Nat /\ Cardinality(B) \in Nat
    BY <1>2, <1>7, <1>8, CommasFinite, FS_CardinalityType
  <1>12. IsFiniteSet(T) /\ Cardinality(T) = Cardinality(B)
    <2>1. PICK f : f = [i \in B |-> m + i]
      OBVIOUS
    <2>2. f \in Bijection(B, T)
      <3>1. f \in [B -> T]
        BY <2>1
      <3>2. \A i, j \in B : f[i] = f[j] => i = j
        BY <1>9, <2>1
      <3>3. \A t \in T : \E i \in B : f[i] = t
        BY <2>1
      <3> QED
        BY <3>1, <3>2, <3>3 DEF Bijection, Injection, Surjection, IsInjective
    <2>3. ExistsBijection(B, T)
      BY <2>2 DEF ExistsBijection
    <2> HIDE DEF T
    <2> QED
      BY <1>11, <2>3, FS_Bijection
  <1>13. A \cap T = {}
    BY <1>9
  <1> HIDE DEF T
  <1>14. Cardinality(A \cup T) = Cardinality(A) + Cardinality(T) - Cardinality(A \cap T)
    BY <1>11, <1>12, FS_Union
  <1>15. Cardinality(A \cap T) = 0
    BY <1>13, FS_EmptySet
  <1> QED
    BY <1>1, <1>10, <1>11, <1>12, <1>14, <1>15

(* A text without a comma has none, *)
LEMMA CommasNone ==
    ASSUME NEW s \in Seq(Chars), \A i \in 1 .. Len(s) : s[i] # ","
    PROVE  Commas(s) = 0
  <1>1. CommasOf(s) = {}
    BY LenProperties DEF CommasOf
  <1> QED
    BY <1>1, CommasFinite, FS_EmptySet

(* a comma is one, *)
LEMMA CommasOne == Commas(<<",">>) = 1
  <1>1. PICK s : s = <<",">>
    OBVIOUS
  <1>2. "," \in Chars
    BY DEF Chars
  <1>3. s \in Seq(Chars) /\ Len(s) = 1 /\ s[1] = ","
    BY <1>1, <1>2, Single
  <1>4. DOMAIN s = {1}
    <2>1. DOMAIN s = 1 .. 1
      BY <1>3, LenProperties
    <2>2. 1 .. 1 = {1}
      OBVIOUS
    <2> QED
      BY <2>1, <2>2
  <1>5. CommasOf(s) = {1}
    BY <1>3, <1>4 DEF CommasOf
  <1> QED
    BY <1>1, <1>3, <1>5, CommasFinite, FS_Singleton

(* and two fields have one more than they have themselves. *)
LEMMA CommasThen ==
    ASSUME NEW f \in Seq(Chars), NEW r \in Seq(Chars)
    PROVE  Commas(Then(f, r)) = Commas(f) + 1 + Commas(r)
  <1>1. PICK c : c = <<",">>
    OBVIOUS
  <1>2. "," \in Chars
    BY DEF Chars
  <1>3. c \in Seq(Chars) /\ Commas(c) = 1
    BY <1>1, <1>2, Single, CommasOne
  <1>4. c \o r \in Seq(Chars)
    BY <1>3, JoinedIs
  <1>5. Commas(f \o (c \o r)) = Commas(f) + Commas(c \o r) /\ Commas(c \o r) = Commas(c) + Commas(r)
    BY <1>3, <1>4, CommasSum
  <1>6. Commas(f) \in Nat /\ Commas(r) \in Nat
    BY CommasFinite
  <1>7. Then(f, r) = f \o (c \o r)
    BY <1>1 DEF Then
  <1>8. Commas(Then(f, r)) = Commas(f) + (1 + Commas(r))
    BY <1>3, <1>5, <1>7
  <1> QED
    BY <1>6, <1>8

-----------------------------------------------------------------------------
(* Fields, quoted or not. *)

(* A word, quoted or not. *)
Item(x, w) == w \in Seq(Letters) /\ w # <<>> /\ (x = w \/ x = Quoted(w))

(* It is a text without comma that does not begin with a blank; its first   *)
(* character tells whether it is quoted.                                    *)
LEMMA ItemFacts ==
    ASSUME NEW x, NEW w, Item(x, w)
    PROVE  /\ x \in Seq(Chars) /\ x # <<>> /\ x[1] # Blank /\ Commas(x) = 0
           /\ x = w => x[1] # Quote
           /\ x = Quoted(w) => x[1] = Quote
  <1>1. w \in Seq(Letters) /\ w # <<>>
    BY DEF Item
  <1>2. CASE x = w
    <2>1. /\ x \in Seq(Chars) /\ Len(x) \in Nat
          /\ \A i \in 1 .. Len(x) : x[i] # "," /\ x[i] # Blank /\ x[i] # Quote
      BY <1>1, <1>2, WordSeq
    <2>2. 1 \in 1 .. Len(x)
      <3>1. Len(x) \in Nat \ {0}
        BY <1>1, <1>2, <2>1, EmptySeq
      <3> QED
        BY <3>1
    <2>3. x[1] # Blank /\ x[1] # Quote
      BY <2>1, <2>2
    <2>4. Commas(x) = 0
      BY <2>1, CommasNone
    <2>5. x # Quoted(w)
      BY <1>1, <2>3, QuotedIs
    <2> QED
      BY <1>1, <1>2, <2>1, <2>3, <2>4, <2>5
  <1>3. CASE x = Quoted(w)
    <2>1. x \in Seq(Chars) /\ x # <<>> /\ x[1] = Quote
      BY <1>1, <1>3, QuotedIs
    <2>2. x # w
      <3>1. 1 \in 1 .. Len(w)
        <4>1. Len(w) \in Nat \ {0}
          BY <1>1, EmptySeq
        <4> QED
          BY <4>1
      <3>2. w[1] # Quote
        BY <1>1, <3>1, WordSeq
      <3> QED
        BY <2>1, <3>2
    <2>3. Commas(x) = 0
      <3>1. PICK q : q = <<Quote>>
        OBVIOUS
      <3>2. Quote \in Chars
        BY DEF Chars
      <3>3. q \in Seq(Chars) /\ Len(q) = 1 /\ q[1] = Quote
        BY <3>1, <3>2, Single
      <3>4. Commas(q) = 0
        <4>1. \A i \in 1 .. 1 : i = 1
          OBVIOUS
        <4>2. \A i \in 1 .. Len(q) : q[i] # ","
          BY <3>3, <4>1, CharFacts
        <4> QED
          BY <3>3, <4>2, CommasNone
      <3>5. w \in Seq(Chars) /\ Commas(w) = 0
        BY <1>1, WordSeq, CommasNone
      <3>6. q \o w \in Seq(Chars) /\ Commas(q \o w) = 0 + 0
        BY <3>3, <3>4, <3>5, JoinedIs, CommasSum
      <3>7. Commas((q \o w) \o q) = (0 + 0) + 0
        BY <3>3, <3>4, <3>6, CommasSum
      <3>8. x = (q \o w) \o q
        BY <1>3, <3>1 DEF Quoted
      <3> QED
        BY <3>7, <3>8
    <2> QED
      BY <1>1, <2>1, <2>2, <2>3, CharFacts, <1>3
  <1> QED
    BY <1>2, <1>3 DEF Item

(* at_tok_nextint() of it, quoted or not, is the number, and the cursor is  *)
(* behind the comma.                                                        *)
LEMMA ItemThen ==
    ASSUME NEW x, NEW w, NEW base, Item(x, w), Digital(w, base), NEW r \in Seq(Chars)
    PROVE  NextInt(Then(x, r), base) = [ok |-> TRUE, value |-> Value(w, base), cur |-> r]
  <1>1. CASE x = w
    BY <1>1, NextIntThen
  <1>2. CASE x = Quoted(w)
    <2>1. w \in Seq(Letters)
      BY DEF Digital
    <2>2. PICK t : t = <<",">> \o r
      OBVIOUS
    <2>3. "," \in Chars
      BY DEF Chars
    <2>4. t \in Seq(Chars)
      BY <2>2, <2>3, Prefixed
    <2>5. NextTok(Quoted(w) \o t) = Token(w, SkipNextComma(t))
      BY <2>1, <2>4, TokQuoted
    <2>6. SkipNextComma(t) = r
      BY <2>2, SkipsComma
    <2>7. NextTok(Then(x, r)) = Token(w, r)
      BY <1>2, <2>2, <2>5, <2>6 DEF Then
    <2> QED
      BY <2>7, IntIs DEF NextInt
  <1> QED
    BY <1>1, <1>2 DEF Item

(* The blank that a line begins with makes no difference. *)
LEMMA AfterBlank ==
    ASSUME NEW s \in Seq(Chars), s # <<>>, s[1] # Blank
    PROVE  /\ \A base : NextInt(<<Blank>> \o s, base) = NextInt(s, base)
           /\ Commas(<<Blank>> \o s) = Commas(s)
  <1>1. \A base : NextInt(<<Blank>> \o s, base) = NextInt(s, base)
    BY TokBlank DEF NextInt
  <1>2. PICK b : b = <<Blank>>
    OBVIOUS
  <1>3. Blank \in Chars
    BY DEF Chars
  <1>4. b \in Seq(Chars) /\ Len(b) = 1 /\ b[1] = Blank
    BY <1>2, <1>3, Single
  <1>5. Commas(b) = 0
    <2>1. \A i \in 1 .. 1 : i = 1
      OBVIOUS
    <2>2. \A i \in 1 .. Len(b) : b[i] # ","
      BY <1>4, <2>1, CharFacts
    <2> QED
      BY <1>4, <2>2, CommasNone
  <1>6. Commas(b \o s) = Commas(b) + Commas(s)
    BY <1>4, CommasSum
  <1>7. Commas(s) \in Nat
    BY CommasFinite
  <1> QED
    BY <1>1, <1>2, <1>5, <1>6, <1>7

-----------------------------------------------------------------------------
(* Sequences of up to five elements. *)

(* How the sequences of up to five elements come from those of one. *)
Tupled(S, a, b, c, d, e) ==
    /\ <<a>> \in Seq(S) /\ <<a, b>> \in Seq(S) /\ <<a, b, c>> \in Seq(S)
    /\ <<a, b, c, d>> \in Seq(S) /\ <<a, b, c, d, e>> \in Seq(S)
    /\ <<a>> \o <<>> = <<a>>
    /\ <<a>> \o <<b>> = <<a, b>>
    /\ <<a>> \o <<b, c>> = <<a, b, c>>
    /\ <<a>> \o <<b, c, d>> = <<a, b, c, d>>
    /\ <<a>> \o <<b, c, d, e>> = <<a, b, c, d, e>>

(* They do, for any elements. *)
LEMMA Tuples ==
    ASSUME NEW S, NEW a \in S, NEW b \in S, NEW c \in S, NEW d \in S, NEW e \in S
    PROVE  Tupled(S, a, b, c, d, e)
  <1>1. /\ <<a>> \in Seq(S) /\ <<a, b>> \in Seq(S) /\ <<a, b, c>> \in Seq(S)
        /\ <<a, b, c, d>> \in Seq(S) /\ <<a, b, c, d, e>> \in Seq(S)
    OBVIOUS
  <1>2. <<a>> \o <<>> = <<a>>
    BY <1>1, ConcatEmptySeq
  <1>3. ASSUME NEW s \in Seq(S), NEW t \in Seq(S), Len(t) = Len(s) + 1, t[1] = a,
               \A i \in 1 .. Len(s) : t[i + 1] = s[i]
        PROVE  <<a>> \o s = t
    <2>1. PICK u : u = <<a>> \o s
      OBVIOUS
    <2>2. u \in Seq(S) /\ Len(u) = Len(s) + 1 /\ u[1] = a /\ \A i \in 1 .. Len(s) : u[i + 1] = s[i]
      BY <2>1, Prefixed
    <2>3. PICK n \in Nat : n = Len(s)
      BY LenProperties
    <2>4. ASSUME NEW i \in 1 .. n + 1 PROVE u[i] = t[i]
      <3>1. CASE i = 1
        BY <1>3, <2>2, <3>1
      <3>2. CASE i # 1
        <4>1. i - 1 \in 1 .. n /\ (i - 1) + 1 = i
          BY <3>2
        <4> QED
          BY <1>3, <2>2, <2>3, <4>1
      <3> QED
        BY <3>1, <3>2
    <2>5. Len(u) = Len(t) /\ \A i \in 1 .. Len(u) : u[i] = t[i]
      BY <1>3, <2>2, <2>3, <2>4
    <2> QED
      BY <2>1, <2>2, <2>5, SeqEqual
  <1>4. <<a>> \o <<b>> = <<a, b>>
    <2>1. PICK s : s = <<b>>
      OBVIOUS
    <2>2. PICK t : t = <<a, b>>
      OBVIOUS
    <2>3. s \in Seq(S) /\ t \in Seq(S) /\ Len(s) = 1 /\ Len(t) = Len(s) + 1 /\ t[1] = a /\ t[1 + 1] = s[1]
      BY <1>1, <2>1, <2>2
    <2>4. \A i \in 1 .. Len(s) : t[i + 1] = s[i]
      BY <2>3
    <2> QED
      BY <1>3, <2>1, <2>2, <2>3, <2>4
  <1>5. <<a>> \o <<b, c>> = <<a, b, c>>
    <2>1. PICK s : s = <<b, c>>
      OBVIOUS
    <2>2. PICK t : t = <<a, b, c>>
      OBVIOUS
    <2>3. /\ s \in Seq(S) /\ t \in Seq(S) /\ Len(s) = 2 /\ Len(t) = Len(s) + 1 /\ t[1] = a
          /\ \A i \in 1 .. 2 : t[i + 1] = s[i]
      BY <1>1, <2>1, <2>2
    <2> QED
      BY <1>3, <2>1, <2>2, <2>3
  <1>6. <<a>> \o <<b, c, d>> = <<a, b, c, d>>
    <2>1. PICK s : s = <<b, c, d>>
      OBVIOUS
    <2>2. PICK t : t = <<a, b, c, d>>
      OBVIOUS
    <2>3. /\ s \in Seq(S) /\ t \in Seq(S) /\ Len(s) = 3 /\ Len(t) = Len(s) + 1 /\ t[1] = a
          /\ \A i \in 1 .. 3 : t[i + 1] = s[i]
      BY <1>1, <2>1, <2>2
    <2> QED
      BY <1>3, <2>1, <2>2, <2>3
  <1>7. <<a>> \o <<b, c, d, e>> = <<a, b, c, d, e>>
    <2>1. PICK s : s = <<b, c, d, e>>
      OBVIOUS
    <2>2. PICK t : t = <<a, b, c, d, e>>
      OBVIOUS
    <2>3. /\ s \in Seq(S) /\ t \in Seq(S) /\ Len(s) = 4 /\ Len(t) = Len(s) + 1 /\ t[1] = a
          /\ \A i \in 1 .. 4 : t[i + 1] = s[i]
      BY <1>1, <2>1, <2>2
    <2> QED
      BY <1>3, <2>1, <2>2, <2>3
  <1> QED
    BY <1>1, <1>2, <1>4, <1>5, <1>6, <1>7 DEF Tupled

-----------------------------------------------------------------------------
(* Fields joined with commas. *)

(* One field more. *)
JoinStep(p, s, f) == s \o <<",">> \o f
Jn == INSTANCE FoldFacts WITH Op <- JoinStep
Chain(a, s) == Jn!Fold(0, a, s)

(* Join goes along the fields. *)
LEMMA JoinIsChain ==
    ASSUME NEW fields
    PROVE  Join(fields) = Chain(Head(fields), Tail(fields))
  BY DEF Join, Chain, Jn!Fold, Jn!FoldLeft, Jn!MapThenFoldSet, Jn!Max, JoinStep,
         FoldLeft, MapThenFoldSet, Max

(* That it does not matter which two of three texts are put together first. *)
Associate(r, s, t) == (r \o s) \o t = r \o (s \o t)

(* Three texts behind each other: the brackets may be left out. *)
LEMMA TextsAssociate ==
    ASSUME NEW r \in Seq(Chars), NEW s \in Seq(Chars), NEW t \in Seq(Chars)
    PROVE  Associate(r, s, t)
  BY ConcatAssociative DEF Associate

(* It does not matter which comma is put first, *)
LEMMA ThenAssociative ==
    ASSUME NEW a \in Seq(Chars), NEW b \in Seq(Chars), NEW c \in Seq(Chars)
    PROVE  Then(Then(a, b), c) = Then(a, Then(b, c))
  <1>1. PICK k : k = <<",">>
    OBVIOUS
  <1>2. "," \in Chars
    BY DEF Chars
  <1>3. k \in Seq(Chars)
    BY <1>1, <1>2, Single
  <1>4. k \o b \in Seq(Chars) /\ k \o c \in Seq(Chars)
    BY <1>3, JoinedIs
  <1>5. PICK x \in Seq(Chars), y \in Seq(Chars) : x = k \o b /\ y = k \o c
    BY <1>4
  <1>6. Associate(a, x, y) /\ Associate(k, b, y)
    BY <1>3, <1>5, TextsAssociate
  <1>7. Then(Then(a, b), c) = a \o (x \o y)
    BY <1>1, <1>5, <1>6 DEF Then, Associate
  <1>8. Then(a, Then(b, c)) = a \o (x \o y)
    BY <1>1, <1>5, <1>6 DEF Then, Associate
  <1> QED
    BY <1>7, <1>8

(* so that the fields may be joined from the front, *)
LEMMA ChainNext ==
    ASSUME NEW a \in Seq(Chars), NEW b \in Seq(Chars), NEW s \in Seq(Seq(Chars))
    PROVE  Chain(a, <<b>> \o s) = Chain(Then(a, b), s)
  <1>1. PICK S : S = Seq(Chars)
    OBVIOUS
  <1>2. Jn!Fold(0, a, <<b>> \o s) = Jn!Fold(0, JoinStep(0, a, b), s)
    BY <1>1, Jn!FoldHead
  <1>3. JoinStep(0, a, b) = Then(a, b)
    <2>1. PICK k : k = <<",">>
      OBVIOUS
    <2>2. "," \in Chars
      BY DEF Chars
    <2>3. k \in Seq(Chars)
      BY <2>1, <2>2, Single
    <2>4. (a \o k) \o b = a \o (k \o b)
      BY <2>3, ConcatAssociative
    <2> QED
      BY <2>1, <2>4 DEF JoinStep, Then
  <1> QED
    BY <1>2, <1>3 DEF Chain

(* which is how they are read: *)
JoinsAre(a, b, c, d, e) ==
    /\ Join(<<a>>) = a /\ Join(<<a, b>>) = Then(a, b)
    /\ Join(<<a, b, c>>) = Then(a, Then(b, c))
    /\ Join(<<a, b, c, d>>) = Then(a, Then(b, Then(c, d)))
    /\ Join(<<a, b, c, d, e>>) = Then(a, Then(b, Then(c, Then(d, e))))

(* and that is what Join makes of up to five fields. *)
LEMMA Joins ==
    ASSUME NEW a \in Seq(Chars), NEW b \in Seq(Chars), NEW c \in Seq(Chars), NEW d \in Seq(Chars),
           NEW e \in Seq(Chars)
    PROVE  JoinsAre(a, b, c, d, e)
  <1>1. PICK S : S = Seq(Chars)
    OBVIOUS
  <1>2. a \in S /\ b \in S /\ c \in S /\ d \in S /\ e \in S
    BY <1>1
  <1>3. /\ Join(<<a>>) = Chain(a, <<>>) /\ Join(<<a, b>>) = Chain(a, <<b>>)
        /\ Join(<<a, b, c>>) = Chain(a, <<b, c>>)
        /\ Join(<<a, b, c, d>>) = Chain(a, <<b, c, d>>)
        /\ Join(<<a, b, c, d, e>>) = Chain(a, <<b, c, d, e>>)
    <2> HIDE <1>1
    <2>1. Head(<<a>>) = a /\ Head(<<a, b>>) = a /\ Head(<<a, b, c>>) = a /\ Head(<<a, b, c, d>>) = a
          /\ Head(<<a, b, c, d, e>>) = a
      BY <1>2
    <2>2. Tail(<<a>>) = <<>> /\ Tail(<<a, b>>) = <<b>> /\ Tail(<<a, b, c>>) = <<b, c>>
          /\ Tail(<<a, b, c, d>>) = <<b, c, d>> /\ Tail(<<a, b, c, d, e>>) = <<b, c, d, e>>
      BY <1>2
    <2> QED
      BY <2>1, <2>2, JoinIsChain
  <1>4. ASSUME NEW x \in S, NEW y \in S
        PROVE  Then(x, y) \in S
    BY <1>1, ThenFacts
  <1>5. ASSUME NEW x \in S, NEW y \in S, NEW z \in S
        PROVE  Then(Then(x, y), z) = Then(x, Then(y, z))
    BY <1>1, ThenAssociative
  <1>6. ASSUME NEW x \in S, NEW y \in S, NEW s \in Seq(S)
        PROVE  Chain(x, <<y>> \o s) = Chain(Then(x, y), s)
    BY <1>1, ChainNext
  <1>7. ASSUME NEW x \in S
        PROVE  Chain(x, <<>>) = x
    BY Jn!FoldEmpty DEF Chain
  <1>8. ASSUME NEW x \in S, NEW y \in S
        PROVE  Chain(x, <<y>>) = Then(x, y)
    <2>1. PICK s : s = <<>>
      OBVIOUS
    <2>2. s \in Seq(S)
      BY <2>1, EmptySeq
    <2>3. <<y>> \o s = <<y>>
      BY <2>1, Tuples DEF Tupled
    <2>4. Chain(x, <<y>> \o s) = Chain(Then(x, y), s)
      BY <1>6, <2>2
    <2> QED
      BY <1>4, <1>7, <2>1, <2>3, <2>4
  <1>9. ASSUME NEW x \in S, NEW y \in S, NEW z \in S
        PROVE  Chain(x, <<y, z>>) = Then(x, Then(y, z))
    <2>0. Tupled(S, y, z, z, z, z) /\ Tupled(S, z, z, z, z, z)
      BY Tuples
    <2>1. <<y>> \o <<z>> = <<y, z>> /\ <<z>> \in Seq(S)
      BY <2>0 DEF Tupled
    <2>2. Chain(x, <<y>> \o <<z>>) = Chain(Then(x, y), <<z>>)
      BY <1>6, <2>1
    <2>3. Then(x, y) \in S
      BY <1>4
    <2>4. Chain(Then(x, y), <<z>>) = Then(Then(x, y), z)
      BY <1>8, <2>3
    <2> QED
      BY <1>5, <2>1, <2>2, <2>4
  <1>10. ASSUME NEW x \in S, NEW y \in S, NEW z \in S, NEW u \in S
        PROVE  Chain(x, <<y, z, u>>) = Then(x, Then(y, Then(z, u)))
    <2>0. Tupled(S, y, z, u, u, u) /\ Tupled(S, z, u, u, u, u)
      BY Tuples
    <2>1. <<y>> \o <<z, u>> = <<y, z, u>> /\ <<z, u>> \in Seq(S)
      BY <2>0 DEF Tupled
    <2>2. Chain(x, <<y>> \o <<z, u>>) = Chain(Then(x, y), <<z, u>>)
      BY <1>6, <2>1
    <2>3. Then(x, y) \in S /\ Then(z, u) \in S
      BY <1>4
    <2>4. Chain(Then(x, y), <<z, u>>) = Then(Then(x, y), Then(z, u))
      BY <1>9, <2>3
    <2>5. Then(Then(x, y), Then(z, u)) = Then(x, Then(y, Then(z, u)))
      BY <1>5, <2>3
    <2> QED
      BY <2>1, <2>2, <2>4, <2>5
  <1>11. Chain(a, <<b, c, d, e>>) = Then(a, Then(b, Then(c, Then(d, e))))
    <2>0. Tupled(S, b, c, d, e, e) /\ Tupled(S, c, d, e, e, e)
      BY <1>2, Tuples
    <2>1. <<b>> \o <<c, d, e>> = <<b, c, d, e>> /\ <<c, d, e>> \in Seq(S)
      BY <2>0 DEF Tupled
    <2>2. Chain(a, <<b>> \o <<c, d, e>>) = Chain(Then(a, b), <<c, d, e>>)
      BY <1>2, <1>6, <2>1
    <2>3. Chain(Then(a, b), <<c, d, e>>) = Then(Then(a, b), Then(c, Then(d, e)))
      BY <1>2, <1>4, <1>10
    <2>4. Then(c, Then(d, e)) \in S
      BY <1>2, <1>4
    <2>5. Then(Then(a, b), Then(c, Then(d, e))) = Then(a, Then(b, Then(c, Then(d, e))))
      BY <1>2, <1>5, <2>4
    <2> QED
      BY <2>1, <2>2, <2>3, <2>5
  <1> QED
    BY <1>2, <1>3, <1>7, <1>8, <1>9, <1>10, <1>11 DEF JoinsAre

-----------------------------------------------------------------------------
(* Cell broadcasts: what the framework selects is written to the modem with *)
(* AT+CSCB=, and read back with AT+CSCB?.                                   *)

(* How many of the first i ranges are to be stored. *)
Kept(config, i)  == {j \in 1 .. i : config[j].selected}
Count(config, i) == Cardinality(Kept(config, i))

(* It is a number, and one more for each range that is to be. *)
LEMMA CountFacts ==
    ASSUME NEW config, NEW i \in Nat
    PROVE  /\ IsFiniteSet(Kept(config, i)) /\ Count(config, i) \in Nat /\ Count(config, 0) = 0
           /\ Count(config, i + 1) = IF config[i + 1].selected THEN Count(config, i) + 1
                                     ELSE Count(config, i)
  <1>1. ASSUME NEW n \in Nat PROVE IsFiniteSet(Kept(config, n))
    <2>1. IsFiniteSet(1 .. n)
      BY FS_Interval
    <2>2. Kept(config, n) \subseteq 1 .. n
      BY DEF Kept
    <2> QED
      BY <2>1, <2>2, FS_Subset
  <1>2. Count(config, i) \in Nat
    BY <1>1, FS_CardinalityType DEF Count
  <1>3. Count(config, 0) = 0
    <2>1. Kept(config, 0) = {}
      BY DEF Kept
    <2> QED
      BY <2>1, FS_EmptySet DEF Count
  <1>4. CASE config[i + 1].selected
    <2>1. Kept(config, i + 1) = Kept(config, i) \cup {i + 1} /\ i + 1 \notin Kept(config, i)
      BY <1>4 DEF Kept
    <2>2. Cardinality(Kept(config, i) \cup {i + 1}) = Cardinality(Kept(config, i)) + 1
      BY <1>1, <2>1, FS_AddElement
    <2> QED
      BY <1>1, <1>2, <1>3, <1>4, <2>1, <2>2 DEF Count
  <1>5. CASE ~config[i + 1].selected
    <2>1. Kept(config, i + 1) = Kept(config, i)
      BY <1>5 DEF Kept
    <2> QED
      BY <1>1, <1>2, <1>3, <1>5, <2>1 DEF Count
  <1> QED
    BY <1>4, <1>5

(* The ranges before one are fewer than up to it. *)
LEMMA CountOrders ==
    ASSUME NEW config, NEW i \in Nat, NEW j \in Nat, i < j, config[j].selected
    PROVE  Count(config, i) < Count(config, j)
  <1>1. j - 1 \in Nat /\ (j - 1) + 1 = j
    OBVIOUS
  <1>2. Kept(config, i) \subseteq Kept(config, j - 1) /\ IsFiniteSet(Kept(config, j - 1))
    <2>1. Kept(config, i) \subseteq Kept(config, j - 1)
      BY DEF Kept
    <2> QED
      BY <1>1, <2>1, CountFacts
  <1>3. Count(config, i) <= Count(config, j - 1)
    BY <1>2, FS_Subset DEF Count
  <1>4. Count(config, j) = Count(config, j - 1) + 1
    BY <1>1, CountFacts
  <1>5. Count(config, i) \in Nat /\ Count(config, j - 1) \in Nat
    BY <1>1, CountFacts
  <1> QED
    BY <1>3, <1>4, <1>5

(* A range to be stored is the n-th of them, for an n up to their number. *)
LEMMA CountIn ==
    ASSUME NEW config, NEW i \in Nat, NEW q \in Kept(config, i)
    PROVE  q \in 1 .. i /\ config[q].selected /\ Count(config, q) \in 1 .. Count(config, i)
  <1>1. q \in 1 .. i /\ config[q].selected
    BY DEF Kept
  <1>2. q \in Nat /\ 0 < q
    BY <1>1
  <1>3. Count(config, 0) < Count(config, q)
    BY <1>1, <1>2, CountOrders
  <1>4. Count(config, 0) = 0 /\ Count(config, q) \in Nat /\ Count(config, i) \in Nat
    BY <1>2, CountFacts
  <1>5. Count(config, q) <= Count(config, i)
    <2>1. Kept(config, q) \subseteq Kept(config, i)
      BY <1>1 DEF Kept
    <2> QED
      BY <2>1, CountFacts, FS_Subset DEF Count
  <1> QED
    BY <1>1, <1>3, <1>4, <1>5

(* Every number up to the count is that of a range. *)
LEMMA CountReaches ==
    ASSUME NEW config, NEW l \in Nat
    PROVE  \A n \in 1 .. Count(config, l) : \E q \in Kept(config, l) : Count(config, q) = n
  <1> DEFINE Reaches(i) == \A n \in 1 .. Count(config, i) : \E q \in Kept(config, i) : Count(config, q) = n
             K == {i \in Nat : Reaches(i)}
  <1>1. 0 \in K
    BY CountFacts
  <1>2. ASSUME NEW i \in Nat, i \in K
        PROVE  i + 1 \in K
    <2>1. Kept(config, i) \subseteq Kept(config, i + 1)
      BY DEF Kept
    <2>2. CASE config[i + 1].selected
      <3>1. i + 1 \in Kept(config, i + 1) /\ Count(config, i + 1) = Count(config, i) + 1
        <4>1. i + 1 \in Kept(config, i + 1)
          BY <2>2 DEF Kept
        <4>2. Count(config, i + 1) = Count(config, i) + 1
          BY <2>2, CountFacts
        <4> QED
          BY <4>1, <4>2
      <3>2. ASSUME NEW n \in 1 .. Count(config, i + 1)
            PROVE  \E q \in Kept(config, i + 1) : Count(config, q) = n
        <4>1. n \in 1 .. Count(config, i) \/ n = Count(config, i) + 1
          BY <3>1, CountFacts
        <4>2. CASE n \in 1 .. Count(config, i)
          BY <1>2, <2>1, <4>2
        <4>3. CASE n = Count(config, i) + 1
          BY <3>1, <4>3
        <4> QED
          BY <4>1, <4>2, <4>3
      <3> QED
        BY <3>2
    <2>3. CASE ~config[i + 1].selected
      <3>1. Count(config, i + 1) = Count(config, i)
        BY <2>3, CountFacts
      <3> QED
        BY <1>2, <2>1, <3>1
    <2> QED
      BY <2>2, <2>3
  <1> HIDE DEF K
  <1>3. l \in K
    BY <1>1, <1>2, Num!InductiveSet
  <1> QED
    BY <1>3 DEF K

(* What AT+CSCB= writes of a range. *)
Piece(config, i) == <<config[i].from, "-", config[i].to>>
(* One range more. *)
MidsStep(config, s, i) ==
    IF ~config[i].selected THEN s
    ELSE s \o Piece(config, i) \o (IF i = Len(config) THEN <<>> ELSE <<",">>)
Cb == INSTANCE FoldFacts WITH Op <- MidsStep

(* Mids() goes along the list. *)
LEMMA MidsIsFold ==
    ASSUME NEW config
    PROVE  Mids(config) = Cb!Fold(config, <<>>, [i \in DOMAIN config |-> i])
  BY DEF Mids, Cb!Fold, Cb!FoldLeft, Cb!MapThenFoldSet, Cb!Max, MidsStep, Piece,
         FoldLeft, MapThenFoldSet, Max

(* In s, the ranges up to i stand in their places, with a comma behind each *)
(* but perhaps the last.                                                    *)
InPlaces(config, s, i) ==
    /\ \A q \in Kept(config, i) : \A j \in 1 .. 3 :
          s[4 * Count(config, q) - 4 + j] = Piece(config, q)[j]
    /\ \A n \in 1 .. Count(config, i) : 4 * n <= Len(s) => s[4 * n] = ","

(* A list of the framework and its ranges, in types. *)
LEMMA ConfigFacts ==
    ASSUME NEW config \in Configs
    PROVE  /\ Len(config) \in Nat \ {0} /\ DOMAIN config = 1 .. Len(config)
           /\ \A i \in 1 .. Len(config) :
                 /\ config[i].from \in {"1", "5"} /\ config[i].to = "5" /\ config[i].selected \in BOOLEAN
                 /\ Piece(config, i) \in Seq(Letters) /\ Len(Piece(config, i)) = 3
                 /\ Piece(config, i)[1] = config[i].from /\ Piece(config, i)[2] = "-"
                 /\ Piece(config, i)[3] = config[i].to
  <1>0. MaxConfig \in Nat
    BY MessagingAssumption
  <1>1. PICK n \in 1 .. MaxConfig : config \in [1 .. n -> [from : {"1", "5"}, to : {"5"}, selected : BOOLEAN]]
    BY DEF Configs
  <1>2. Len(config) = n /\ DOMAIN config = 1 .. n /\ n \in Nat \ {0}
    BY <1>0, <1>1
  <1>3. ASSUME NEW i \in 1 .. n
        PROVE  /\ config[i].from \in {"1", "5"} /\ config[i].to = "5" /\ config[i].selected \in BOOLEAN
               /\ Piece(config, i) \in Seq(Letters) /\ Len(Piece(config, i)) = 3
               /\ Piece(config, i)[1] = config[i].from /\ Piece(config, i)[2] = "-"
               /\ Piece(config, i)[3] = config[i].to
    <2>1. config[i].from \in {"1", "5"} /\ config[i].to = "5" /\ config[i].selected \in BOOLEAN
      BY <1>1
    <2>2. config[i].from \in Letters /\ config[i].to \in Letters /\ "-" \in Letters
      BY <2>1 DEF Letters
    <2>3. PICK a \in Letters : a = config[i].from
      BY <2>2
    <2>4. PICK b \in Letters : b = config[i].to
      BY <2>2
    <2>5. PICK d \in Letters : d = "-"
      BY <2>2
    <2>6. <<a, d, b>> \in Seq(Letters) /\ Len(<<a, d, b>>) = 3
      OBVIOUS
    <2>7. <<a, d, b>>[1] = a /\ <<a, d, b>>[2] = d /\ <<a, d, b>>[3] = b
      OBVIOUS
    <2>8. Piece(config, i) = <<a, d, b>>
      BY <2>3, <2>4, <2>5 DEF Piece
    <2> QED
      BY <2>1, <2>3, <2>4, <2>5, <2>6, <2>7, <2>8
  <1> QED
    BY <1>2, <1>3

(* One range more stands behind the others, with a comma but at the end of  *)
(* the list.                                                                *)
LEMMA PlacesStep ==
    ASSUME NEW config \in Configs, NEW i \in Nat, i + 1 <= Len(config),
           NEW s \in Seq(Chars), Len(s) = 4 * Count(config, i), InPlaces(config, s, i)
    PROVE  /\ MidsStep(config, s, i + 1) \in Seq(Chars)
           /\ InPlaces(config, MidsStep(config, s, i + 1), i + 1)
           /\ Len(MidsStep(config, s, i + 1)) =
                 IF config[i + 1].selected /\ i + 1 = Len(config) THEN 4 * Count(config, i + 1) - 1
                 ELSE 4 * Count(config, i + 1)
  <1>1. PICK t : t = MidsStep(config, s, i + 1)
    OBVIOUS
  <1>2. i + 1 \in 1 .. Len(config)
    BY ConfigFacts
  <1>3. PICK c \in Nat : c = Count(config, i)
    BY CountFacts
  <1>4. CASE ~config[i + 1].selected
    <2>1. t = s
      BY <1>1, <1>4 DEF MidsStep
    <2>2. Kept(config, i + 1) = Kept(config, i)
      BY <1>4 DEF Kept
    <2>3. Count(config, i + 1) = Count(config, i)
      BY <1>4, CountFacts
    <2>4. InPlaces(config, t, i + 1)
      BY <2>1, <2>2, <2>3 DEF InPlaces
    <2> QED
      BY <1>1, <1>4, <2>1, <2>3, <2>4
  <1>5. CASE config[i + 1].selected
    <2>1. Count(config, i + 1) = c + 1
      BY <1>3, <1>5, CountFacts
    <2>2. PICK p : p = Piece(config, i + 1)
      OBVIOUS
    <2>3. p \in Seq(Letters) /\ p \in Seq(Chars) /\ Len(p) = 3
      BY <1>2, <2>2, ConfigFacts, WordSeq
    <2>4. PICK u : u = s \o p
      OBVIOUS
    <2>5. PICK e : e = IF i + 1 = Len(config) THEN <<>> ELSE <<",">>
      OBVIOUS
    <2>6. PICK m \in 0 .. 1 : m = IF i + 1 = Len(config) THEN 0 ELSE 1
      OBVIOUS
    <2>7. "," \in Chars
      BY DEF Chars
    <2>8. e \in Seq(Chars) /\ Len(e) = m /\ (m = 1 => e[1] = ",")
      <3>1. CASE i + 1 = Len(config)
        <4>1. e = <<>> /\ m = 0
          BY <2>5, <2>6, <3>1
        <4> QED
          BY <4>1, EmptySeq
      <3>2. CASE i + 1 # Len(config)
        <4>1. e = <<",">> /\ m = 1
          BY <2>5, <2>6, <3>2
        <4> QED
          BY <2>7, <4>1, Single
      <3> QED
        BY <3>1, <3>2
    <2>9. t = u \o e
      BY <1>1, <1>5, <2>2, <2>4, <2>5 DEF MidsStep
    <2>10. u \in Seq(Chars) /\ IsJoined(u, s, p)
      BY <2>3, <2>4, JoinedIs
    <2>11. t \in Seq(Chars) /\ IsJoined(t, u, e)
      BY <2>8, <2>9, <2>10, JoinedIs
    <2>12. Len(u) = 4 * c + 3
      <3>1. Len(u) = Len(s) + Len(p)
        BY <2>10 DEF IsJoined
      <3>2. Len(s) = 4 * c /\ Len(p) = 3
        BY <1>3, <2>3
      <3> QED
        BY <3>1, <3>2
    <2>13. Len(t) = 4 * c + 3 + m
      <3>1. Len(t) = Len(u) + Len(e) /\ Len(e) = m
        BY <2>8, <2>11 DEF IsJoined
      <3> QED
        BY <2>12, <3>1
    <2>14. \A k \in 1 .. 4 * c + 3 : t[k] = u[k]
      BY <2>11, <2>12 DEF IsJoined
    <2>15. \A k \in 1 .. 4 * c : u[k] = s[k]
      BY <1>3, <2>10 DEF IsJoined
    <2>16. \A k \in 1 .. 4 * c : t[k] = s[k]
      <3>1. \A k \in 1 .. 4 * c : k \in 1 .. 4 * c + 3
        OBVIOUS
      <3> QED
        BY <2>14, <2>15, <3>1
    <2>17. \A j \in 1 .. 3 : t[4 * c + j] = p[j]
      <3>1. \A j \in 1 .. 3 : 4 * c + j \in 1 .. 4 * c + 3
        OBVIOUS
      <3>2. \A j \in 1 .. 3 : u[4 * c + j] = p[j]
        BY <1>3, <2>3, <2>10 DEF IsJoined
      <3> QED
        BY <2>14, <3>1, <3>2
    <2>18. ASSUME NEW q \in Kept(config, i + 1), NEW j \in 1 .. 3
           PROVE  t[4 * Count(config, q) - 4 + j] = Piece(config, q)[j]
      <3>1. CASE q = i + 1
        <4>1. 4 * Count(config, q) - 4 + j = 4 * c + j
          BY <2>1, <3>1
        <4> QED
          BY <2>2, <2>17, <3>1, <4>1
      <3>2. CASE q # i + 1
        <4>1. q \in Kept(config, i) /\ q \in 1 .. i /\ config[q].selected
          BY <3>2 DEF Kept
        <4>2. Count(config, q) \in 1 .. c
          BY <1>3, <4>1, CountIn
        <4>3. PICK n \in 1 .. c : n = Count(config, q)
          BY <4>2
        <4>4. 4 * n - 4 + j \in 1 .. 4 * c
          OBVIOUS
        <4>5. s[4 * n - 4 + j] = Piece(config, q)[j]
          BY <4>1, <4>3 DEF InPlaces
        <4> QED
          BY <2>16, <4>3, <4>4, <4>5
      <3> QED
        BY <3>1, <3>2
    <2>19. ASSUME NEW n \in 1 .. c + 1, 4 * n <= Len(t)
           PROVE  t[4 * n] = ","
      <3>1. CASE n \in 1 .. c
        <4>1. 4 * n <= 4 * c /\ 4 * n \in 1 .. 4 * c
          BY <3>1
        <4>2. s[4 * n] = ","
          BY <1>3, <3>1, <4>1 DEF InPlaces
        <4> QED
          BY <2>16, <4>1, <4>2
      <3>2. CASE n = c + 1
        <4>1. m = 1 /\ 4 * n = (4 * c + 3) + 1
          BY <2>13, <2>19, <3>2
        <4>2. Len(e) = 1 /\ e[1] = ","
          BY <2>8, <4>1
        <4>3. 1 \in 1 .. 1
          OBVIOUS
        <4>4. t[Len(u) + 1] = e[1]
          BY <2>11, <4>2, <4>3 DEF IsJoined
        <4>5. 4 * n = Len(u) + 1
          BY <2>12, <4>1
        <4>6. t[4 * n] = t[Len(u) + 1]
          BY <4>5
        <4> QED
          BY <4>2, <4>4, <4>6
      <3>3. n \in 1 .. c \/ n = c + 1
        OBVIOUS
      <3> QED
        BY <3>1, <3>2, <3>3
    <2>20. InPlaces(config, t, i + 1)
      BY <2>1, <2>18, <2>19 DEF InPlaces
    <2>21. Len(t) = IF i + 1 = Len(config) THEN 4 * (c + 1) - 1 ELSE 4 * (c + 1)
      BY <2>6, <2>13
    <2> QED
      BY <1>1, <1>5, <2>1, <2>11, <2>20, <2>21
  <1> QED
    BY <1>4, <1>5

(* What AT+CSCB? gives of a list with ranges: k of them, in their places,   *)
(* and a comma behind the last or not.                                      *)
Shape(s, config) ==
    /\ s \in Seq(Chars)
    /\ Len(s) \in {4 * Count(config, Len(config)) - 1, 4 * Count(config, Len(config))}
    /\ InPlaces(config, s, Len(config))

(* And so Mids() is: an induction along the list. *)
LEMMA MidsShape ==
    ASSUME NEW config \in Configs
    PROVE  Shape(Mids(config), config)
  <1>1. PICK l \in Nat : l = Len(config) /\ DOMAIN config = 1 .. l /\ l > 0
    BY ConfigFacts
  <1>2. PICK idx : idx = [i \in DOMAIN config |-> i]
    OBVIOUS
  <1>3. DOMAIN idx = 1 .. l /\ \A i \in 1 .. l : idx[i] = i
    BY <1>1, <1>2
  <1>4. PICK h : Cb!Steps(config, h, <<>>, idx, l) /\ Cb!Fold(config, <<>>, idx) = h[l]
    BY <1>3, Cb!FoldUnfolds
  <1>5. h[0] = <<>> /\ \A k \in 1 .. l : h[k] = MidsStep(config, h[k - 1], k)
    BY <1>3, <1>4 DEF Cb!Steps
  <1> DEFINE Good(i) == /\ h[i] \in Seq(Chars) /\ InPlaces(config, h[i], i)
                        /\ Len(h[i]) = IF i > 0 /\ config[i].selected /\ i = l
                                       THEN 4 * Count(config, i) - 1 ELSE 4 * Count(config, i)
             K == {i \in Nat : i <= l => Good(i)}
  <1>6. 0 \in K
    <2>1. Kept(config, 0) = {}
      BY DEF Kept
    <2>2. Count(config, 0) = 0
      BY CountFacts
    <2>3. PICK e : e = <<>>
      OBVIOUS
    <2>4. InPlaces(config, e, 0)
      <3>1. 1 .. Count(config, 0) = {}
        BY <2>2
      <3> QED
        BY <2>1, <3>1 DEF InPlaces
    <2>5. Len(e) = 0 /\ e \in Seq(Chars)
      BY <2>3, EmptySeq
    <2>6. h[0] = e
      BY <1>5, <2>3
    <2>7. Good(0)
      BY <2>2, <2>4, <2>5, <2>6
    <2> QED
      BY <2>7
  <1>7. ASSUME NEW i \in Nat, i \in K
        PROVE  i + 1 \in K
    <2> SUFFICES ASSUME i + 1 <= l PROVE Good(i + 1)
      OBVIOUS
    <2>1. i # l /\ i <= l /\ i + 1 \in 1 .. l /\ (i + 1) - 1 = i /\ i + 1 > 0
      OBVIOUS
    <2>2. Good(i)
      BY <1>7, <2>1
    <2>3. PICK s \in Seq(Chars) : s = h[i]
      BY <2>2
    <2>4. Len(s) = 4 * Count(config, i) /\ InPlaces(config, s, i)
      BY <2>1, <2>2, <2>3
    <2>5. h[i + 1] = MidsStep(config, s, i + 1)
      BY <1>5, <2>1, <2>3
    <2> HIDE DEF Good
    <2>6. /\ MidsStep(config, s, i + 1) \in Seq(Chars)
          /\ InPlaces(config, MidsStep(config, s, i + 1), i + 1)
          /\ Len(MidsStep(config, s, i + 1)) =
                IF config[i + 1].selected /\ i + 1 = Len(config) THEN 4 * Count(config, i + 1) - 1
                ELSE 4 * Count(config, i + 1)
      BY <1>1, <2>1, <2>4, PlacesStep
    <2> QED
      BY <1>1, <2>1, <2>5, <2>6 DEF Good
  <1> HIDE DEF K
  <1>8. l \in K
    BY <1>6, <1>7, Num!InductiveSet
  <1>9. Good(l)
    BY <1>8 DEF K
  <1>10. Mids(config) = h[l]
    BY <1>2, <1>4, MidsIsFold
  <1> QED
    BY <1>1, <1>9, <1>10 DEF Shape

(* The number of ranges is that of Selected(), whose n-th is the one with n *)
(* ranges up to it.                                                         *)
LEMMA SelectedIs ==
    ASSUME NEW config \in Configs, NEW k \in Nat, k = Count(config, Len(config))
    PROVE  /\ Len(Selected(config)) = k /\ DOMAIN Selected(config) = 1 .. k
           /\ \A n \in 1 .. k : \E q \in Kept(config, Len(config)) :
                 /\ Count(config, q) = n
                 /\ Selected(config)[n] = <<NextInt(<<config[q].from>>, 10).value,
                                            NextInt(<<config[q].to>>, 10).value>>
  <1>1. PICK l \in Nat : l = Len(config)
    BY ConfigFacts
  <1> DEFINE kept  == {i \in DOMAIN config : config[i].selected}
             Nth(i, n) == Cardinality({j \in kept : j < i}) = n - 1
             at(n) == CHOOSE i \in kept : Nth(i, n)
  <1>2. kept = Kept(config, l)
    BY <1>1, ConfigFacts DEF Kept
  <1>3. Cardinality(kept) = k
    BY <1>1, <1>2 DEF Count
  <1>4. Selected(config) = [n \in 1 .. k |->
           <<NextInt(<<config[at(n)].from>>, 10).value, NextInt(<<config[at(n)].to>>, 10).value>>]
    BY <1>3 DEF Selected
  <1>5. ASSUME NEW i \in kept, NEW n \in 1 .. k
        PROVE  Nth(i, n) <=> Count(config, i) = n
    <2>1. i \in 1 .. l /\ config[i].selected /\ i - 1 \in Nat /\ (i - 1) + 1 = i
      BY <1>2 DEF Kept
    <2>2. {j \in kept : j < i} = Kept(config, i - 1)
      BY <1>2, <2>1 DEF Kept
    <2>3. Count(config, i) = Count(config, i - 1) + 1 /\ Count(config, i - 1) \in Nat
      BY <2>1, CountFacts
    <2>4. Cardinality({j \in kept : j < i}) = Count(config, i - 1)
      BY <2>2 DEF Count
    <2> HIDE DEF kept
    <2>5. Nth(i, n) <=> Count(config, i - 1) = n - 1
      BY <2>4
    <2> QED
      BY <2>3, <2>5
  <1> HIDE DEF Nth
  <1>6. ASSUME NEW n \in 1 .. k
        PROVE  at(n) \in kept /\ Count(config, at(n)) = n
    <2>1. \E i \in kept : Nth(i, n)
      <3>1. \E q \in Kept(config, l) : Count(config, q) = n
        BY <1>1, CountReaches
      <3> QED
        BY <1>2, <1>5, <3>1
    <2>2. at(n) \in kept /\ Nth(at(n), n)
      BY <2>1
    <2> QED
      BY <1>5, <2>2
  <1> HIDE DEF kept, at
  <1>7. Len(Selected(config)) = k /\ DOMAIN Selected(config) = 1 .. k
    BY <1>4
  <1>8. \A n \in 1 .. k : Selected(config)[n] =
           <<NextInt(<<config[at(n)].from>>, 10).value, NextInt(<<config[at(n)].to>>, 10).value>>
    BY <1>4
  <1> QED
    BY <1>1, <1>2, <1>6, <1>7, <1>8

(* The n-th token. *)
LEMMA NthToken ==
    ASSUME NEW config \in Configs, NEW s, Shape(s, config), NEW q \in Kept(config, Len(config)),
           NEW n, n = Count(config, q)
    PROVE  NextTok(From(s, 4 * n - 3)) =
              Token(Piece(config, q), IF 4 * n <= Len(s) THEN From(s, 4 * n + 1) ELSE Null)
  <1>1. PICK l \in Nat : l = Len(config)
    BY ConfigFacts
  <1>2. PICK k \in Nat : k = Count(config, l)
    BY <1>1, CountFacts
  <1>3. q \in 1 .. l /\ n \in 1 .. k
    BY <1>1, <1>2, CountIn
  <1>4. PICK p : p = Piece(config, q)
    OBVIOUS
  <1>5. p \in Seq(Letters) /\ p \in Seq(Chars) /\ Len(p) = 3
    BY <1>1, <1>3, <1>4, ConfigFacts, WordSeq
  <1>6. PICK m \in Nat : m = 4 * n - 4
    BY <1>3
  <1>7. s \in Seq(Chars)
    BY DEF Shape
  <1>8. PICK length \in Nat : length = Len(s)
    BY <1>7, LenProperties
  <1>9. m + 3 <= length /\ n \in Nat
    <2>1. length \in {4 * k - 1, 4 * k}
      BY <1>1, <1>2, <1>8 DEF Shape
    <2> QED
      BY <1>3, <1>6, <2>1
  <1>10. /\ 4 * n - 3 = m + 1 /\ 4 * n + 1 = m + 5 /\ (4 * n <= length <=> m + 4 <= length)
         /\ 4 * n = m + 4 /\ \A j : 4 * n - 4 + j = m + j
    BY <1>6, <1>9
  <1>11. SubSeq(s, m + 1, m + 3) = p
    <2>1. PICK t : t = SubSeq(s, m + 1, m + 3)
      OBVIOUS
    <2>2. t \in Seq(Chars) /\ Len(t) = 3 /\ \A j \in 1 .. 3 : t[j] = s[m + j]
      BY <1>7, <1>8, <1>9, <2>1, Part
    <2>3. \A j \in 1 .. 3 : s[m + j] = p[j]
      BY <1>1, <1>4, <1>10 DEF Shape, InPlaces
    <2>4. Len(t) = Len(p) /\ \A j \in 1 .. Len(t) : t[j] = p[j]
      BY <1>5, <2>2, <2>3
    <2> QED
      BY <1>5, <2>1, <2>2, <2>4, SeqEqual
  <1>12. CASE m + 4 <= length
    <2>1. s[m + 4] = ","
      BY <1>1, <1>2, <1>3, <1>8, <1>10, <1>12 DEF Shape, InPlaces
    <2>2. /\ m + 1 \in 1 .. Len(s) + 1 /\ m + 3 \in (m + 1) - 1 .. Len(s)
          /\ Len(s) \in m + 3 .. Len(s) /\ (m + 3) + 1 = m + 4
          /\ m + 4 \in 1 .. Len(s) /\ Len(s) \in m + 4 .. Len(s) /\ (m + 4) + 1 = m + 5
      BY <1>8, <1>9, <1>12
    <2>3. SubSeq(s, m + 1, m + 3) \o SubSeq(s, (m + 3) + 1, Len(s)) = SubSeq(s, m + 1, Len(s))
      BY <1>7, <2>2, ConcatAdjacentSubSeq
    <2>4. SubSeq(s, m + 4, Len(s)) = <<s[m + 4]>> \o SubSeq(s, (m + 4) + 1, Len(s))
      BY <1>7, <2>2, SubSeqRecursiveFirst
    <2>5. From(s, m + 1) = Then(p, From(s, m + 5))
      BY <1>11, <2>1, <2>2, <2>3, <2>4 DEF From, Then
    <2>6. From(s, m + 5) \in Seq(Chars)
      <3>1. \A j \in m + 5 .. Len(s) : s[j] \in Chars
        <4>1. \A j \in m + 5 .. Len(s) : j \in 1 .. Len(s)
          BY <1>8
        <4> QED
          BY <1>7, <4>1, ElementOfSeq
      <3>2. m + 5 \in Int /\ Len(s) \in Int
        BY <1>8
      <3> QED
        BY <3>1, <3>2, SubSeqProperties DEF From
    <2>7. NextTok(Then(p, From(s, m + 5))) = Token(p, From(s, m + 5))
      BY <1>5, <2>6, TokPlainNext
    <2>8. 4 * n <= Len(s)
      BY <1>8, <1>10, <1>12
    <2> QED
      BY <1>4, <1>10, <2>5, <2>7, <2>8
  <1>13. CASE ~(m + 4 <= length)
    <2>1. Len(s) = m + 3 /\ ~(4 * n <= Len(s))
      BY <1>8, <1>9, <1>10, <1>13
    <2>2. From(s, m + 1) = p
      BY <1>11, <2>1 DEF From
    <2>3. NextTok(p) = Token(p, Null)
      BY <1>5, TokPlain
    <2> QED
      BY <1>4, <1>10, <2>1, <2>2, <2>3
  <1> QED
    BY <1>12, <1>13

(* strchr() and two at_tok_nextint() take the ends of a range apart, *)
LEMMA EndsOf ==
    ASSUME NEW config \in Configs, NEW q \in 1 .. Len(config)
    PROVE  RangeEnds(Piece(config, q)) =
              [ok |-> TRUE, ends |-> <<NextInt(<<config[q].from>>, 10).value,
                                       NextInt(<<config[q].to>>, 10).value>>]
  <1>1. config[q].from \in {"1", "5"} /\ config[q].to = "5"
    BY ConfigFacts
  <1>2. PICK f : f = config[q].from
    OBVIOUS
  <1>3. PICK t : t = config[q].to
    OBVIOUS
  <1>4. f \in {"0", "1", "2", "5"} /\ t \in {"0", "1", "2", "5"} /\ f # "-" /\ t # "-" /\ 10 \in {10, 16}
    BY <1>1, <1>2, <1>3
  <1>5. PICK v : v = <<f>>
    OBVIOUS
  <1>6. PICK w : w = <<t>>
    OBVIOUS
  <1>7. Digital(v, 10) /\ Digital(w, 10)
    BY <1>4, <1>5, <1>6, OneDigit
  <1>8. w \in Seq(Chars)
    BY <1>7, WordSeq DEF Digital
  <1>9. [i \in DOMAIN Piece(config, q) |-> IF Piece(config, q)[i] = "-" THEN "," ELSE Piece(config, q)[i]]
           = Then(v, w)
    <2>1. Piece(config, q) = <<f, "-", t>>
      BY <1>2, <1>3 DEF Piece
    <2>2. PICK c : c = ","
      OBVIOUS
    <2>3. PICK d : d = "-"
      OBVIOUS
    <2>4. f # d /\ t # d
      BY <1>4, <2>3
    <2>5. [i \in DOMAIN <<f, d, t>> |-> IF <<f, d, t>>[i] = d THEN c ELSE <<f, d, t>>[i]] = <<f, c, t>>
      BY <2>4
    <2>6. <<f>> \o (<<c>> \o <<t>>) = <<f, c, t>>
      <3>1. f \in {f, c, t} /\ c \in {f, c, t} /\ t \in {f, c, t}
        OBVIOUS
      <3>2. Tupled({f, c, t}, c, t, t, t, t) /\ Tupled({f, c, t}, f, c, t, t, t)
        BY <3>1, Tuples
      <3> QED
        BY <3>2 DEF Tupled
    <2> QED
      BY <1>5, <1>6, <2>1, <2>2, <2>3, <2>5, <2>6 DEF Then
  <1>10. NextInt(Then(v, w), 10) = [ok |-> TRUE, value |-> Value(v, 10), cur |-> w]
    BY <1>7, <1>8, NextIntThen
  <1>11. /\ NextInt(w, 10) = [ok |-> TRUE, value |-> Value(w, 10), cur |-> Null]
         /\ NextInt(v, 10) = [ok |-> TRUE, value |-> Value(v, 10), cur |-> Null]
    BY <1>7, NextIntLast
  <1>12. RangeFrom([ok |-> TRUE, value |-> Value(v, 10), cur |-> w]) =
            [ok |-> TRUE, ends |-> <<Value(v, 10), Value(w, 10)>>]
    <2>1. PICK from : from = [ok |-> TRUE, value |-> Value(v, 10), cur |-> w]
      OBVIOUS
    <2>2. PICK to : to = NextInt(w, 10)
      OBVIOUS
    <2>3. from.ok = TRUE /\ from.value = Value(v, 10) /\ from.cur = w
      BY <2>1
    <2>4. to.ok = TRUE /\ to.value = Value(w, 10)
      BY <1>11, <2>2
    <2>5. RangeOf(from, to) = [ok |-> TRUE, ends |-> <<Value(v, 10), Value(w, 10)>>]
      BY <2>3, <2>4 DEF RangeOf
    <2> QED
      BY <2>1, <2>2, <2>3, <2>5 DEF RangeFrom
  <1>13. RangeEnds(Piece(config, q)) = [ok |-> TRUE, ends |-> <<Value(v, 10), Value(w, 10)>>]
    BY <1>9, <1>10, <1>12 DEF RangeEnds
  <1>14. NextInt(v, 10).value = Value(v, 10) /\ NextInt(w, 10).value = Value(w, 10)
    BY <1>11
  <1> QED
    BY <1>2, <1>3, <1>5, <1>6, <1>13, <1>14

(* but not those of an empty token. *)
LEMMA EndsNone == RangeEnds(<<>>).ok = FALSE
  <1>1. PICK e : e = <<>>
    OBVIOUS
  <1>2. e \in Seq(Letters) /\ e \in Seq(Chars) /\ Len(e) = 0 /\ DOMAIN e = {}
    BY <1>1, EmptySeq
  <1>3. [i \in DOMAIN e |-> IF e[i] = "-" THEN "," ELSE e[i]] = e
    BY <1>1
  <1>4. NextTok(e) = Token(e, Null)
    BY <1>2, TokPlain
  <1>5. SkipWhiteSpace(e) = e
    BY <1>1, <1>2, SkipNone
  <1> DEFINE end == First(e, LAMBDA i : e[i] \notin DOMAIN Digits(10))
  <1>6. end = 1
    <2>1. {i \in DOMAIN e : e[i] \notin DOMAIN Digits(10)} \cup {Len(e) + 1} = {1}
      BY <1>2
    <2>2. Min({1}) = 1
      BY Least
    <2> QED
      BY <2>1, <2>2 DEF First
  <1>7. IntOf(Token(e, Null), e, 10) =
           [ok |-> TRUE /\ end > 1, value |-> Number(e, end, 10), cur |-> Null]
    BY DEF IntOf, Token
  <1> HIDE DEF end
  <1>8. NextInt(e, 10).ok = FALSE
    <2>1. IntOf(Token(e, Null), e, 10).ok = FALSE
      <3>1. ~(end > 1)
        BY <1>6
      <3>2. IntOf(Token(e, Null), e, 10).ok = (TRUE /\ end > 1)
        BY <1>7
      <3> QED
        BY <3>1, <3>2
    <2>2. Token(e, Null).string = e
      BY DEF Token
    <2> QED
      BY <1>4, <1>5, <2>1, <2>2 DEF NextInt, IntAt
  <1> QED
    BY <1>1, <1>3, <1>8 DEF RangeEnds, RangeFrom, RangeOf

(* One token more. *)
FoundStep(p, found, i) == Found(found.strings, NextTok(found.cur))
Str == INSTANCE FoldFacts WITH Op <- FoundStep

(* Strings() takes token after token. *)
LEMMA StringsIsFold ==
    ASSUME NEW cur, NEW max
    PROVE  Strings(cur, max) = Str!Fold(0, Found(<<>>, NoTok(cur)), [i \in 1 .. max |-> i]).strings
  BY DEF Strings, Str!Fold, Str!FoldLeft, Str!MapThenFoldSet, Str!Max, FoundStep,
         FoldLeft, MapThenFoldSet, Max

(* The tokens found are t more, and the cursor is at c. *)
Gains(new, found, t, c) ==
    /\ new.cur = c /\ new.strings \in Seq(Seq(Chars))
    /\ Len(new.strings) = Len(found.strings) + 1
    /\ new.strings[Len(found.strings) + 1] = t
    /\ \A n \in 1 .. Len(found.strings) : new.strings[n] = found.strings[n]

(* A step of the loop, if there is a token, *)
LEMMA FoundOne ==
    ASSUME NEW found, NEW t \in Seq(Chars), NEW c, NextTok(found.cur) = Token(t, c),
           found.strings \in Seq(Seq(Chars)), NEW p, NEW i
    PROVE  Gains(FoundStep(p, found, i), found, t, c)
  <1>1. Token(t, c).ok = TRUE /\ Token(t, c).string = t /\ Token(t, c).cur = c
    BY DEF Token
  <1>2. FoundStep(p, found, i) = [strings |-> Append(found.strings, t), cur |-> c]
    BY <1>1 DEF FoundStep, Found
  <1>3. PICK st \in Seq(Seq(Chars)) : st = found.strings
    OBVIOUS
  <1>4. /\ Append(st, t) \in Seq(Seq(Chars)) /\ Len(Append(st, t)) = Len(st) + 1
        /\ Append(st, t)[Len(st) + 1] = t
        /\ \A n \in 1 .. Len(st) : Append(st, t)[n] = st[n]
    BY <1>3, AppendProperties
  <1>5. FoundStep(p, found, i).strings = Append(st, t) /\ FoundStep(p, found, i).cur = c
    BY <1>2, <1>3
  <1> QED
    BY <1>3, <1>4, <1>5 DEF Gains

(* A cursor that is Null gives no token. *)
LEMMA FoundNone ==
    ASSUME NEW found, found.cur = Null
    PROVE  \A p, i : /\ FoundStep(p, found, i).strings = found.strings
                     /\ FoundStep(p, found, i).cur = Null
  <1>1. NextTok(found.cur) = NoTok(Null)
    BY DEF NextTok
  <1> QED
    BY <1>1 DEF FoundStep, Found, NoTok

(* n ranges have been found. *)
Ranges(config, found, n) ==
    /\ found.strings \in Seq(Seq(Chars)) /\ Len(found.strings) = n
    /\ \A q \in Kept(config, Len(config)) :
          Count(config, q) <= n => found.strings[Count(config, q)] = Piece(config, q)

(* With n ranges found and the cursor behind them, a step finds the next    *)
(* one.                                                                     *)
LEMMA RangeStep ==
    ASSUME NEW config \in Configs, NEW s, Shape(s, config), NEW n \in Nat, NEW found,
           n + 1 <= Count(config, Len(config)), Ranges(config, found, n),
           found.cur = From(s, 4 * n + 1), NEW p, NEW i
    PROVE  /\ Ranges(config, FoundStep(p, found, i), n + 1)
           /\ FoundStep(p, found, i).cur =
                 IF 4 * (n + 1) <= Len(s) THEN From(s, 4 * (n + 1) + 1) ELSE Null
  <1>1. PICK l \in Nat : l = Len(config)
    BY ConfigFacts
  <1>2. PICK k \in Nat : k = Count(config, l)
    BY <1>1, CountFacts
  <1>3. n + 1 \in 1 .. k /\ n + 1 \in Nat
    BY <1>1, <1>2
  <1>4. PICK c : c = IF 4 * (n + 1) <= Len(s) THEN From(s, 4 * (n + 1) + 1) ELSE Null
    OBVIOUS
  <1>5. 4 * n + 1 = 4 * (n + 1) - 3
    OBVIOUS
  <1>6. ASSUME NEW q \in Kept(config, l), Count(config, q) = n + 1
        PROVE  /\ NextTok(found.cur) = Token(Piece(config, q), c)
               /\ Piece(config, q) \in Seq(Chars)
    <2>1. q \in 1 .. l
      BY CountIn
    <2>2. Piece(config, q) \in Seq(Chars)
      BY <1>1, <2>1, ConfigFacts, WordSeq
    <2>3. PICK m \in Nat : m = n + 1 /\ m = Count(config, q)
      BY <1>3, <1>6
    <2>4. NextTok(From(s, 4 * m - 3)) =
             Token(Piece(config, q), IF 4 * m <= Len(s) THEN From(s, 4 * m + 1) ELSE Null)
      BY <1>1, <2>3, NthToken
    <2>5. From(s, 4 * m - 3) = found.cur
      BY <1>5, <2>3
    <2> QED
      BY <1>4, <2>2, <2>3, <2>4, <2>5
  <1>7. PICK q \in Kept(config, l) : Count(config, q) = n + 1
    BY <1>2, <1>3, CountReaches
  <1>8. PICK new : new = FoundStep(p, found, i)
    OBVIOUS
  <1>9. found.strings \in Seq(Seq(Chars)) /\ Len(found.strings) = n
    BY DEF Ranges
  <1>10. /\ new.cur = c /\ new.strings \in Seq(Seq(Chars))
         /\ Len(new.strings) = n + 1 /\ new.strings[n + 1] = Piece(config, q)
         /\ \A m \in 1 .. n : new.strings[m] = found.strings[m]
    <2>1. PICK t : t = Piece(config, q)
      OBVIOUS
    <2>2. NextTok(found.cur) = Token(t, c) /\ t \in Seq(Chars)
      BY <1>6, <1>7, <2>1
    <2>3. Gains(new, found, t, c)
      BY <1>8, <1>9, <2>2, FoundOne
    <2> QED
      BY <1>9, <2>1, <2>3 DEF Gains
  <1>11. ASSUME NEW r \in Kept(config, l), Count(config, r) <= n + 1
         PROVE  new.strings[Count(config, r)] = Piece(config, r)
    <2>1. Count(config, r) \in Nat /\ Count(config, r) >= 1
      BY <1>2, CountIn
    <2>2. CASE Count(config, r) = n + 1
      <3>1. NextTok(found.cur) = Token(Piece(config, r), c) /\ NextTok(found.cur) = Token(Piece(config, q), c)
        BY <1>6, <1>7, <2>2
      <3>2. Token(Piece(config, r), c).string = Piece(config, r) /\ Token(Piece(config, q), c).string = Piece(config, q)
        BY DEF Token
      <3>3. Piece(config, r) = Piece(config, q)
        BY <3>1, <3>2
      <3> QED
        BY <1>10, <2>2, <3>3
    <2>3. CASE Count(config, r) # n + 1
      <3>1. Count(config, r) <= n /\ Count(config, r) \in 1 .. n
        BY <1>11, <2>1, <2>3
      <3>2. found.strings[Count(config, r)] = Piece(config, r)
        BY <1>1, <3>1 DEF Ranges
      <3> QED
        BY <1>10, <3>1, <3>2
    <2> QED
      BY <2>2, <2>3
  <1>12. Ranges(config, new, n + 1)
    BY <1>1, <1>10, <1>11 DEF Ranges
  <1> QED
    BY <1>4, <1>8, <1>10, <1>12

(* Where a loop over the tokens of a list of k ranges may be: among them,   *)
(* behind the last, at what a comma behind the last leaves, or past that,   *)
(* with a token that is empty.                                              *)
Among(config, s, f, n) ==
    n < Count(config, Len(config)) /\ Ranges(config, f, n) /\ f.cur = From(s, 4 * n + 1)
Behind(config, f, cur) == Ranges(config, f, Count(config, Len(config))) /\ f.cur = cur
WithEmpty(strings) ==
    strings \in Seq(Seq(Chars)) /\ \E n \in 1 .. Len(strings) : strings[n] = <<>>
Past(f) == WithEmpty(f.strings) /\ f.cur = Null

(* A step among the tokens leads to the next one, or behind the last. *)
LEMMA AmongStep ==
    ASSUME NEW config \in Configs, NEW s, Shape(s, config), NEW n \in Nat, NEW f,
           Among(config, s, f, n), NEW p, NEW i
    PROVE  \/ Among(config, s, FoundStep(p, f, i), n + 1)
           \/ /\ n + 1 = Count(config, Len(config))
              /\ \/ Behind(config, FoundStep(p, f, i), Null)
                 \/ Behind(config, FoundStep(p, f, i), <<>>)
  <1>1. PICK k \in Nat : k = Count(config, Len(config))
    BY ConfigFacts, CountFacts
  <1>2. PICK g : g = FoundStep(p, f, i)
    OBVIOUS
  <1>3. n + 1 <= k
    BY <1>1 DEF Among
  <1>4. /\ Ranges(config, g, n + 1)
        /\ g.cur = IF 4 * (n + 1) <= Len(s) THEN From(s, 4 * (n + 1) + 1) ELSE Null
    BY <1>1, <1>2, <1>3, RangeStep DEF Among
  <1>5. s \in Seq(Chars) /\ Len(s) \in {4 * k - 1, 4 * k}
    BY <1>1 DEF Shape
  <1>6. CASE n + 1 < k
    <2>1. 4 * (n + 1) <= Len(s)
      BY <1>5, <1>6
    <2> QED
      BY <1>1, <1>2, <1>4, <1>6, <2>1 DEF Among
  <1>7. CASE n + 1 = k
    <2>1. CASE 4 * (n + 1) <= Len(s)
      <3>1. Len(s) = 4 * (n + 1) /\ Len(s) < 4 * (n + 1) + 1 /\ 4 * (n + 1) + 1 \in Int /\ Len(s) \in Int
        BY <1>5, <1>7, <2>1
      <3>2. From(s, 4 * (n + 1) + 1) = <<>>
        BY <3>1, SubSeqEmpty DEF From
      <3> QED
        BY <1>1, <1>2, <1>4, <1>7, <2>1, <3>2 DEF Behind
    <2>2. CASE ~(4 * (n + 1) <= Len(s))
      BY <1>1, <1>2, <1>4, <1>7, <2>2 DEF Behind
    <2> QED
      BY <2>1, <2>2
  <1> QED
    BY <1>3, <1>6, <1>7

(* Behind the last there is nothing, or one empty token and then nothing. *)
LEMMA BehindStep ==
    ASSUME NEW config, NEW f, NEW p, NEW i
    PROVE  /\ Behind(config, f, Null) => Behind(config, FoundStep(p, f, i), Null)
           /\ Past(f) => Past(FoundStep(p, f, i))
           /\ Behind(config, f, <<>>) => Past(FoundStep(p, f, i))
  <1>1. PICK g : g = FoundStep(p, f, i)
    OBVIOUS
  <1>2. f.cur = Null => g.strings = f.strings /\ g.cur = Null
    BY <1>1, FoundNone
  <1>3. Behind(config, f, Null) => Behind(config, g, Null)
    BY <1>2 DEF Behind, Ranges
  <1>4. Past(f) => Past(g)
    BY <1>2 DEF Past
  <1>5. ASSUME Behind(config, f, <<>>)
        PROVE  Past(g)
    <2>1. PICK e : e = <<>>
      OBVIOUS
    <2>2. e \in Seq(Letters) /\ e \in Seq(Chars)
      BY <2>1, EmptySeq
    <2>3. NextTok(f.cur) = Token(e, Null)
      BY <1>5, <2>1, <2>2, TokPlain DEF Behind
    <2>4. f.strings \in Seq(Seq(Chars))
      BY <1>5 DEF Behind, Ranges
    <2>5. Gains(g, f, e, Null)
      BY <1>1, <2>2, <2>3, <2>4, FoundOne
    <2>6. PICK n \in Nat : n = Len(f.strings)
      BY <2>4, LenProperties
    <2>7. g.cur = Null /\ g.strings \in Seq(Seq(Chars)) /\ Len(g.strings) = n + 1 /\ g.strings[n + 1] = e
      BY <2>5, <2>6 DEF Gains
    <2>8. n + 1 \in 1 .. n + 1
      OBVIOUS
    <2> QED
      BY <2>1, <2>7, <2>8 DEF Past, WithEmpty
  <1> QED
    BY <1>1, <1>3, <1>4, <1>5

(* So the loop finds the ranges, up to max, or an empty token among others. *)
LEMMA StringsAre ==
    ASSUME NEW config \in Configs, NEW s, Shape(s, config), s # <<>>, NEW max \in Nat
    PROVE  \/ WithEmpty(Strings(s, max))
           \/ \E f : /\ f.strings = Strings(s, max)
                     /\ Ranges(config, f, IF max < Count(config, Len(config)) THEN max
                                          ELSE Count(config, Len(config)))
  <1>1. PICK k \in Nat : k = Count(config, Len(config))
    BY ConfigFacts, CountFacts
  <1>2. PICK base : base = Found(<<>>, NoTok(s))
    OBVIOUS
  <1>3. PICK idx : idx = [i \in 1 .. max |-> i]
    OBVIOUS
  <1>4. DOMAIN idx = 1 .. max
    BY <1>3
  <1>5. PICK h : Str!Steps(0, h, base, idx, max) /\ Str!Fold(0, base, idx) = h[max]
    BY <1>4, Str!FoldUnfolds
  <1>6. h[0] = base /\ \A i \in 1 .. max : h[i] = FoundStep(0, h[i - 1], idx[i])
    BY <1>5 DEF Str!Steps
  <1>7. Strings(s, max) = h[max].strings
    BY <1>2, <1>3, <1>5, StringsIsFold
  <1> DEFINE Good(i) == \/ Among(config, s, h[i], i)
                        \/ k <= i /\ Behind(config, h[i], Null)
                        \/ k <= i /\ Behind(config, h[i], <<>>)
                        \/ Past(h[i])
             K == {i \in Nat : i <= max => Good(i)}
  <1>8. 0 \in K
    <2>1. base.strings = <<>> /\ base.cur = s
      BY <1>2 DEF Found, NoTok
    <2>2. s \in Seq(Chars) /\ Len(s) \in {4 * k - 1, 4 * k} /\ Len(s) \in Nat \ {0}
      BY <1>1, EmptySeq DEF Shape
    <2>3. 0 < k /\ 4 * 0 + 1 = 1
      BY <2>2
    <2>4. From(s, 4 * 0 + 1) = s
      BY <2>2, <2>3, SubSeqFull DEF From
    <2>5. Ranges(config, base, 0)
      <3>1. base.strings \in Seq(Seq(Chars)) /\ Len(base.strings) = 0
        BY <2>1, EmptySeq
      <3>2. \A q \in Kept(config, Len(config)) : ~(Count(config, q) <= 0)
        BY <1>1, CountIn, ConfigFacts
      <3> QED
        BY <3>1, <3>2 DEF Ranges
    <2> QED
      BY <1>1, <1>6, <2>1, <2>3, <2>4, <2>5 DEF Among
  <1>9. ASSUME NEW i \in Nat, i \in K
        PROVE  i + 1 \in K
    <2> SUFFICES ASSUME i + 1 <= max PROVE Good(i + 1)
      OBVIOUS
    <2>1. Good(i) /\ i + 1 \in 1 .. max /\ (i + 1) - 1 = i
      BY <1>9
    <2>2. PICK f : f = h[i]
      OBVIOUS
    <2>3. h[i + 1] = FoundStep(0, f, idx[i + 1])
      BY <1>6, <2>1, <2>2
    <2>4. CASE Among(config, s, f, i)
      <3>1. \/ Among(config, s, h[i + 1], i + 1)
            \/ /\ i + 1 = k
               /\ Behind(config, h[i + 1], Null) \/ Behind(config, h[i + 1], <<>>)
        BY <1>1, <2>3, <2>4, AmongStep
      <3>2. i + 1 = k => k <= i + 1
        BY <1>1
      <3> QED
        BY <3>1, <3>2
    <2>5. CASE k <= i /\ Behind(config, f, Null)
      <3>1. Behind(config, h[i + 1], Null)
        BY <2>3, <2>5, BehindStep
      <3>2. k <= i + 1
        BY <1>1, <2>5
      <3> QED
        BY <3>1, <3>2
    <2>6. CASE (k <= i /\ Behind(config, f, <<>>)) \/ Past(f)
      BY <2>3, <2>6, BehindStep
    <2> QED
      BY <2>1, <2>2, <2>4, <2>5, <2>6
  <1> HIDE DEF K
  <1>10. max \in K
    BY <1>8, <1>9, Num!InductiveSet
  <1>11. Good(max)
    BY <1>10 DEF K
  <1> HIDE DEF Good
  <1>12. CASE Among(config, s, h[max], max)
    BY <1>1, <1>7, <1>12 DEF Among
  <1>13. CASE k <= max /\ (Behind(config, h[max], Null) \/ Behind(config, h[max], <<>>))
    <2>1. ~(max < k)
      BY <1>13
    <2> QED
      BY <1>1, <1>7, <1>13, <2>1 DEF Behind
  <1>14. CASE Past(h[max])
    BY <1>7, <1>14 DEF Past
  <1> QED
    BY <1>11, <1>12, <1>13, <1>14 DEF Good

(* With nothing stored there is a token still, that is empty.               *)
LEMMA StringsOfNone ==
    ASSUME NEW max \in Nat \ {0}
    PROVE  WithEmpty(Strings(<<>>, max))
  <1>1. PICK e : e = <<>>
    OBVIOUS
  <1>2. e \in Seq(Letters) /\ e \in Seq(Chars) /\ e \in Seq(Seq(Chars)) /\ Len(e) = 0
    BY <1>1, EmptySeq
  <1>3. PICK base : base = Found(<<>>, NoTok(e))
    OBVIOUS
  <1>4. PICK idx : idx = [i \in 1 .. max |-> i]
    OBVIOUS
  <1>5. DOMAIN idx = 1 .. max
    BY <1>4
  <1>6. PICK h : Str!Steps(0, h, base, idx, max) /\ Str!Fold(0, base, idx) = h[max]
    BY <1>5, Str!FoldUnfolds
  <1>7. h[0] = base /\ \A i \in 1 .. max : h[i] = FoundStep(0, h[i - 1], idx[i])
    BY <1>6 DEF Str!Steps
  <1>8. Strings(e, max) = h[max].strings
    BY <1>3, <1>4, <1>6, StringsIsFold
  <1> DEFINE K == {i \in Nat : i + 1 <= max => Past(h[i + 1])}
  <1>9. 0 \in K
    <2>1. base.strings = e /\ base.cur = e
      BY <1>1, <1>3 DEF Found, NoTok
    <2>2. NextTok(base.cur) = Token(e, Null)
      BY <1>2, <2>1, TokPlain
    <2>3. h[1] = FoundStep(0, base, idx[1])
      <3>1. 1 \in 1 .. max /\ 1 - 1 = 0
        OBVIOUS
      <3> QED
        BY <1>7, <3>1
    <2>4. Gains(h[1], base, e, Null)
      BY <1>2, <2>1, <2>2, <2>3, FoundOne
    <2>5. Len(base.strings) = 0
      BY <1>2, <2>1
    <2>6. /\ h[1].cur = Null /\ h[1].strings \in Seq(Seq(Chars)) /\ Len(h[1].strings) = 0 + 1
          /\ h[1].strings[0 + 1] = e
      BY <2>4, <2>5 DEF Gains
    <2>7. 0 + 1 \in 1 .. 0 + 1 /\ 0 + 1 = 1
      OBVIOUS
    <2>8. Past(h[0 + 1])
      BY <1>1, <2>6, <2>7 DEF Past, WithEmpty
    <2> QED
      BY <2>8
  <1>10. ASSUME NEW i \in Nat, i \in K
         PROVE  i + 1 \in K
    <2> SUFFICES ASSUME (i + 1) + 1 <= max PROVE Past(h[(i + 1) + 1])
      OBVIOUS
    <2>1. Past(h[i + 1]) /\ (i + 1) + 1 \in 1 .. max /\ ((i + 1) + 1) - 1 = i + 1
      BY <1>10
    <2>2. h[(i + 1) + 1] = FoundStep(0, h[i + 1], idx[(i + 1) + 1])
      BY <1>7, <2>1
    <2> QED
      BY <2>1, <2>2, BehindStep
  <1> HIDE DEF K
  <1>11. \A i \in Nat : i \in K
    BY <1>9, <1>10, Num!InductiveSet
  <1>12. Past(h[max])
    <2>1. max - 1 \in Nat /\ (max - 1) + 1 = max
      OBVIOUS
    <2> QED
      BY <1>11, <2>1 DEF K
  <1> QED
    BY <1>1, <1>8, <1>12 DEF Past

-----------------------------------------------------------------------------
(* What the modem has stored are the ranges of a list that it may have, as  *)
(* far as the framework can tell, and an answer with ranges has those.      *)
Stored ==
    \/ mids = <<>>
    \/ \E config \in Configs : mids = Mids(config) /\ Selected(config) \in wanted

(* What GET_CONFIG gives of them, by its buffer for ten. *)
Taken(list) == SubSeq(list, 1, IF Len(list) < MaxRanges THEN Len(list) ELSE MaxRanges)

(* What it tells is that. *)
RangesTold ==
    outcome.errno = "SUCCESS" /\ outcome.request = "GET_CONFIG" =>
        \E list \in wanted : outcome.what = Taken(list)

BroadcastInv == Stored /\ RangesTold

(* If each token has its ends, they are the ranges stored: there was no     *)
(* empty one.                                                               *)
LEMMA RangesRead ==
    ASSUME Stored, NEW found, found = Strings(mids, MaxRanges), NEW ranges,
           ranges = [i \in DOMAIN found |-> RangeEnds(found[i])],
           ~ \E i \in DOMAIN ranges : ~ranges[i].ok
    PROVE  \E list \in wanted : [i \in DOMAIN ranges |-> ranges[i].ends] = Taken(list)
  <1>1. MaxRanges \in Nat \ {0}
    BY MessagingAssumption
  <1>2. ~WithEmpty(found)
    <2> SUFFICES ASSUME WithEmpty(found) PROVE FALSE
      OBVIOUS
    <2>1. found \in Seq(Seq(Chars))
      BY DEF WithEmpty
    <2>2. PICK n \in 1 .. Len(found) : found[n] = <<>>
      BY DEF WithEmpty
    <2>3. n \in DOMAIN found
      BY <2>1, <2>2, LenProperties
    <2>4. ranges[n].ok = FALSE
      BY <2>2, <2>3, EndsNone
    <2> QED
      BY <2>3, <2>4
  <1>3. mids # <<>>
    BY <1>1, <1>2, StringsOfNone
  <1>4. PICK config \in Configs, list \in wanted : mids = Mids(config) /\ list = Selected(config)
    BY <1>3 DEF Stored
  <1>5. Shape(mids, config)
    BY <1>4, MidsShape
  <1>6. PICK l \in Nat : l = Len(config)
    BY ConfigFacts
  <1>7. PICK k \in Nat : k = Count(config, l)
    BY <1>6, CountFacts
  <1>8. PICK m \in Nat : m = IF MaxRanges < k THEN MaxRanges ELSE k
    BY <1>1
  <1>9. m <= k
    BY <1>1, <1>8
  <1>10. PICK f : f.strings = found /\ Ranges(config, f, m)
    BY <1>1, <1>2, <1>3, <1>5, <1>6, <1>7, <1>8, StringsAre
  <1>11. found \in Seq(Seq(Chars)) /\ Len(found) = m
    BY <1>10 DEF Ranges
  <1>12. DOMAIN found = 1 .. m
    BY <1>11, LenProperties
  <1>13. /\ Len(list) = k /\ DOMAIN list = 1 .. k
         /\ \A n \in 1 .. k : \E q \in Kept(config, l) :
               /\ Count(config, q) = n
               /\ list[n] = <<NextInt(<<config[q].from>>, 10).value,
                                NextInt(<<config[q].to>>, 10).value>>
    <2>1. PICK w : w = Selected(config)
      OBVIOUS
    <2>2. k = Count(config, Len(config))
      BY <1>6, <1>7
    <2>3. /\ Len(w) = k /\ DOMAIN w = 1 .. k
          /\ \A n \in 1 .. k : \E q \in Kept(config, Len(config)) :
                /\ Count(config, q) = n
                /\ w[n] = <<NextInt(<<config[q].from>>, 10).value,
                           NextInt(<<config[q].to>>, 10).value>>
      BY <2>1, <2>2, SelectedIs, Zenon
    <2>4. w = list /\ Kept(config, Len(config)) = Kept(config, l)
      BY <1>4, <1>6, <2>1, Zenon
    <2> QED
      BY <2>3, <2>4, Zenon
  <1>14. ASSUME NEW n \in 1 .. m
         PROVE  ranges[n].ends = list[n]
    <2>1. n \in 1 .. k /\ n <= m
      BY <1>9
    <2>2. PICK q \in Kept(config, l) :
             /\ Count(config, q) = n
             /\ list[n] = <<NextInt(<<config[q].from>>, 10).value,
                              NextInt(<<config[q].to>>, 10).value>>
      BY <1>13, <2>1
    <2>3. found[n] = Piece(config, q)
      BY <1>6, <1>10, <2>1, <2>2 DEF Ranges
    <2>4. q \in 1 .. Len(config)
      BY <1>6, CountIn
    <2>5. RangeEnds(Piece(config, q)).ends = list[n]
      BY <2>2, <2>4, EndsOf
    <2> QED
      BY <1>12, <2>3, <2>5
  <1>15. DOMAIN ranges = 1 .. m
    BY <1>12
  <1>16. Taken(list) = [i \in 1 .. m |-> list[i]]
    <2>1. Taken(list) = SubSeq(list, 1, m)
      <3>1. (IF Len(list) < MaxRanges THEN Len(list) ELSE MaxRanges) = m
        BY <1>1, <1>8, <1>13
      <3> QED
        BY <3>1 DEF Taken
    <2> QED
      BY <1>8, <2>1
  <1> QED
    BY <1>14, <1>15, <1>16

(* At first the modem has none. *)
LEMMA BroadcastBegins == MessagingInit => BroadcastInv
  BY DEF MessagingInit, BroadcastInv, Stored, RangesTold, NotGiven

(* requestGSMGetBroadcastSMSConfig() reads and tells what is stored. *)
LEMMA ConfigRead ==
    ASSUME Stored, RequestGSMGetBroadcastSMSConfig
    PROVE  BroadcastInv'
  <1>1. UNCHANGED <<mids, wanted>>
    BY DEF RequestGSMGetBroadcastSMSConfig
  <1>2. Stored'
    BY <1>1 DEF Stored
  <1>3. CASE Give("GET_CONFIG", "GENERIC_FAILURE")
    BY <1>2, <1>3 DEF Give, BroadcastInv, RangesTold
  <1>4. CASE ~Give("GET_CONFIG", "GENERIC_FAILURE")
    <2>1. PICK found : /\ found = Strings(mids, MaxRanges)
                       /\ \E ranges \in {[i \in DOMAIN found |-> RangeEnds(found[i])]} :
                          IF \E i \in DOMAIN ranges : ~ranges[i].ok THEN Give("GET_CONFIG", "GENERIC_FAILURE")
                          ELSE GiveThis("GET_CONFIG", [i \in DOMAIN ranges |-> ranges[i].ends])
      BY <1>4 DEF RequestGSMGetBroadcastSMSConfig
    <2>2. PICK ranges : /\ ranges = [i \in DOMAIN found |-> RangeEnds(found[i])]
                        /\ ~ \E i \in DOMAIN ranges : ~ranges[i].ok
                        /\ GiveThis("GET_CONFIG", [i \in DOMAIN ranges |-> ranges[i].ends])
      BY <1>4, <2>1
    <2>3. PICK list \in wanted : [i \in DOMAIN ranges |-> ranges[i].ends] = Taken(list)
      BY <2>1, <2>2, RangesRead
    <2>4. list \in wanted' /\ GiveThis("GET_CONFIG", Taken(list))
      BY <1>1, <2>2, <2>3
    <2> QED
      BY <1>2, <2>4 DEF GiveThis, BroadcastInv, RangesTold, Taken
  <1> QED
    BY <1>3, <1>4

(* And every step keeps the two in agreement: the invariant of cell         *)
(* broadcasts.                                                              *)
LEMMA BroadcastKept ==
    ASSUME BroadcastInv, [MessagingNext]_messageVars
    PROVE  BroadcastInv'
  <1> USE DEF BroadcastInv
  <1>1. ASSUME UNCHANGED <<mids, wanted>>
        PROVE  Stored'
    BY <1>1 DEF Stored
  <1>2. CASE UNCHANGED messageVars
    BY <1>1, <1>2 DEF messageVars, RangesTold, Taken
  <1>3. CASE TakeAnswer
    BY <1>1, <1>3 DEF TakeAnswer, RangesTold, NotGiven
  <1>4. CASE RequestSendSMS
    BY <1>1, <1>4 DEF RequestSendSMS, RangesTold, Give, GiveThis
  <1>5. CASE RequestGetSMSCAddress
    BY <1>1, <1>5 DEF RequestGetSMSCAddress, RangesTold, Give, GiveThis
  <1>6. ASSUME NEW number \in Numbers, RequestSetSMSCAddress(number)
        PROVE  BroadcastInv'
    BY <1>1, <1>6 DEF RequestSetSMSCAddress, RangesTold, Give
  <1>7. ASSUME NEW config \in Configs, RequestGSMSetBroadcastSMSConfig(config)
        PROVE  BroadcastInv'
    <2>1. RangesTold'
      BY <1>7 DEF RequestGSMSetBroadcastSMSConfig, RangesTold, Give
    <2>2. CASE UNCHANGED <<mids, wanted>>
      BY <1>1, <2>1, <2>2
    <2>3. CASE MayBeStored(Mids(config), Selected(config))
      BY <2>1, <2>3 DEF MayBeStored, Stored
    <2>4. CASE mids' = Mids(config) /\ wanted' = {Selected(config)}
      BY <2>1, <2>4 DEF Stored
    <2> QED
      BY <1>7, <2>2, <2>3, <2>4 DEF RequestGSMSetBroadcastSMSConfig
  <1>8. CASE RequestGSMGetBroadcastSMSConfig
    BY <1>8, ConfigRead
  <1>9. CASE outcome = NotGiven /\ OnSIMReady
    <2>1. RangesTold'
      BY <1>9 DEF OnSIMReady, RangesTold, NotGiven
    <2> QED
      BY <1>9, <2>1 DEF OnSIMReady, MayBeStored, Stored
  <1> QED
    BY <1>2, <1>3, <1>4, <1>5, <1>6, <1>7, <1>8, <1>9 DEF MessagingNext

-----------------------------------------------------------------------------
(* The service centre: the digits go out in pairs, each turned around, and  *)
(* the modem turns them back.                                               *)

(* As many ranges are selected as the list has that are to be.              *)
LEMMA SelectedLength ==
    ASSUME NEW config \in Configs
    PROVE  Len(Selected(config)) <= MaxConfig
  <1>1. PICK n \in 1 .. MaxConfig :
           config \in [1 .. n -> [from : {"1", "5"}, to : {"5"}, selected : BOOLEAN]]
    BY DEF Configs
  <1> DEFINE kept  == {i \in DOMAIN config : config[i].selected}
             k     == Cardinality(kept)
             at(m) == CHOOSE i \in kept : Cardinality({j \in kept : j < i}) = m - 1
             ends(m) == <<NextInt(<<config[at(m)].from>>, 10).value,
                          NextInt(<<config[at(m)].to>>, 10).value>>
  <1>2. n \in Nat /\ n <= MaxConfig /\ MaxConfig \in Nat
    BY MessagingAssumption
  <1>3. IsFiniteSet(1 .. n) /\ Cardinality(1 .. n) = n
    BY <1>2, FS_Interval
  <1>4. k \in Nat /\ k <= n
    <2>1. kept \subseteq 1 .. n
      BY <1>1
    <2> HIDE DEF kept
    <2> QED
      BY <1>3, <2>1, FS_Subset, FS_CardinalityType
  <1>5. Selected(config) = [m \in 1 .. k |-> ends(m)]
    BY DEF Selected
  <1> HIDE DEF k, ends
  <1>6. [m \in 1 .. k |-> ends(m)] \in Seq({ends(m) : m \in 1 .. k})
    BY <1>4
  <1>7. Len([m \in 1 .. k |-> ends(m)]) = k
    BY <1>4, <1>6
  <1> QED
    BY <1>2, <1>4, <1>5, <1>7

(* The types of Messaging are kept,                                         *)
LEMMA MessagingTypeStep ==
    ASSUME MessagingTypeOK, [MessagingNext]_messageVars
    PROVE  MessagingTypeOK'
  <1> USE DEF MessagingTypeOK
  <1>1. CASE TakeAnswer
    BY <1>1 DEF TakeAnswer, NotGiven
  <1>2. CASE RequestSendSMS
    BY <1>2 DEF RequestSendSMS, Give, GiveThis
  <1>3. CASE RequestGetSMSCAddress
    BY <1>3 DEF RequestGetSMSCAddress, Give, GiveThis
  <1>4. ASSUME NEW number \in Numbers, RequestSetSMSCAddress(number) PROVE MessagingTypeOK'
    BY <1>4 DEF RequestSetSMSCAddress, Give
  <1>5. ASSUME NEW config \in Configs, RequestGSMSetBroadcastSMSConfig(config)
        PROVE  MessagingTypeOK'
    BY <1>5, SelectedLength DEF RequestGSMSetBroadcastSMSConfig, MayBeStored, Give
  <1>6. CASE RequestGSMGetBroadcastSMSConfig
    BY <1>6 DEF RequestGSMGetBroadcastSMSConfig, Give, GiveThis
  <1>7. CASE UNCHANGED messageVars
    BY <1>7 DEF messageVars
  <1>8. CASE OnSIMReady
    BY <1>8, MessagingAssumption DEF OnSIMReady, MayBeStored
  <1> QED
    BY <1>1, <1>2, <1>3, <1>4, <1>5, <1>6, <1>7, <1>8 DEF MessagingNext

(* and hold at first.                                                       *)
LEMMA MessagingBegins == MessagingInit => MessagingTypeOK
  BY MessagingAssumption DEF MessagingInit, MessagingTypeOK, NotGiven

(* Twice the half of a number, rounded up, is the next even number.         *)
LEMMA Pairs ==
    ASSUME NEW n \in Nat
    PROVE  /\ 2 * ((n + 1) \div 2 + 1 - 1) = n + (n % 2) /\ n % 2 \in {0, 1}
           /\ (n + (n % 2)) % 2 = 0
  <1> DEFINE k == n \div 2  h == (n + 1) \div 2  r == n % 2
  <1>1. k \in Nat /\ h \in Nat /\ r \in {0, 1} /\ n = 2 * k + r
    OBVIOUS
  <1>2. h = k + r
    <2> HIDE DEF k, r
    <2>1. CASE r = 0
      BY <1>1, <2>1
    <2>2. CASE r = 1
      BY <1>1, <2>2
    <2> QED
      BY <1>1, <2>1, <2>2
  <1> HIDE DEF k, h, r
  <1>3. 2 * (h + 1 - 1) = n + r
    BY <1>1, <1>2
  <1>4. (n + r) % 2 = 0
    <2>1. n + r = 2 * h
      BY <1>1, <1>2
    <2>2. (2 * h) % 2 = 0
      BY <1>1
    <2> QED
      BY <2>1, <2>2
  <1> QED
    BY <1>1, <1>3, <1>4 DEF h, r

(* Where a digit of the number stands among the semi-octets.                *)
LEMMA SemiOctet ==
    ASSUME NEW n \in Nat \ {0}, NEW number \in [1 .. n -> {"1", "2"}], NEW p \in 1 .. n + (n % 2)
    PROVE  LET q == IF p % 2 = 1 THEN p + 1 ELSE p - 1 IN
           SemiOctets(number)[q] = IF p <= n THEN number[p] ELSE "F"
  <1> DEFINE q == IF p % 2 = 1 THEN p + 1 ELSE p - 1
  <1>1. Len(number) = n
    <2>1. number \in Seq({"1", "2"})
      OBVIOUS
    <2> QED
      BY <2>1
  <1>2. n % 2 \in {0, 1} /\ (n + (n % 2)) % 2 = 0 /\ p % 2 \in {0, 1} /\ p \in Nat
    BY Pairs
  <1>3. q \in 1 .. n + (n % 2)
    BY <1>2
  <1>4. SemiOctets(number)[q] =
           CASE q = n + 1                 -> number[n]
             [] n % 2 = 1 /\ q = n        -> "F"
             [] q % 2 = 1 /\ q < n        -> number[q + 1]
             [] q % 2 = 0 /\ q <= n       -> number[q - 1]
    BY <1>1, <1>3 DEF SemiOctets
  <1>5. CASE p = n + 1
    <2>1. n % 2 = 1 /\ q = n
      BY <1>2, <1>5
    <2> QED
      BY <1>4, <1>5, <2>1
  <1>6. CASE p <= n /\ p % 2 = 1 /\ p < n
    <2>1. q = p + 1 /\ q % 2 = 0 /\ q <= n /\ q # n + 1 /\ ~(n % 2 = 1 /\ q = n) /\ q - 1 = p
      BY <1>2, <1>6
    <2> QED
      BY <1>4, <1>6, <2>1
  <1>7. CASE p <= n /\ p % 2 = 1 /\ p = n
    BY <1>2, <1>4, <1>7
  <1>8. CASE p <= n /\ p % 2 = 0
    <2>1. q = p - 1 /\ q % 2 = 1 /\ q < n /\ q # n + 1 /\ q + 1 = p
      BY <1>2, <1>8
    <2> QED
      BY <1>4, <1>8, <2>1
  <1> QED
    BY <1>2, <1>5, <1>6, <1>7, <1>8

(* Taking the semi-octets apart undoes putting them together.               *)
LEMMA ReadBack ==
    ASSUME NEW n \in Nat \ {0}, NEW number \in [1 .. n -> {"1", "2"}]
    PROVE  ReadAddress(Smsc(number)) = number
  <1> DEFINE D == {"1", "2", "F"}
             m == n + (n % 2)
             turned == [p \in 1 .. m |-> SemiOctets(number)[IF p % 2 = 1 THEN p + 1 ELSE p - 1]]
  <1>1. number \in Seq({"1", "2"}) /\ number \in Seq(D) /\ Len(number) = n
    OBVIOUS
  <1>2. n \in Nat /\ m \in Nat /\ n <= m /\ m <= n + 1 /\ 2 * ((n + 1) \div 2 + 1 - 1) = m
    BY Pairs
  <1>3. ReadAddress(Smsc(number)) = SubSeq(turned, 1, First(turned, LAMBDA i : turned[i] = "F") - 1)
    <2> DEFINE smsc == Smsc(number)
    <2>1. 2 * (smsc.octets - 1) = m /\ smsc.digits = SemiOctets(number)
      BY <1>1, <1>2 DEF Smsc
    <2>2. [p \in 1 .. 2 * (smsc.octets - 1) |->
             smsc.digits[IF p % 2 = 1 THEN p + 1 ELSE p - 1]] = turned
      <3> HIDE DEF smsc, m
      <3> QED
        BY <2>1
    <2>3. ReadAddress(smsc) =
             LET back == [p \in 1 .. 2 * (smsc.octets - 1) |->
                            smsc.digits[IF p % 2 = 1 THEN p + 1 ELSE p - 1]] IN
             SubSeq(back, 1, First(back, LAMBDA i : back[i] = "F") - 1)
      BY DEF ReadAddress
    <2> HIDE DEF smsc, m, turned
    <2>4. ReadAddress(smsc) = SubSeq(turned, 1, First(turned, LAMBDA i : turned[i] = "F") - 1)
      BY <2>2, <2>3 DEF First
    <2> QED
      BY <2>4 DEF smsc
  <1>4. ASSUME NEW p \in 1 .. m PROVE turned[p] = IF p <= n THEN number[p] ELSE "F"
    BY <1>4, SemiOctet
  <1>5. turned \in Seq(D) /\ Len(turned) = m /\ DOMAIN turned = 1 .. m
    <2>1. \A p \in 1 .. m : turned[p] \in D
      BY <1>1, <1>4
    <2> HIDE DEF m
    <2>2. turned \in [1 .. m -> D]
      BY <2>1
    <2> QED
      BY <1>2, <2>2
  <1>6. First(turned, LAMBDA i : turned[i] = "F") = n + 1
    <2> HIDE DEF turned, m
    <2>1. \A i \in DOMAIN turned : turned[i] = "F" <=> i = n + 1
      BY <1>1, <1>2, <1>4, <1>5
    <2>2. n + 1 \in {i \in DOMAIN turned : turned[i] = "F"} \cup {Len(turned) + 1}
      BY <1>2, <1>5, <2>1
    <2>3. \A i \in {j \in DOMAIN turned : turned[j] = "F"} \cup {Len(turned) + 1} : n + 1 <= i /\ i \in Nat
      BY <1>2, <1>5, <2>1
    <2> DEFINE S == {i \in DOMAIN turned : turned[i] = "F"} \cup {Len(turned) + 1}
    <2>4. First(turned, LAMBDA i : turned[i] = "F") = Min(S)
      BY DEF First
    <2> HIDE DEF S
    <2>5. n + 1 \in S /\ \A i \in S : n + 1 <= i /\ i \in Nat
      BY <2>2, <2>3 DEF S
    <2>6. Min(S) = n + 1
      BY <2>5 DEF Min
    <2> QED
      BY <2>4, <2>6
  <1>7. SubSeq(turned, 1, n) = number
    <2> HIDE DEF turned, m
    <2>1. /\ SubSeq(turned, 1, n) \in Seq(D) /\ Len(SubSeq(turned, 1, n)) = n
          /\ \A i \in 1 .. n : SubSeq(turned, 1, n)[i] = turned[1 + i - 1]
      BY <1>2, <1>5, SubSeqProperties
    <2>2. \A i \in 1 .. n : SubSeq(turned, 1, n)[i] = number[i]
      BY <1>2, <1>4, <2>1
    <2> QED
      BY <1>1, <2>1, <2>2, SeqEqual
  <1> DEFINE end == First(turned, LAMBDA i : turned[i] = "F")
  <1>8. end - 1 = n
    BY <1>2, <1>6
  <1>9. ReadAddress(Smsc(number)) = SubSeq(turned, 1, end - 1)
    BY <1>3, Zenon
  <1> HIDE DEF end, turned
  <1> QED
    BY <1>7, <1>8, <1>9

(* The modem has a number that can be dialled, and a message without an     *)
(* address goes to it.                                                      *)
CentreInv == MessagingTypeOK /\ AddressKept

(* So a message without an address has the number that the modem has.       *)
LEMMA AddressKeptStep ==
    ASSUME CentreInv, [MessagingNext]_messageVars
    PROVE  AddressKept'
  <1>1. centre \in Numbers /\ AddressKept
    BY DEF CentreInv, MessagingTypeOK
  <1>2. ReadAddress(Smsc(centre)) = centre
    <2>1. PICK n \in 1 .. MaxDigits : centre \in [1 .. n -> {"1", "2"}]
      BY <1>1 DEF Numbers
    <2>2. n \in Nat \ {0}
      BY MessagingAssumption
    <2> QED
      BY <2>1, <2>2, ReadBack
  <1> USE DEF AddressKept, Give, GiveThis
  <1>3. CASE TakeAnswer
    BY <1>3 DEF TakeAnswer, NotGiven
  <1>4. CASE RequestSendSMS
    <2>1. centre' = centre
      BY <1>4 DEF RequestSendSMS
    <2>2. \/ outcome' = [request |-> "SEND_SMS", errno |-> "GENERIC_FAILURE"]
          \/ outcome' = [request |-> "SEND_SMS", errno |-> "SMS_SEND_FAIL_RETRY"]
          \/ outcome' = [request |-> "SEND_SMS", errno |-> "SUCCESS"]
          \/ outcome' = [request |-> "SEND_SMS", errno |-> "SUCCESS", what |-> centre]
      BY <1>2, <1>4 DEF RequestSendSMS
    <2> QED
      BY <2>1, <2>2
  <1>5. CASE RequestGetSMSCAddress
    BY <1>5 DEF RequestGetSMSCAddress
  <1>6. ASSUME NEW number \in Numbers, RequestSetSMSCAddress(number) PROVE AddressKept'
    BY <1>6 DEF RequestSetSMSCAddress
  <1>7. ASSUME NEW config \in Configs, RequestGSMSetBroadcastSMSConfig(config) PROVE AddressKept'
    BY <1>7 DEF RequestGSMSetBroadcastSMSConfig
  <1>8. CASE RequestGSMGetBroadcastSMSConfig
    BY <1>8 DEF RequestGSMGetBroadcastSMSConfig
  <1>9. CASE UNCHANGED messageVars
    BY <1>1, <1>9 DEF messageVars
  <1>10. CASE OnSIMReady
    BY <1>1, <1>10 DEF OnSIMReady
  <1> QED
    BY <1>3, <1>4, <1>5, <1>6, <1>7, <1>8, <1>9, <1>10 DEF MessagingNext

(* Every step keeps the invariant of the service centre,                    *)
LEMMA CentreKeptStep ==
    ASSUME CentreInv, [MessagingNext]_messageVars
    PROVE  CentreInv'
  BY MessagingTypeStep, AddressKeptStep DEF CentreInv

(* which holds at first.                                                    *)
LEMMA CentreBegins == MessagingInit => CentreInv
  BY MessagingBegins DEF CentreInv, MessagingInit, AddressKept, NotGiven

-----------------------------------------------------------------------------
(* Registration: the fields a handler reads. *)

(* A field is read, and those that follow. *)
Base(name) == IF name \in {"lac", "cid"} THEN 16 ELSE 10
FieldStep(p, read, name) == Field(read, name, NextInt(read.cur, Base(name)))
Rd == INSTANCE FoldFacts WITH Op <- FieldStep

(* The fields, and what a handler knows before the first. *)
Names == {"stat", "lac", "cid", "act", "skip"}
Unread(line) ==
    [ok |-> TRUE, cur |-> line, values |-> [stat |-> 0, lac |-> -1, cid |-> -1, act |-> 0, skip |-> 0]]
Reading(read, names) == Rd!Fold(0, read, names)

(* Fields() goes along the names. *)
LEMMA FieldsIsReading ==
    ASSUME NEW line, NEW names
    PROVE  Fields(line, names) = Reading(Unread(line), names)
  BY DEF Fields, Reading, Unread, Base, Rd!Fold, Rd!FoldLeft, Rd!MapThenFoldSet, Rd!Max, FieldStep,
         FoldLeft, MapThenFoldSet, Max

(* What is read when the cursor is at cur, with the values v.               *)
At(cur, v) == [ok |-> TRUE, cur |-> cur, values |-> v]

(* At a cursor, the number of w is next, and then the cursor c.             *)
NumberAt(cur, w, c) ==
    \A base : Digital(w, base) =>
       NextInt(cur, base) = [ok |-> TRUE, value |-> Value(w, base), cur |-> c]

(* One field is read, and then the others, *)
LEMMA ReadOne ==
    ASSUME NEW cur, NEW v, NEW name \in Names, NEW names \in Seq(Names), NEW w, NEW c,
           Digital(w, Base(name)), NumberAt(cur, w, c)
    PROVE  Reading(At(cur, v), <<name>> \o names) =
              Reading(At(c, [v EXCEPT ![name] = Value(w, Base(name))]), names)
  <1>1. PICK read : read = At(cur, v)
    OBVIOUS
  <1>2. Rd!Fold(0, read, <<name>> \o names) = Rd!Fold(0, FieldStep(0, read, name), names)
    BY Rd!FoldHead
  <1>3. read.cur = cur /\ read.ok = TRUE /\ read.values = v
    BY <1>1 DEF At
  <1>4. PICK t : t = NextInt(cur, Base(name))
    OBVIOUS
  <1>5. t.ok = TRUE /\ t.value = Value(w, Base(name)) /\ t.cur = c
    BY <1>4 DEF NumberAt
  <1>6. FieldStep(0, read, name) = At(c, [v EXCEPT ![name] = Value(w, Base(name))])
    BY <1>3, <1>4, <1>5 DEF FieldStep, Field, At
  <1> QED
    BY <1>1, <1>2, <1>6 DEF Reading

(* until there are none left. *)
LEMMA ReadNone ==
    ASSUME NEW read
    PROVE  Reading(read, <<>>) = read
  BY Rd!FoldEmpty DEF Reading

(* The values v with one more, and with three more. *)
With(v, name, x) == [v EXCEPT ![name] = x]
Placed(v, stat, lac, cid) == With(With(With(v, "stat", stat), "lac", lac), "cid", cid)

(* The fields, and their bases. *)
LEMMA NamesAre ==
    /\ "stat" \in Names /\ "lac" \in Names /\ "cid" \in Names /\ "act" \in Names /\ "skip" \in Names
    /\ Base("stat") = 10 /\ Base("lac") = 16 /\ Base("cid") = 16 /\ Base("act") = 10 /\ Base("skip") = 10
  BY DEF Names, Base

(* ReadOne, in those terms. *)
LEMMA ReadNext ==
    ASSUME NEW name \in Names, NEW w, Digital(w, Base(name)), NEW cur, NEW c, NumberAt(cur, w, c),
           NEW v, NEW names \in Seq(Names)
    PROVE  Reading(At(cur, v), <<name>> \o names) =
              Reading(At(c, With(v, name, Value(w, Base(name)))), names)
  BY ReadOne DEF With

(* Three fields in a row. *)
LEMMA ReadPlace ==
    ASSUME NEW stat, NEW lac, NEW cid, Digital(stat, 10), Digital(lac, 16), Digital(cid, 16),
           NEW c0, NEW c1, NEW c2, NEW c3,
           NumberAt(c0, stat, c1), NumberAt(c1, lac, c2), NumberAt(c2, cid, c3),
           NEW v, NEW rest \in Seq(Names)
    PROVE  Reading(At(c0, v), <<"stat">> \o (<<"lac">> \o (<<"cid">> \o rest))) =
              Reading(At(c3, Placed(v, Value(stat, 10), Value(lac, 16), Value(cid, 16))), rest)
  <1>1. PICK s1 \in Seq(Names) : s1 = <<"cid">> \o rest
    <2>1. <<"cid">> \o rest \in Seq(Names)
      BY NamesAre, Prefixed
    <2> QED
      BY <2>1
  <1>2. PICK s2 \in Seq(Names) : s2 = <<"lac">> \o s1
    <2>1. <<"lac">> \o s1 \in Seq(Names)
      BY NamesAre, Prefixed
    <2> QED
      BY <2>1
  <1>3. PICK v1 : v1 = With(v, "stat", Value(stat, 10))
    OBVIOUS
  <1>4. PICK v2 : v2 = With(v1, "lac", Value(lac, 16))
    OBVIOUS
  <1>5. PICK v3 : v3 = With(v2, "cid", Value(cid, 16))
    OBVIOUS
  <1>6. Reading(At(c0, v), <<"stat">> \o s2) = Reading(At(c1, v1), s2)
    <2>1. Digital(stat, Base("stat"))
      BY NamesAre
    <2> QED
      BY <1>3, <2>1, NamesAre, ReadNext
  <1>7. Reading(At(c1, v1), <<"lac">> \o s1) = Reading(At(c2, v2), s1)
    <2>1. Digital(lac, Base("lac"))
      BY NamesAre
    <2> QED
      BY <1>4, <2>1, NamesAre, ReadNext
  <1>8. Reading(At(c2, v2), <<"cid">> \o rest) = Reading(At(c3, v3), rest)
    <2>1. Digital(cid, Base("cid"))
      BY NamesAre
    <2> QED
      BY <1>5, <2>1, NamesAre, ReadNext
  <1>9. v3 = Placed(v, Value(stat, 10), Value(lac, 16), Value(cid, 16))
    BY <1>3, <1>4, <1>5 DEF Placed
  <1> QED
    BY <1>1, <1>2, <1>6, <1>7, <1>8, <1>9

(* What has been read. *)
Sees(r, stat, lac, cid, act) ==
    /\ r.ok = TRUE /\ r.values.stat = stat /\ r.values.lac = lac
    /\ r.values.cid = cid /\ r.values.act = act

(* What a handler knows before the first field. *)
None == [stat |-> 0, lac |-> -1, cid |-> -1, act |-> 0, skip |-> 0]

(* What has been read is there, *)
LEMMA SeesValues ==
    ASSUME NEW v, DOMAIN v = Names, NEW cur, NEW stat, NEW lac, NEW cid, NEW x
    PROVE  /\ DOMAIN Placed(v, stat, lac, cid) = Names
           /\ Sees(At(cur, Placed(v, stat, lac, cid)), stat, lac, cid, v.act)
           /\ Sees(At(cur, With(Placed(v, stat, lac, cid), "act", x)), stat, lac, cid, x)
           /\ Sees(At(cur, With(Placed(v, stat, lac, cid), "skip", x)), stat, lac, cid, v.act)
           /\ Sees(At(cur, With(v, "stat", stat)), stat, v.lac, v.cid, v.act)
  <1>1. PICK u : u = Placed(v, stat, lac, cid)
    OBVIOUS
  <1>2. DOMAIN u = Names /\ u.stat = stat /\ u.lac = lac /\ u.cid = cid /\ u.act = v.act
    BY <1>1 DEF Placed, Names, With
  <1>3. Sees(At(cur, u), stat, lac, cid, v.act)
    BY <1>2 DEF Sees, At
  <1>4. Sees(At(cur, With(u, "act", x)), stat, lac, cid, x)
    BY <1>2 DEF Sees, At, Names, With
  <1>5. Sees(At(cur, With(u, "skip", x)), stat, lac, cid, v.act)
    BY <1>2 DEF Sees, At, Names, With
  <1>6. Sees(At(cur, With(v, "stat", stat)), stat, v.lac, v.cid, v.act)
    BY DEF Sees, At, Names, With
  <1> QED
    BY <1>1, <1>2, <1>3, <1>4, <1>5, <1>6

(* and what has not been read is as it was, whether n was read or not. *)
LEMMA NoneFacts ==
    /\ DOMAIN None = Names /\ None.lac = -1 /\ None.cid = -1 /\ None.act = 0
    /\ \A x : LET v == With(None, "skip", x) IN
         DOMAIN v = Names /\ v.lac = -1 /\ v.cid = -1 /\ v.act = 0
    /\ \A cur : Unread(cur) = At(cur, None)
  BY DEF None, Names, Unread, At, With

-----------------------------------------------------------------------------
(* What is next in a line. *)

(* A field with a comma behind it, *)
LEMMA ItemNext ==
    ASSUME NEW x, NEW w, Item(x, w), NEW r \in Seq(Chars)
    PROVE  NumberAt(Then(x, r), w, r)
  BY ItemThen DEF NumberAt

(* or at the end, is the next number. *)
LEMMA ItemEnd ==
    ASSUME NEW x, NEW w, Item(x, w)
    PROVE  \E c : NumberAt(x, w, c)
  <1>1. CASE x = w
    BY <1>1, NextIntLast DEF NumberAt
  <1>2. CASE x = Quoted(w)
    <2>1. w \in Seq(Letters)
      BY DEF Item
    <2>2. PICK e : e = <<>>
      OBVIOUS
    <2>3. e \in Seq(Chars)
      BY <2>2, EmptySeq
    <2>4. NextTok(Quoted(w) \o e) = Token(w, SkipNextComma(e))
      BY <2>1, <2>3, TokQuoted
    <2>5. Quoted(w) \o e = Quoted(w)
      BY <2>1, <2>2, QuotedIs
    <2>6. NextTok(x) = Token(w, SkipNextComma(e))
      BY <1>2, <2>4, <2>5
    <2>7. NumberAt(x, w, SkipNextComma(e))
      BY <2>6, IntIs DEF NumberAt, NextInt
    <2> QED
      BY <2>7
  <1> QED
    BY <1>1, <1>2 DEF Item

(* A line that may stand behind a blank. *)
Starts(s) == s \in Seq(Chars) /\ s # <<>> /\ s[1] # Blank

(* It is so too behind a blank. *)
LEMMA BlankNext ==
    ASSUME NEW s, Starts(s), NEW w, NEW c, NumberAt(s, w, c)
    PROVE  NumberAt(<<Blank>> \o s, w, c) /\ Commas(<<Blank>> \o s) = Commas(s)
  BY AfterBlank DEF Starts, NumberAt

(* A field with others behind it begins as it does itself. *)
LEMMA ThenStarts ==
    ASSUME NEW x, NEW w, Item(x, w), NEW r \in Seq(Chars)
    PROVE  /\ Starts(x) /\ Starts(Then(x, r)) /\ Then(x, r) \in Seq(Chars)
           /\ Commas(Then(x, r)) = 1 + Commas(r) /\ Then(x, r) # <<>> /\ Then(x, r)[1] = x[1]
  <1>1. x \in Seq(Chars) /\ x # <<>> /\ x[1] # Blank /\ Commas(x) = 0
    BY ItemFacts
  <1>2. /\ Then(x, r) \in Seq(Chars) /\ Then(x, r) # <<>>
        /\ Then(x, r)[1] = IF x = <<>> THEN "," ELSE x[1]
    BY <1>1, ThenFacts
  <1>3. Commas(Then(x, r)) = 0 + 1 + Commas(r) /\ Commas(r) \in Nat
    BY <1>1, CommasThen, CommasFinite
  <1> QED
    BY <1>1, <1>2, <1>3 DEF Starts

(* The three numbers of a place, from a cursor on. *)
PlaceAt(c, stat, lac, cid, d) ==
    \E c1, c2 : NumberAt(c, stat, c1) /\ NumberAt(c1, lac, c2) /\ NumberAt(c2, cid, d)

(* A line that ends with its place, *)
LEMMA PlaceEnds ==
    ASSUME NEW stat, NEW lac, NEW cid, NEW x, NEW y, Item(stat, stat), Item(x, lac), Item(y, cid),
           NEW s, s = Then(stat, Then(x, y))
    PROVE  /\ Starts(s) /\ s \in Seq(Chars) /\ s[1] # Quote /\ Commas(s) = 2
           /\ \E d : PlaceAt(s, stat, lac, cid, d)
  <1>1. y \in Seq(Chars) /\ Commas(y) = 0
    BY ItemFacts
  <1>2. PICK t : t = Then(x, y)
    OBVIOUS
  <1>3. t \in Seq(Chars) /\ Commas(t) = 1 + 0
    BY <1>1, <1>2, ThenStarts
  <1>4. Starts(s) /\ s \in Seq(Chars) /\ Commas(s) = 1 + (1 + 0) /\ s[1] = stat[1]
    BY <1>2, <1>3, ThenStarts
  <1>5. stat[1] # Quote
    BY ItemFacts
  <1>6. NumberAt(s, stat, t) /\ NumberAt(t, lac, y)
    BY <1>1, <1>2, <1>3, ItemNext
  <1>7. \E d : NumberAt(y, cid, d)
    BY ItemEnd
  <1>8. 1 + (1 + 0) = 2
    OBVIOUS
  <1> QED
    BY <1>4, <1>5, <1>6, <1>7, <1>8 DEF PlaceAt

(* A line from its place on. *)
Full(stat, x, y, r) == Then(stat, Then(x, Then(y, r)))

(* And what can be said of such a line: *)
FullIs(s, stat, x, y, r, lac, cid) ==
    /\ Starts(s) /\ s \in Seq(Chars) /\ s[1] # Quote /\ Commas(s) = 3 + Commas(r)
    /\ PlaceAt(s, stat, lac, cid, r)
    /\ \E t : NumberAt(s, stat, t) /\ t # <<>> /\ t[1] = x[1]

(* a line that goes on behind its place. *)
LEMMA PlaceThen ==
    ASSUME NEW stat, NEW lac, NEW cid, NEW x, NEW y, Item(stat, stat), Item(x, lac), Item(y, cid),
           NEW r \in Seq(Chars), NEW s, s = Full(stat, x, y, r)
    PROVE  FullIs(s, stat, x, y, r, lac, cid)
  <1>1. PICK u : u = Then(y, r)
    OBVIOUS
  <1>2. PICK t : t = Then(x, u)
    OBVIOUS
  <1>3. u \in Seq(Chars) /\ Commas(u) = 1 + Commas(r)
    BY <1>1, ThenStarts
  <1>4. t \in Seq(Chars) /\ Commas(t) = 1 + Commas(u) /\ t # <<>> /\ t[1] = x[1]
    BY <1>2, <1>3, ThenStarts
  <1>5. Starts(s) /\ s \in Seq(Chars) /\ Commas(s) = 1 + Commas(t) /\ s[1] = stat[1]
    BY <1>1, <1>2, <1>4, ThenStarts DEF Full
  <1>6. stat[1] # Quote
    BY ItemFacts
  <1>7. NumberAt(s, stat, t) /\ NumberAt(t, lac, u) /\ NumberAt(u, cid, r)
    BY <1>1, <1>2, <1>3, <1>4, ItemNext DEF Full
  <1>8. Commas(s) = 3 + Commas(r)
    <2>1. PICK n \in Nat : n = Commas(r)
      BY CommasFinite
    <2>2. Commas(s) = 1 + (1 + (1 + n))
      BY <1>3, <1>4, <1>5, <2>1
    <2> QED
      BY <2>1, <2>2
  <1> QED
    BY <1>4, <1>5, <1>6, <1>7, <1>8 DEF PlaceAt, FullIs

-----------------------------------------------------------------------------
(* What the modem knows of the network. *)

(* The words of the modem for its network, as fields and as numbers. *)
Words(stat, lac, cid, act) ==
    /\ Item(stat, stat) /\ Item(act, act)
    /\ Item(lac, lac) /\ Item(cid, cid) /\ Item(Quoted(lac), lac) /\ Item(Quoted(cid), cid)
    /\ Digital(stat, 10) /\ Digital(stat, 16) /\ Value(stat, 10) = Value(stat, 16)
    /\ Digital(act, 10) /\ Digital(act, 16) /\ Value(act, 10) = Value(act, 16)
    /\ Digital(lac, 16) /\ Digital(cid, 16)
    /\ Value(lac, 16) \in Nat /\ Value(cid, 16) \in Nat
    /\ Value(lac, 16) > 0 => Value(cid, 16) > 0
    /\ Value(stat, 10) \in Nat

(* A digit is such a word, *)
LEMMA DigitItem ==
    ASSUME NEW c \in {"0", "1", "2", "5"}, NEW w, w = <<c>>
    PROVE  /\ Item(w, w) /\ Item(Quoted(w), w) /\ Digital(w, 10) /\ Digital(w, 16)
           /\ Value(w, 10) = Value(w, 16) /\ Value(w, 10) \in Nat /\ Value(w, 16) \in Nat
  <1>1. \A base \in {10, 16} : Digital(w, base) /\ Digits(base)[c] \in Nat
    BY OneDigit
  <1>2. c \in Letters /\ w \in Seq(Letters) /\ w # <<>>
    BY <1>1 DEF Letters, Digital
  <1>3. Item(w, w) /\ Item(Quoted(w), w)
    BY <1>2 DEF Item
  <1>4. \A base \in {10, 16} : Value(w, base) = Digits(base)[c]
    BY <1>1, <1>2, ValueOne
  <1>5. Digits(10)[c] = Digits(16)[c]
    <2>1. 10 \in {10, 16} /\ 16 \in {10, 16}
      OBVIOUS
    <2> QED
      BY <2>1, DigitFacts
  <1> QED
    BY <1>1, <1>3, <1>4, <1>5

(* and the two hexadecimal digits of a place. *)
LEMMA PlaceWord ==
    ASSUME NEW b \in {"1", "2"}, NEW c \in {"B", "F"}, NEW w, w = <<b, c>>
    PROVE  /\ Item(w, w) /\ Item(Quoted(w), w) /\ Digital(w, 16)
           /\ Value(w, 16) \in Nat /\ Value(w, 16) > 0
  <1>1. b \in Letters /\ c \in Letters /\ b \in DOMAIN Digits(16) /\ c \in DOMAIN Digits(16)
    BY DigitFacts DEF Letters
  <1>2. w \in Seq(Letters) /\ w # <<>> /\ Len(w) = 2 /\ w[1] = b /\ w[2] = c
    <2>1. PICK S : S = Letters
      OBVIOUS
    <2>2. b \in S /\ c \in S
      BY <1>1, <2>1
    <2>3. w \in Seq(S) /\ w # <<>> /\ Len(w) = 2 /\ w[1] = b /\ w[2] = c
      BY <2>2
    <2> QED
      BY <2>1, <2>3
  <1>3. Item(w, w) /\ Item(Quoted(w), w)
    BY <1>2 DEF Item
  <1>4. Digital(w, 16)
    <2>1. \A i \in 1 .. 2 : i = 1 \/ i = 2
      OBVIOUS
    <2> QED
      BY <1>1, <1>2, <2>1 DEF Digital
  <1>5. PICK m \in Nat : m = Digits(16)[b] /\ m > 0
    <2>1. Digits(16)["1"] = 1 /\ Digits(16)["2"] = 2
      BY DigitFacts
    <2>2. Digits(16)[b] \in {1, 2}
      BY <2>1
    <2> QED
      BY <2>2
  <1>6. PICK n \in Nat : n = Digits(16)[c]
    <2>1. Digits(16)["B"] = 11 /\ Digits(16)["F"] = 15
      BY DigitFacts
    <2>2. Digits(16)[c] \in {11, 15}
      BY <2>1
    <2> QED
      BY <2>2
  <1>7. Value(<<b>>, 16) = m
    BY <1>1, <1>5, ValueOne
  <1>8. Value(w, 16) = m * 16 + n
    BY <1>1, <1>6, <1>7, ValueTwo DEF Shift
  <1>9. m * 16 + n \in Nat /\ m * 16 + n > 0
    BY <1>5, <1>6
  <1> QED
    BY <1>3, <1>4, <1>8, <1>9

(* So are those of every network. *)
LEMMA NetworkWords ==
    ASSUME network \in Networks
    PROVE  Words(network.stat, network.place.lac, network.place.cid, network.act)
  <1>1. /\ network.stat \in {<<"1">>, <<"2">>, <<"5">>} /\ network.act \in {<<"0">>, <<"2">>}
        /\ \/ network.place.lac = <<"0">> /\ network.place.cid = <<"0">>
           \/ network.place.lac = <<"1", "F">> /\ network.place.cid = <<"2", "B">>
    BY DEF Networks
  <1>2. PICK stat : stat = network.stat
    OBVIOUS
  <1>3. PICK act : act = network.act
    OBVIOUS
  <1>4. PICK lac : lac = network.place.lac
    OBVIOUS
  <1>5. PICK cid : cid = network.place.cid
    OBVIOUS
  <1>6. \E c \in {"0", "1", "2", "5"} : stat = <<c>>
    BY <1>1, <1>2
  <1>7. \E c \in {"0", "1", "2", "5"} : act = <<c>>
    BY <1>1, <1>3
  <1>8. /\ Item(stat, stat) /\ Digital(stat, 10) /\ Digital(stat, 16)
        /\ Value(stat, 10) = Value(stat, 16) /\ Value(stat, 10) \in Nat
    BY <1>6, DigitItem
  <1>9. Item(act, act) /\ Digital(act, 10) /\ Digital(act, 16) /\ Value(act, 10) = Value(act, 16)
    BY <1>7, DigitItem
  <1>10. /\ Item(lac, lac) /\ Item(cid, cid) /\ Item(Quoted(lac), lac) /\ Item(Quoted(cid), cid)
         /\ Digital(lac, 16) /\ Digital(cid, 16)
         /\ Value(lac, 16) \in Nat /\ Value(cid, 16) \in Nat
         /\ Value(lac, 16) > 0 => Value(cid, 16) > 0
    <2>1. CASE lac = <<"0">> /\ cid = <<"0">>
      <3>1. "0" \in {"0", "1", "2", "5"}
        OBVIOUS
      <3> QED
        BY <2>1, <3>1, DigitItem
    <2>2. CASE lac = <<"1", "F">> /\ cid = <<"2", "B">>
      <3>1. "1" \in {"1", "2"} /\ "F" \in {"B", "F"} /\ "2" \in {"1", "2"} /\ "B" \in {"B", "F"}
        OBVIOUS
      <3> QED
        BY <2>2, <3>1, PlaceWord
    <2> QED
      BY <1>1, <1>4, <1>5, <2>1, <2>2
  <1> QED
    BY <1>2, <1>3, <1>4, <1>5, <1>8, <1>9, <1>10 DEF Words

(* Hex() is the value. *)
LEMMA HexIs ==
    ASSUME NEW w, Digital(w, 16)
    PROVE  Hex(w) = Value(w, 16)
  BY NextIntLast DEF Hex

-----------------------------------------------------------------------------
(* The lines of the modem. *)

(* How a list of fields is put together. *)
FieldList(n, stat, x, y, act) ==
    /\ <<stat>> \o <<>> = <<stat>>
    /\ <<stat>> \o <<x, y>> = <<stat, x, y>>
    /\ <<n, stat>> \o <<>> = <<n, stat>>
    /\ <<n, stat>> \o <<x, y>> = <<n, stat, x, y>>
    /\ <<n, stat>> \o <<x, y>> \o <<act>> = <<n, stat, x, y, act>>

(* It is so for any fields. *)
LEMMA FieldLists ==
    ASSUME NEW S, NEW n \in S, NEW stat \in S, NEW x \in S, NEW y \in S, NEW act \in S
    PROVE  FieldList(n, stat, x, y, act)
  <1>1. /\ Tupled(S, stat, x, y, act, act) /\ Tupled(S, n, stat, x, y, act)
        /\ Tupled(S, x, y, act, act, act) /\ Tupled(S, y, act, act, act, act)
        /\ Tupled(S, act, act, act, act, act)
    BY Tuples
  <1>2. /\ <<stat>> \in Seq(S) /\ <<n>> \in Seq(S) /\ <<x, y>> \in Seq(S) /\ <<act>> \in Seq(S)
        /\ <<n, stat>> \in Seq(S) /\ <<x>> \in Seq(S) /\ <<y>> \in Seq(S)
    BY <1>1 DEF Tupled
  <1>3. ASSUME NEW s \in Seq(S)
        PROVE  s \o <<>> = s
    BY ConcatEmptySeq
  <1>4. ASSUME NEW s \in Seq(S), NEW t \in Seq(S), NEW u \in Seq(S)
        PROVE  s \o t \o u = s \o (t \o u)
    BY ConcatAssociative
  <1>5. <<stat>> \o <<>> = <<stat>> /\ <<n, stat>> \o <<>> = <<n, stat>>
    BY <1>2, <1>3
  <1>6. <<n>> \o <<stat>> = <<n, stat>> /\ <<stat>> \o <<x, y>> = <<stat, x, y>>
        /\ <<n>> \o <<stat, x, y>> = <<n, stat, x, y>>
    BY <1>1 DEF Tupled
  <1>7. <<n>> \o <<stat>> \o <<x, y>> = <<n>> \o (<<stat>> \o <<x, y>>)
    BY <1>2, <1>4
  <1>8. <<n, stat>> \o <<x, y>> \o <<act>> = <<n, stat, x, y, act>>
    <2>1. /\ <<x>> \o <<y>> = <<x, y>> /\ <<y>> \o <<act>> = <<y, act>>
          /\ <<x>> \o <<y, act>> = <<x, y, act>> /\ <<stat>> \o <<x, y, act>> = <<stat, x, y, act>>
          /\ <<n>> \o <<stat, x, y, act>> = <<n, stat, x, y, act>> /\ <<x, y, act>> \in Seq(S)
      BY <1>1 DEF Tupled
    <2>2. <<x>> \o <<y>> \o <<act>> = <<x>> \o (<<y>> \o <<act>>)
      BY <1>2, <1>4
    <2>3. <<n, stat>> \o <<x, y>> \o <<act>> = <<n, stat>> \o (<<x, y>> \o <<act>>)
      BY <1>2, <1>4
    <2>4. <<n>> \o <<stat>> \o <<x, y, act>> = <<n>> \o (<<stat>> \o <<x, y, act>>)
      BY <1>2, <1>4, <2>1
    <2> QED
      BY <1>6, <2>1, <2>2, <2>3, <2>4
  <1> QED
    BY <1>5, <1>6, <1>7, <1>8 DEF FieldList

(* The texts a line may be behind its blank, when it has not n.             *)
Bare(t, stat) == t = stat
WithPlace(t, stat, lac, cid) ==
    \E x, y : Item(x, lac) /\ Item(y, cid) /\ t = Then(stat, Then(x, y))
WithAct(t, stat, lac, cid, act) ==
    \E x, y : Item(x, lac) /\ Item(y, cid) /\ t = Full(stat, x, y, act)

(* The n of a solicited line. *)
Two == <<"2">>

(* It is a number. *)
LEMMA TwoItem == Item(Two, Two) /\ Digital(Two, 10)
  <1>1. "2" \in {"0", "1", "2", "5"}
    OBVIOUS
  <1> QED
    BY <1>1, DigitItem DEF Two

(* Every +CREG: line is one of five texts behind a blank. *)
LEMMA LineTexts ==
    ASSUME NEW stat, NEW lac, NEW cid, NEW act, Words(stat, lac, cid, act),
           stat = network.stat, lac = network.place.lac, cid = network.place.cid, act = network.act,
           NEW line \in CregLines
    PROVE  \E t : /\ line = <<Blank>> \o t
                  /\ \/ Bare(t, stat) \/ WithPlace(t, stat, lac, cid)
                     \/ \E s : /\ t = Then(Two, s)
                               /\ \/ Bare(s, stat) \/ WithPlace(s, stat, lac, cid)
                                  \/ WithAct(s, stat, lac, cid, act)
  <1>1. PICK S : S = Seq(Chars)
    OBVIOUS
  <1>2. /\ stat \in S /\ lac \in S /\ cid \in S /\ act \in S /\ Two \in S
        /\ Quoted(lac) \in S /\ Quoted(cid) \in S
    BY <1>1, ItemFacts, TwoItem DEF Words
  <1>3. PICK two : two = Two
    OBVIOUS
  <1>4. PICK qlac : qlac = Quoted(lac)
    OBVIOUS
  <1>5. PICK qcid : qcid = Quoted(cid)
    OBVIOUS
  <1>6. two \in S /\ qlac \in S /\ qcid \in S
    BY <1>2, <1>3, <1>4, <1>5
  <1>7. Item(lac, lac) /\ Item(cid, cid) /\ Item(qlac, lac) /\ Item(qcid, cid)
    BY <1>4, <1>5 DEF Words
  <1>8. Locations = {<<>>, <<lac, cid>>, <<qlac, qcid>>}
    BY <1>4, <1>5 DEF Locations
  <1>9. ASSUME NEW p \in Locations
        PROVE  p = <<>> \/ \E x, y \in S : Item(x, lac) /\ Item(y, cid) /\ p = <<x, y>>
    BY <1>2, <1>6, <1>7, <1>8
  <1>10. \/ \E p \in Locations : line = Line(<<stat>> \o p)
         \/ \E p \in Locations : line = Line(<<two, stat>> \o p)
         \/ \E p \in Locations \ {<<>>} : line = Line(<<two, stat>> \o p \o <<act>>)
    BY <1>3 DEF CregLines, Two
  <1>11. /\ <<stat>> \o <<>> = <<stat>> /\ <<two, stat>> \o <<>> = <<two, stat>>
         /\ \A x, y \in S : /\ <<stat>> \o <<x, y>> = <<stat, x, y>>
                            /\ <<two, stat>> \o <<x, y>> = <<two, stat, x, y>>
                            /\ <<two, stat>> \o <<x, y>> \o <<act>> = <<two, stat, x, y, act>>
    <2>1. ASSUME NEW x \in S, NEW y \in S
          PROVE  FieldList(two, stat, x, y, act)
      BY <1>2, <1>6, FieldLists
    <2>2. <<stat>> \o <<>> = <<stat>> /\ <<two, stat>> \o <<>> = <<two, stat>>
      BY <1>2, <2>1 DEF FieldList
    <2> QED
      BY <2>1, <2>2 DEF FieldList
  <1>12. /\ Join(<<stat>>) = stat /\ Join(<<two, stat>>) = Then(two, stat)
         /\ \A x, y \in S : /\ Join(<<stat, x, y>>) = Then(stat, Then(x, y))
                            /\ Join(<<two, stat, x, y>>) = Then(two, Then(stat, Then(x, y)))
                            /\ Join(<<two, stat, x, y, act>>) =
                                  Then(two, Full(stat, x, y, act))
    <2>1. ASSUME NEW x \in S, NEW y \in S
          PROVE  JoinsAre(stat, x, y, act, act) /\ JoinsAre(two, stat, x, y, act)
      BY <1>1, <1>2, <1>6, Joins
    <2> QED
      <3>1. Join(<<stat>>) = stat /\ Join(<<two, stat>>) = Then(two, stat)
        BY <1>2, <2>1 DEF JoinsAre
      <3> QED
        BY <2>1, <3>1 DEF JoinsAre, Full
  <1>13. CASE \E p \in Locations : line = Line(<<stat>> \o p)
    <2>1. PICK p \in Locations : line = Line(<<stat>> \o p)
      BY <1>13
    <2>2. CASE p = <<>>
      <3>1. line = <<Blank>> \o stat
        BY <1>11, <1>12, <2>1, <2>2 DEF Line
      <3> QED
        BY <3>1 DEF Bare
    <2>3. CASE \E x, y \in S : Item(x, lac) /\ Item(y, cid) /\ p = <<x, y>>
      <3>1. PICK x \in S, y \in S : Item(x, lac) /\ Item(y, cid) /\ p = <<x, y>>
        BY <2>3
      <3>2. line = <<Blank>> \o Then(stat, Then(x, y))
        BY <1>11, <1>12, <2>1, <3>1 DEF Line
      <3>3. WithPlace(Then(stat, Then(x, y)), stat, lac, cid)
        BY <3>1 DEF WithPlace
      <3> QED
        BY <3>2, <3>3
    <2> QED
      BY <1>9, <2>2, <2>3
  <1>14. CASE \E p \in Locations : line = Line(<<two, stat>> \o p)
    <2>1. PICK p \in Locations : line = Line(<<two, stat>> \o p)
      BY <1>14
    <2>2. CASE p = <<>>
      <3>1. line = <<Blank>> \o Then(Two, stat)
        BY <1>3, <1>11, <1>12, <2>1, <2>2 DEF Line
      <3> QED
        BY <3>1 DEF Bare
    <2>3. CASE \E x, y \in S : Item(x, lac) /\ Item(y, cid) /\ p = <<x, y>>
      <3>1. PICK x \in S, y \in S : Item(x, lac) /\ Item(y, cid) /\ p = <<x, y>>
        BY <2>3
      <3>2. line = <<Blank>> \o Then(Two, Then(stat, Then(x, y)))
        BY <1>3, <1>11, <1>12, <2>1, <3>1 DEF Line
      <3>3. WithPlace(Then(stat, Then(x, y)), stat, lac, cid)
        BY <3>1 DEF WithPlace
      <3> QED
        BY <3>2, <3>3
    <2> QED
      BY <1>9, <2>2, <2>3
  <1>15. CASE \E p \in Locations \ {<<>>} : line = Line(<<two, stat>> \o p \o <<act>>)
    <2>1. PICK p \in Locations : p # <<>> /\ line = Line(<<two, stat>> \o p \o <<act>>)
      BY <1>15
    <2>2. PICK x \in S, y \in S : Item(x, lac) /\ Item(y, cid) /\ p = <<x, y>>
      BY <1>9, <2>1
    <2>3. line = <<Blank>> \o Then(Two, Full(stat, x, y, act))
      BY <1>3, <1>11, <1>12, <2>1, <2>2, ZenonT(30) DEF Line
    <2>4. WithAct(Full(stat, x, y, act), stat, lac, cid, act)
      BY <2>2 DEF WithAct
    <2> QED
      BY <2>3, <2>4
  <1> QED
    BY <1>10, <1>13, <1>14, <1>15

(* The orders in which the handlers read. *)
Stat(rest)  == <<"stat">> \o rest
Skip(rest)  == <<"skip">> \o rest
Place(rest) == <<"stat">> \o (<<"lac">> \o (<<"cid">> \o rest))

(* They are those that VoiceFields() and DataFields() choose from. *)
LEMMA NameLists ==
    /\ <<"stat">> = Stat(<<>>) /\ <<"skip", "stat">> = Skip(Stat(<<>>))
    /\ <<"stat", "lac", "cid">> = Place(<<>>)
    /\ <<"skip", "stat", "lac", "cid">> = Skip(Place(<<>>))
    /\ <<"stat", "lac", "cid", "act">> = Place(<<"act">>)
    /\ <<"skip", "stat", "lac", "cid", "act">> = Skip(Place(<<"act">>))
    /\ <<"skip", "stat", "lac", "cid">> \o <<"skip">> = Skip(Place(<<"skip">>))
    /\ <<"stat">> \o <<>> = Stat(<<>>) /\ <<"skip", "stat">> \o <<>> = Skip(Stat(<<>>))
    /\ <<"stat", "lac", "cid">> \o <<>> = Place(<<>>)
    /\ <<"skip", "stat", "lac", "cid">> \o <<>> = Skip(Place(<<>>))
  <1>1. PICK st \in Names : st = "stat"
    BY NamesAre
  <1>2. PICK la \in Names : la = "lac"
    BY NamesAre
  <1>3. PICK ci \in Names : ci = "cid"
    BY NamesAre
  <1>4. PICK ac \in Names : ac = "act"
    BY NamesAre
  <1>5. PICK sk \in Names : sk = "skip"
    BY NamesAre
  <1>6. /\ Tupled(Names, sk, st, la, ci, ac) /\ Tupled(Names, st, la, ci, ac, ac)
        /\ Tupled(Names, la, ci, ac, ac, ac) /\ Tupled(Names, ci, ac, ac, ac, ac)
        /\ Tupled(Names, sk, st, la, ci, sk) /\ Tupled(Names, st, la, ci, sk, sk)
        /\ Tupled(Names, la, ci, sk, sk, sk) /\ Tupled(Names, ci, sk, sk, sk, sk)
    BY Tuples
  <1>7. /\ <<st>> \o <<>> = <<st>> /\ <<ci>> \o <<>> = <<ci>>
        /\ <<sk>> \o <<st>> = <<sk, st>> /\ <<la>> \o <<ci>> = <<la, ci>> /\ <<st>> \o <<la, ci>> = <<st, la, ci>>
        /\ <<sk>> \o <<st, la, ci>> = <<sk, st, la, ci>>
        /\ <<ci>> \o <<ac>> = <<ci, ac>> /\ <<la>> \o <<ci, ac>> = <<la, ci, ac>>
        /\ <<st>> \o <<la, ci, ac>> = <<st, la, ci, ac>>
        /\ <<sk>> \o <<st, la, ci, ac>> = <<sk, st, la, ci, ac>>
        /\ <<ci>> \o <<sk>> = <<ci, sk>> /\ <<la>> \o <<ci, sk>> = <<la, ci, sk>>
        /\ <<st>> \o <<la, ci, sk>> = <<st, la, ci, sk>>
        /\ <<sk>> \o <<st, la, ci, sk>> = <<sk, st, la, ci, sk>>
    BY <1>6 DEF Tupled
  <1>8. /\ <<sk, st>> \in Seq(Names) /\ <<st, la, ci>> \in Seq(Names)
        /\ <<sk, st, la, ci>> \in Seq(Names)
    BY <1>6 DEF Tupled
  <1>9. \A s \in Seq(Names) : s \o <<>> = s
    BY ConcatEmptySeq
  <1>10. /\ <<sk, st>> \o <<>> = <<sk, st>> /\ <<st, la, ci>> \o <<>> = <<st, la, ci>>
         /\ <<sk, st, la, ci>> \o <<>> = <<sk, st, la, ci>>
    BY <1>8, <1>9
  <1>11. <<sk, st, la, ci>> \o <<sk>> = <<sk, st, la, ci, sk>>
    <2>1. /\ <<sk, st>> \o <<la, ci>> \o <<sk>> = <<sk, st, la, ci, sk>>
          /\ <<sk, st>> \o <<la, ci>> = <<sk, st, la, ci>>
      <3>1. FieldList(sk, st, la, ci, sk)
        BY FieldLists
      <3> QED
        BY <3>1 DEF FieldList
    <2> QED
      BY <2>1
  <1>12. /\ <<st>> = Stat(<<>>) /\ <<sk, st>> = Skip(Stat(<<>>))
         /\ <<st, la, ci>> = Place(<<>>) /\ <<sk, st, la, ci>> = Skip(Place(<<>>))
         /\ <<st, la, ci, ac>> = Place(<<ac>>) /\ <<sk, st, la, ci, ac>> = Skip(Place(<<ac>>))
         /\ <<sk, st, la, ci, sk>> = Skip(Place(<<sk>>))
    BY <1>1, <1>2, <1>3, <1>5, <1>7 DEF Stat, Skip, Place
  <1> QED
    BY <1>1, <1>2, <1>3, <1>4, <1>5, <1>7, <1>10, <1>11, <1>12

(* The lines of the modem, by their number of commas; behind c, the line is *)
(* like one without n.                                                      *)
Form(line, stat, lac, cid, act) ==
    \/ Commas(line) = 0 /\ \E d : NumberAt(line, stat, d)
    \/ Commas(line) = 1 /\ \E c, d : NumberAt(line, Two, c) /\ NumberAt(c, stat, d)
    \/ Commas(line) = 2 /\ \E d : PlaceAt(line, stat, lac, cid, d)
    \/ Commas(line) = 3 /\ \E c, d : /\ NumberAt(line, Two, c) /\ c # <<>> /\ c[1] # Quote
                                     /\ PlaceAt(c, stat, lac, cid, d)
    \/ Commas(line) = 4 /\ \E c, d, e : /\ NumberAt(line, Two, c) /\ PlaceAt(c, stat, lac, cid, d)
                                        /\ NumberAt(d, act, e)

(* The form that only +CGREG: has. *)
QuotedForm(line, stat, lac, cid, act) ==
    /\ Commas(line) = 3
    /\ \E d, e : PlaceAt(line, stat, lac, cid, d) /\ NumberAt(d, act, e)
    /\ \E t : NumberAt(line, stat, t) /\ t # <<>> /\ t[1] = Quote

(* A place behind a blank. *)
LEMMA BlankPlace ==
    ASSUME NEW s, Starts(s), NEW stat, NEW lac, NEW cid, NEW d, PlaceAt(s, stat, lac, cid, d)
    PROVE  PlaceAt(<<Blank>> \o s, stat, lac, cid, d)
  BY BlankNext DEF PlaceAt

(* Every +CREG: line is of one of the five forms, *)
LEMMA LineForms ==
    ASSUME NEW stat, NEW lac, NEW cid, NEW act, Words(stat, lac, cid, act),
           stat = network.stat, lac = network.place.lac, cid = network.place.cid, act = network.act,
           NEW line \in CregLines
    PROVE  Form(line, stat, lac, cid, act)
  <1>1. PICK t : /\ line = <<Blank>> \o t
                 /\ \/ Bare(t, stat) \/ WithPlace(t, stat, lac, cid)
                    \/ \E s : /\ t = Then(Two, s)
                              /\ \/ Bare(s, stat) \/ WithPlace(s, stat, lac, cid)
                                 \/ WithAct(s, stat, lac, cid, act)
    BY LineTexts
  <1>2. Item(stat, stat) /\ Item(act, act)
    BY DEF Words
  <1>3. ASSUME NEW s, Bare(s, stat)
        PROVE  Starts(s) /\ s \in Seq(Chars) /\ Commas(s) = 0 /\ \E d : NumberAt(s, stat, d)
    <2>1. s = stat
      BY <1>3 DEF Bare
    <2>2. stat \in Seq(Chars) /\ stat # <<>> /\ stat[1] # Blank /\ Commas(stat) = 0
      BY <1>2, ItemFacts
    <2> QED
      BY <1>2, <2>1, <2>2, ItemEnd DEF Starts
  <1>4. ASSUME NEW s, WithPlace(s, stat, lac, cid)
        PROVE  /\ Starts(s) /\ s \in Seq(Chars) /\ s[1] # Quote /\ Commas(s) = 2
               /\ \E d : PlaceAt(s, stat, lac, cid, d)
    BY <1>2, <1>4, PlaceEnds DEF WithPlace
  <1>5. ASSUME NEW s, WithAct(s, stat, lac, cid, act)
        PROVE  /\ Starts(s) /\ s \in Seq(Chars) /\ s[1] # Quote /\ Commas(s) = 3
               /\ \E d, e : PlaceAt(s, stat, lac, cid, d) /\ NumberAt(d, act, e)
    <2>1. PICK x, y : Item(x, lac) /\ Item(y, cid) /\ s = Full(stat, x, y, act)
      BY <1>5 DEF WithAct
    <2>2. act \in Seq(Chars) /\ Commas(act) = 0
      BY <1>2, ItemFacts
    <2>3. /\ Starts(s) /\ s \in Seq(Chars) /\ s[1] # Quote /\ Commas(s) = 3 + Commas(act)
          /\ PlaceAt(s, stat, lac, cid, act)
      <3>1. FullIs(s, stat, x, y, act, lac, cid)
        BY <1>2, <2>1, <2>2, PlaceThen
      <3> QED
        BY <3>1 DEF FullIs
    <2>4. \E e : NumberAt(act, act, e)
      BY <1>2, ItemEnd
    <2>5. Commas(s) = 3
      BY <2>2, <2>3
    <2> QED
      BY <2>3, <2>4, <2>5
  <1>6. ASSUME NEW s, s \in Seq(Chars), t = Then(Two, s)
        PROVE  NumberAt(line, Two, s) /\ Commas(line) = 1 + Commas(s)
    <2>1. Starts(t) /\ Commas(t) = 1 + Commas(s) /\ NumberAt(t, Two, s)
      BY <1>6, TwoItem, ThenStarts, ItemNext
    <2> QED
      BY <1>1, <2>1, BlankNext
  <1>7. CASE Bare(t, stat)
    <2>1. \E d : NumberAt(line, stat, d)
      BY <1>1, <1>3, <1>7, BlankNext
    <2>2. Commas(line) = 0
      BY <1>1, <1>3, <1>7, BlankNext
    <2> QED
      BY <2>1, <2>2 DEF Form
  <1>8. CASE WithPlace(t, stat, lac, cid)
    <2>1. PICK d : PlaceAt(t, stat, lac, cid, d)
      BY <1>4, <1>8
    <2>2. Starts(t) /\ Commas(t) = 2
      BY <1>4, <1>8
    <2>3. PlaceAt(line, stat, lac, cid, d)
      BY <1>1, <2>1, <2>2, BlankPlace
    <2>4. Commas(line) = 2
      BY <1>1, <2>1, <2>2, BlankNext DEF PlaceAt
    <2> QED
      BY <2>3, <2>4 DEF Form
  <1>9. ASSUME NEW s, t = Then(Two, s), Bare(s, stat)
        PROVE  Form(line, stat, lac, cid, act)
    <2>1. s \in Seq(Chars) /\ Commas(s) = 0 /\ \E d : NumberAt(s, stat, d)
      BY <1>3, <1>9
    <2>2. NumberAt(line, Two, s) /\ Commas(line) = 1
      BY <1>6, <1>9, <2>1
    <2> QED
      BY <2>1, <2>2 DEF Form
  <1>10. ASSUME NEW s, t = Then(Two, s), WithPlace(s, stat, lac, cid)
         PROVE  Form(line, stat, lac, cid, act)
    <2>1. s \in Seq(Chars) /\ Commas(s) = 2 /\ s # <<>> /\ s[1] # Quote
          /\ \E d : PlaceAt(s, stat, lac, cid, d)
      BY <1>4, <1>10 DEF Starts
    <2>2. NumberAt(line, Two, s) /\ Commas(line) = 3
      BY <1>6, <1>10, <2>1
    <2> QED
      BY <2>1, <2>2 DEF Form
  <1>11. ASSUME NEW s, t = Then(Two, s), WithAct(s, stat, lac, cid, act)
         PROVE  Form(line, stat, lac, cid, act)
    <2>1. s \in Seq(Chars) /\ Commas(s) = 3
          /\ \E d, e : PlaceAt(s, stat, lac, cid, d) /\ NumberAt(d, act, e)
      BY <1>5, <1>11
    <2>2. NumberAt(line, Two, s) /\ Commas(line) = 4
      BY <1>6, <1>11, <2>1
    <2> QED
      BY <2>1, <2>2 DEF Form
  <1> QED
    BY <1>1, <1>7, <1>8, <1>9, <1>10, <1>11

(* and every +CGREG: line, or of the one with the technology behind a       *)
(* quoted place.                                                            *)
LEMMA CgregForms ==
    ASSUME NEW stat, NEW lac, NEW cid, NEW act, Words(stat, lac, cid, act),
           stat = network.stat, lac = network.place.lac, cid = network.place.cid, act = network.act,
           NEW line \in CgregLines
    PROVE  Form(line, stat, lac, cid, act) \/ QuotedForm(line, stat, lac, cid, act)
  <1>1. line \in CregLines \/ line = Line(<<stat, Quoted(lac), Quoted(cid), act>>)
    BY DEF CgregLines
  <1>2. CASE line = Line(<<stat, Quoted(lac), Quoted(cid), act>>)
    <2>1. PICK x : x = Quoted(lac)
      OBVIOUS
    <2>2. PICK y : y = Quoted(cid)
      OBVIOUS
    <2>3. Item(stat, stat) /\ Item(act, act) /\ Item(x, lac) /\ Item(y, cid)
      BY <2>1, <2>2 DEF Words
    <2>4. /\ stat \in Seq(Chars) /\ act \in Seq(Chars) /\ x \in Seq(Chars) /\ y \in Seq(Chars)
          /\ Commas(act) = 0 /\ x[1] = Quote
      BY <2>1, <2>3, ItemFacts
    <2>5. PICK s : s = Full(stat, x, y, act)
      OBVIOUS
    <2>6. Join(<<stat, x, y, act>>) = s
      <3>1. JoinsAre(stat, x, y, act, act)
        BY <2>4, Joins
      <3> QED
        BY <2>5, <3>1 DEF JoinsAre, Full
    <2>7. line = <<Blank>> \o s
      BY <1>2, <2>1, <2>2, <2>6 DEF Line
    <2>8. FullIs(s, stat, x, y, act, lac, cid)
      BY <2>3, <2>4, <2>5, PlaceThen
    <2>9. /\ Starts(s) /\ Commas(s) = 3 + Commas(act) /\ PlaceAt(s, stat, lac, cid, act)
      BY <2>8 DEF FullIs
    <2>10. PICK t : NumberAt(s, stat, t) /\ t # <<>> /\ t[1] = x[1]
      BY <2>8 DEF FullIs
    <2>11. \E e : NumberAt(act, act, e)
      BY <2>3, ItemEnd
    <2>12. NumberAt(line, stat, t) /\ Commas(line) = Commas(s)
      BY <2>7, <2>9, <2>10, BlankNext
    <2>13. PlaceAt(line, stat, lac, cid, act)
      BY <2>7, <2>9, BlankPlace
    <2>14. Commas(line) = 3
      BY <2>4, <2>9, <2>12
    <2> QED
      BY <2>4, <2>10, <2>11, <2>12, <2>13, <2>14 DEF QuotedForm
  <1> QED
    BY <1>1, <1>2, LineForms

-----------------------------------------------------------------------------
(* What the handlers read of each form. *)

(* Nothing is known of the place and the technology yet.                    *)
Fresh(v) == DOMAIN v = Names /\ v.lac = -1 /\ v.cid = -1 /\ v.act = 0

(* If only the registration is read, the rest stays unknown. *)
LEMMA ReadStat ==
    ASSUME NEW v, Fresh(v), NEW c, NEW d, NEW stat, Digital(stat, 10), NumberAt(c, stat, d)
    PROVE  Sees(Reading(At(c, v), Stat(<<>>)), Value(stat, 10), -1, -1, 0)
  <1>1. PICK names : names = <<>>
    OBVIOUS
  <1>2. names \in Seq(Names)
    BY <1>1, EmptySeq
  <1>3. Reading(At(c, v), <<"stat">> \o names) = Reading(At(d, With(v, "stat", Value(stat, 10))), names)
    <2>1. "stat" \in Names /\ Base("stat") = 10
      BY NamesAre
    <2>2. PICK name \in Names : name = "stat"
      BY <2>1
    <2>3. Digital(stat, Base(name)) /\ Base(name) = 10
      BY <2>1, <2>2
    <2>4. Reading(At(c, v), <<name>> \o names) =
             Reading(At(d, With(v, name, Value(stat, Base(name)))), names)
      BY <1>2, <2>3, ReadNext
    <2> QED
      BY <2>2, <2>3, <2>4
  <1>4. Sees(At(d, With(v, "stat", Value(stat, 10))), Value(stat, 10), -1, -1, 0)
    <2>1. DOMAIN v = Names /\ v.lac = -1 /\ v.cid = -1 /\ v.act = 0
      BY DEF Fresh
    <2>2. Sees(At(d, With(v, "stat", Value(stat, 10))), Value(stat, 10), v.lac, v.cid, v.act)
      BY <2>1, SeesValues
    <2> QED
      BY <2>1, <2>2
  <1> QED
    BY <1>1, <1>3, <1>4, ReadNone DEF Stat

(* With the place, and what may stand behind it, that is known too. *)
LEMMA ReadPlaces ==
    ASSUME NEW v, Fresh(v), NEW c, NEW d, NEW stat, NEW lac, NEW cid, NEW act,
           Words(stat, lac, cid, act), PlaceAt(c, stat, lac, cid, d)
    PROVE  /\ Sees(Reading(At(c, v), Place(<<>>)), Value(stat, 10), Value(lac, 16), Value(cid, 16), 0)
           /\ \A e : NumberAt(d, act, e) =>
                 /\ Sees(Reading(At(c, v), Place(<<"act">>)),
                         Value(stat, 10), Value(lac, 16), Value(cid, 16), Value(act, 10))
                 /\ Sees(Reading(At(c, v), Place(<<"skip">>)),
                         Value(stat, 10), Value(lac, 16), Value(cid, 16), 0)
  <1>1. PICK s : s = Value(stat, 10)
    OBVIOUS
  <1>2. PICK l : l = Value(lac, 16)
    OBVIOUS
  <1>3. PICK i : i = Value(cid, 16)
    OBVIOUS
  <1>4. PICK u : u = Placed(v, s, l, i)
    OBVIOUS
  <1>5. Digital(stat, 10) /\ Digital(lac, 16) /\ Digital(cid, 16) /\ Digital(act, 10)
    BY DEF Words
  <1>6. ASSUME NEW rest \in Seq(Names)
        PROVE  Reading(At(c, v), Place(rest)) = Reading(At(d, u), rest)
    <2>1. PICK c1, c2 : NumberAt(c, stat, c1) /\ NumberAt(c1, lac, c2) /\ NumberAt(c2, cid, d)
      BY DEF PlaceAt
    <2>2. Reading(At(c, v), <<"stat">> \o (<<"lac">> \o (<<"cid">> \o rest))) =
             Reading(At(d, Placed(v, Value(stat, 10), Value(lac, 16), Value(cid, 16))), rest)
      BY <1>5, <2>1, ReadPlace
    <2> QED
      BY <1>1, <1>2, <1>3, <1>4, <2>2 DEF Place
  <1>7. DOMAIN v = Names /\ v.act = 0
    BY DEF Fresh
  <1>8. /\ Sees(At(d, u), s, l, i, 0)
        /\ \A cur, x : /\ Sees(At(cur, With(u, "act", x)), s, l, i, x)
                       /\ Sees(At(cur, With(u, "skip", x)), s, l, i, 0)
    BY <1>4, <1>7, SeesValues
  <1>9. Sees(Reading(At(c, v), Place(<<>>)), s, l, i, 0)
    <2>1. PICK rest : rest = <<>>
      OBVIOUS
    <2>2. rest \in Seq(Names) /\ Reading(At(d, u), rest) = At(d, u)
      BY <2>1, EmptySeq, ReadNone
    <2> QED
      BY <1>6, <1>8, <2>1, <2>2
  <1>10. ASSUME NEW e, NumberAt(d, act, e), NEW name \in Names, Base(name) = 10
         PROVE  Reading(At(c, v), Place(<<name>>)) = At(e, With(u, name, Value(act, 10)))
    <2>1. PICK rest : rest = <<>>
      OBVIOUS
    <2>2. rest \in Seq(Names)
      BY <2>1, EmptySeq
    <2>3. <<name>> \o rest = <<name>> /\ <<name>> \in Seq(Names)
      <3>1. Tupled(Names, name, name, name, name, name)
        BY Tuples
      <3> QED
        BY <2>1, <3>1 DEF Tupled
    <2>4. Digital(act, Base(name))
      BY <1>5, <1>10
    <2>5. Reading(At(d, u), <<name>> \o rest) = Reading(At(e, With(u, name, Value(act, Base(name)))), rest)
      BY <1>10, <2>2, <2>4, ReadNext
    <2>6. Reading(At(c, v), Place(<<name>>)) = Reading(At(d, u), <<name>>)
      BY <1>6, <2>3
    <2> QED
      BY <1>10, <2>1, <2>3, <2>5, <2>6, ReadNone
  <1>11. ASSUME NEW e, NumberAt(d, act, e)
         PROVE  /\ Sees(Reading(At(c, v), Place(<<"act">>)), s, l, i, Value(act, 10))
                /\ Sees(Reading(At(c, v), Place(<<"skip">>)), s, l, i, 0)
    <2>1. /\ Reading(At(c, v), Place(<<"act">>)) = At(e, With(u, "act", Value(act, 10)))
          /\ Reading(At(c, v), Place(<<"skip">>)) = At(e, With(u, "skip", Value(act, 10)))
      BY <1>10, <1>11, NamesAre
    <2> QED
      BY <1>8, <2>1
  <1> QED
    BY <1>1, <1>2, <1>3, <1>9, <1>11

(* The n that a solicited line begins with is read and not used. *)
LEMMA ReadSkip ==
    ASSUME NEW line, NEW c, NumberAt(line, Two, c)
    PROVE  \E v : /\ Fresh(v)
                  /\ \A names \in Seq(Names) :
                        Reading(At(line, None), Skip(names)) = Reading(At(c, v), names)
  <1>1. PICK v : v = With(None, "skip", Value(Two, 10))
    OBVIOUS
  <1>2. Fresh(v)
    BY <1>1, NoneFacts DEF Fresh
  <1>3. ASSUME NEW names \in Seq(Names)
        PROVE  Reading(At(line, None), Skip(names)) = Reading(At(c, v), names)
    <2>1. PICK name \in Names : name = "skip"
      BY NamesAre
    <2>2. Base(name) = 10
      BY <2>1, NamesAre
    <2>3. Digital(Two, Base(name))
      BY <2>2, TwoItem
    <2>4. Reading(At(line, None), <<name>> \o names) =
             Reading(At(c, With(None, name, Value(Two, Base(name)))), names)
      BY <2>3, ReadNext
    <2> QED
      BY <1>1, <2>1, <2>2, <2>4 DEF Skip
  <1> QED
    BY <1>2, <1>3

(* What is read is what the modem knows, or nothing if it is not there.     *)
Reported(r, line, stat, lac, cid, act) ==
    /\ Commas(line) \in Nat
    /\ \E a \in {0, Value(act, 10)} :
          \/ Commas(line) < 2 /\ Sees(r, Value(stat, 10), -1, -1, a)
          \/ Commas(line) >= 2 /\ Sees(r, Value(stat, 10), Value(lac, 16), Value(cid, 16), a)

(* The fields requestNeighboringCellIds() reads. *)
CellsFields(line) == VoiceFields(line) \o (IF Commas(line) = 4 THEN <<"skip">> ELSE <<>>)

(* For each form, the fields the three handlers choose by its commas are    *)
(* those that it has;                                                       *)
LEMMA FormReported ==
    ASSUME NEW stat, NEW lac, NEW cid, NEW act, Words(stat, lac, cid, act),
           NEW line, Form(line, stat, lac, cid, act)
    PROVE  /\ Reported(Fields(line, VoiceFields(line)), line, stat, lac, cid, act)
           /\ Reported(Fields(line, CellsFields(line)), line, stat, lac, cid, act)
           /\ Reported(Fields(line, DataFields(line)), line, stat, lac, cid, act)
  <1>1. Digital(stat, 10)
    BY DEF Words
  <1>2. Fresh(None)
    BY NoneFacts DEF Fresh
  <1>3. \A names : Fields(line, names) = Reading(At(line, None), names)
    BY FieldsIsReading, NoneFacts
  <1>4. PICK m \in Nat : m = Commas(line) /\ m \in 0 .. 4
    <2>1. Commas(line) \in {0, 1, 2, 3, 4}
      BY DEF Form
    <2> QED
      BY <2>1
  <1>5. /\ <<>> \in Seq(Names) /\ <<"act">> \in Seq(Names) /\ <<"skip">> \in Seq(Names)
        /\ \A rest \in Seq(Names) : Stat(rest) \in Seq(Names) /\ Place(rest) \in Seq(Names)
    <2>1. <<>> \in Seq(Names)
      BY EmptySeq
    <2>2. <<"act">> \in Seq(Names) /\ <<"skip">> \in Seq(Names)
      BY NamesAre, Single
    <2>3. ASSUME NEW rest \in Seq(Names), NEW name \in Names
          PROVE  <<name>> \o rest \in Seq(Names)
      BY Prefixed
    <2> QED
      BY <2>1, <2>2, <2>3, NamesAre DEF Stat, Place
  <1>6. Commas(line) \in Nat
    BY <1>4
  <1>7. CASE m = 0
    <2>1. PICK d : NumberAt(line, stat, d)
      BY <1>4, <1>7 DEF Form
    <2>2. Sees(Fields(line, Stat(<<>>)), Value(stat, 10), -1, -1, 0)
      BY <1>1, <1>2, <1>3, <2>1, ReadStat
    <2>3. VoiceFields(line) = Stat(<<>>) /\ CellsFields(line) = Stat(<<>>) /\ DataFields(line) = Stat(<<>>)
      BY <1>4, <1>7, NameLists DEF VoiceFields, CellsFields, DataFields
    <2>4. Commas(line) < 2
      BY <1>4, <1>7
    <2> QED
      BY <1>6, <2>2, <2>3, <2>4 DEF Reported
  <1>8. CASE m = 1
    <2>1. PICK c, d : NumberAt(line, Two, c) /\ NumberAt(c, stat, d)
      BY <1>4, <1>8 DEF Form
    <2>2. PICK v : /\ Fresh(v)
                   /\ \A names \in Seq(Names) :
                         Reading(At(line, None), Skip(names)) = Reading(At(c, v), names)
      BY <2>1, ReadSkip
    <2>3. Sees(Reading(At(c, v), Stat(<<>>)), Value(stat, 10), -1, -1, 0)
      BY <1>1, <2>1, <2>2, ReadStat
    <2>4. Sees(Fields(line, Skip(Stat(<<>>))), Value(stat, 10), -1, -1, 0)
      BY <1>3, <1>5, <2>2, <2>3
    <2>5. /\ VoiceFields(line) = Skip(Stat(<<>>)) /\ CellsFields(line) = Skip(Stat(<<>>))
          /\ DataFields(line) = Skip(Stat(<<>>))
      BY <1>4, <1>8, NameLists DEF VoiceFields, CellsFields, DataFields
    <2>6. Commas(line) < 2
      BY <1>4, <1>8
    <2> QED
      BY <1>6, <2>4, <2>5, <2>6 DEF Reported
  <1>9. CASE m = 2
    <2>1. PICK d : PlaceAt(line, stat, lac, cid, d)
      BY <1>4, <1>9 DEF Form
    <2>2. Sees(Fields(line, Place(<<>>)), Value(stat, 10), Value(lac, 16), Value(cid, 16), 0)
      BY <1>2, <1>3, <2>1, ReadPlaces
    <2>3. /\ VoiceFields(line) = Place(<<>>) /\ CellsFields(line) = Place(<<>>)
          /\ DataFields(line) = Place(<<>>)
      BY <1>4, <1>9, NameLists DEF VoiceFields, CellsFields, DataFields
    <2>4. Commas(line) >= 2
      BY <1>4, <1>9
    <2> QED
      BY <1>6, <2>2, <2>3, <2>4 DEF Reported
  <1>10. CASE m = 3
    <2>1. PICK c, d : /\ NumberAt(line, Two, c) /\ c # <<>> /\ c[1] # Quote
                      /\ PlaceAt(c, stat, lac, cid, d)
      BY <1>4, <1>10 DEF Form
    <2>2. PICK v : /\ Fresh(v)
                   /\ \A names \in Seq(Names) :
                         Reading(At(line, None), Skip(names)) = Reading(At(c, v), names)
      BY <2>1, ReadSkip
    <2>3. Sees(Reading(At(c, v), Place(<<>>)), Value(stat, 10), Value(lac, 16), Value(cid, 16), 0)
      BY <2>1, <2>2, ReadPlaces
    <2>4. Sees(Fields(line, Skip(Place(<<>>))), Value(stat, 10), Value(lac, 16), Value(cid, 16), 0)
      BY <1>3, <1>5, <2>2, <2>3
    <2>5. ~LacSecond(line)
      <3>1. NextInt(line, 10).cur = c
        BY <2>1, TwoItem DEF NumberAt
      <3> QED
        BY <2>1, <3>1 DEF LacSecond
    <2>6. /\ VoiceFields(line) = Skip(Place(<<>>)) /\ CellsFields(line) = Skip(Place(<<>>))
          /\ DataFields(line) = Skip(Place(<<>>))
      BY <1>4, <1>10, <2>5, NameLists DEF VoiceFields, CellsFields, DataFields
    <2>7. Commas(line) >= 2
      BY <1>4, <1>10
    <2> QED
      BY <1>6, <2>4, <2>6, <2>7 DEF Reported
  <1>11. CASE m = 4
    <2>1. PICK c, d, e : NumberAt(line, Two, c) /\ PlaceAt(c, stat, lac, cid, d) /\ NumberAt(d, act, e)
      BY <1>4, <1>11 DEF Form
    <2>2. PICK v : /\ Fresh(v)
                   /\ \A names \in Seq(Names) :
                         Reading(At(line, None), Skip(names)) = Reading(At(c, v), names)
      BY <2>1, ReadSkip
    <2>3. /\ Sees(Reading(At(c, v), Place(<<>>)), Value(stat, 10), Value(lac, 16), Value(cid, 16), 0)
          /\ Sees(Reading(At(c, v), Place(<<"act">>)),
                  Value(stat, 10), Value(lac, 16), Value(cid, 16), Value(act, 10))
          /\ Sees(Reading(At(c, v), Place(<<"skip">>)), Value(stat, 10), Value(lac, 16), Value(cid, 16), 0)
      BY <2>1, <2>2, ReadPlaces
    <2>4. /\ Sees(Fields(line, Skip(Place(<<>>))), Value(stat, 10), Value(lac, 16), Value(cid, 16), 0)
          /\ Sees(Fields(line, Skip(Place(<<"act">>))),
                  Value(stat, 10), Value(lac, 16), Value(cid, 16), Value(act, 10))
          /\ Sees(Fields(line, Skip(Place(<<"skip">>))), Value(stat, 10), Value(lac, 16), Value(cid, 16), 0)
      <3>1. /\ Place(<<>>) \in Seq(Names) /\ Place(<<"act">>) \in Seq(Names)
            /\ Place(<<"skip">>) \in Seq(Names)
        BY <1>5
      <3>2. ASSUME NEW names \in Seq(Names)
            PROVE  Fields(line, Skip(names)) = Reading(At(c, v), names)
        BY <1>3, <2>2
      <3> QED
        BY <2>3, <3>1, <3>2
    <2>5. /\ VoiceFields(line) = Skip(Place(<<>>)) /\ CellsFields(line) = Skip(Place(<<"skip">>))
          /\ DataFields(line) = Skip(Place(<<"act">>))
      BY <1>4, <1>11, NameLists DEF VoiceFields, CellsFields, DataFields
    <2>6. Commas(line) >= 2
      BY <1>4, <1>11
    <2> QED
      BY <1>6, <2>4, <2>5, <2>6 DEF Reported
  <1>12. m = 0 \/ m = 1 \/ m = 2 \/ m = 3 \/ m = 4
    BY <1>4
  <1> QED
    BY <1>7, <1>8, <1>9, <1>10, <1>11, <1>12

(* and for the quoted one, those that requestGprsRegistrationState()        *)
(* chooses by its mark.                                                     *)
LEMMA QuotedReported ==
    ASSUME NEW stat, NEW lac, NEW cid, NEW act, Words(stat, lac, cid, act),
           NEW line, QuotedForm(line, stat, lac, cid, act)
    PROVE  Reported(Fields(line, DataFields(line)), line, stat, lac, cid, act)
  <1>1. PICK d, e : PlaceAt(line, stat, lac, cid, d) /\ NumberAt(d, act, e)
    BY DEF QuotedForm
  <1>2. PICK t : NumberAt(line, stat, t) /\ t # <<>> /\ t[1] = Quote
    BY DEF QuotedForm
  <1>3. LacSecond(line)
    <2>1. NextInt(line, 10).cur = t
      BY <1>2 DEF NumberAt, Words
    <2> QED
      BY <1>2, <2>1 DEF LacSecond
  <1>4. Commas(line) = 3
    BY DEF QuotedForm
  <1>5. DataFields(line) = Place(<<"act">>)
    BY <1>3, <1>4, NameLists DEF DataFields
  <1>6. Fresh(None) /\ Fields(line, Place(<<"act">>)) = Reading(At(line, None), Place(<<"act">>))
    BY FieldsIsReading, NoneFacts DEF Fresh
  <1>7. Sees(Fields(line, Place(<<"act">>)), Value(stat, 10), Value(lac, 16), Value(cid, 16), Value(act, 10))
    BY <1>1, <1>6, ReadPlaces
  <1>8. Commas(line) \in Nat /\ Commas(line) >= 2
    BY <1>4
  <1> QED
    BY <1>4, <1>5, <1>7, <1>8 DEF Reported

-----------------------------------------------------------------------------
(* What is told of the place. *)

(* What NetworkTold says of an answer about registration and place. *)
PlaceTold(said, answer, net) ==
    LET lac == Hex(net.place.lac) cid == Hex(net.place.cid) IN
    /\ answer.stat \subseteq {Hex(net.stat)}
    /\ answer.lac \subseteq {lac} /\ answer.cid \subseteq {cid}
    /\ answer.act \subseteq {Hex(net.act), 0}
    /\ Commas(said) >= 2 /\ lac > 0 => answer.lac # {} /\ answer.cid # {}

(* The values v of a line make up an answer. *)
Answers(v, line, answer) ==
    /\ answer.stat \subseteq {v.stat} /\ answer.act \subseteq {v.act}
    /\ answer.lac \subseteq {v.lac} /\ answer.cid \subseteq {v.cid}
    /\ v.lac = -1 => answer.lac = {}
    /\ v.cid = -1 => answer.cid = {}
    /\ v.lac > 0 => answer.lac # {}
    /\ v.cid > 0 => answer.cid # {}

(* What was read, with what is not known left out, is told so. *)
LEMMA AnswerTold ==
    ASSUME network \in Networks, NEW r, NEW line, NEW answer, Answers(r.values, line, answer),
           Reported(r, line, network.stat, network.place.lac, network.place.cid, network.act)
    PROVE  PlaceTold(line, answer, network)
  <1>1. PICK stat : stat = network.stat
    OBVIOUS
  <1>2. PICK lac : lac = network.place.lac
    OBVIOUS
  <1>3. PICK cid : cid = network.place.cid
    OBVIOUS
  <1>4. PICK act : act = network.act
    OBVIOUS
  <1>5. Words(stat, lac, cid, act)
    BY <1>1, <1>2, <1>3, <1>4, NetworkWords
  <1>6. /\ Digital(stat, 16) /\ Digital(act, 16) /\ Digital(lac, 16) /\ Digital(cid, 16)
        /\ Value(stat, 10) = Value(stat, 16) /\ Value(act, 10) = Value(act, 16)
    BY <1>5 DEF Words
  <1>7. /\ Hex(stat) = Value(stat, 10) /\ Hex(act) = Value(act, 10)
        /\ Hex(lac) = Value(lac, 16) /\ Hex(cid) = Value(cid, 16)
    BY <1>6, HexIs
  <1>8. PICK l \in Nat : l = Value(lac, 16)
    BY <1>5 DEF Words
  <1>9. PICK i \in Nat : i = Value(cid, 16)
    BY <1>5 DEF Words
  <1>10. l > 0 => i > 0
    BY <1>5, <1>8, <1>9 DEF Words
  <1>11. PICK a \in {0, Hex(act)} :
            \/ Commas(line) < 2 /\ Sees(r, Hex(stat), -1, -1, a)
            \/ Commas(line) >= 2 /\ Sees(r, Hex(stat), l, i, a)
    BY <1>1, <1>2, <1>3, <1>4, <1>7, <1>8, <1>9 DEF Reported
  <1>12. PICK v : v = r.values
    OBVIOUS
  <1>13. /\ answer.stat \subseteq {v.stat} /\ answer.act \subseteq {v.act}
         /\ answer.lac \subseteq {v.lac} /\ answer.cid \subseteq {v.cid}
         /\ v.lac = -1 => answer.lac = {}
         /\ v.cid = -1 => answer.cid = {}
         /\ v.lac > 0 => answer.lac # {}
         /\ v.cid > 0 => answer.cid # {}
    BY <1>12 DEF Answers
  <1>14. v.stat = Hex(stat) /\ v.act = a
    BY <1>11, <1>12 DEF Sees
  <1>15. answer.stat \subseteq {Hex(stat)} /\ answer.act \subseteq {Hex(act), 0}
    BY <1>11, <1>13, <1>14
  <1>16. CASE Commas(line) < 2 /\ Sees(r, Hex(stat), -1, -1, a)
    <2>1. answer.lac = {} /\ answer.cid = {}
      BY <1>12, <1>13, <1>16 DEF Sees
    <2>2. ~(Commas(line) >= 2)
      <3>1. Commas(line) \in Nat
        BY DEF Reported
      <3> QED
        BY <1>16, <3>1
    <2> QED
      BY <1>1, <1>2, <1>3, <1>4, <1>15, <2>1, <2>2 DEF PlaceTold
  <1>17. CASE Commas(line) >= 2 /\ Sees(r, Hex(stat), l, i, a)
    <2>1. v.lac = l /\ v.cid = i
      BY <1>12, <1>17 DEF Sees
    <2>2. answer.lac \subseteq {l} /\ answer.cid \subseteq {i} /\ (l > 0 => answer.lac # {} /\ answer.cid # {})
      BY <1>10, <1>13, <2>1
    <2> QED
      BY <1>1, <1>2, <1>3, <1>4, <1>7, <1>8, <1>9, <1>15, <2>2 DEF PlaceTold
  <1> QED
    BY <1>11, <1>16, <1>17

(* Of every line of the modem, every handler reads what the modem knows. *)
LEMMA LineReported ==
    ASSUME network \in Networks, NEW line
    PROVE  LET Told(names) == Reported(Fields(line, names), line, network.stat,
                                       network.place.lac, network.place.cid, network.act)
           IN  /\ line \in CregLines => Told(VoiceFields(line)) /\ Told(CellsFields(line))
               /\ line \in CgregLines => Told(DataFields(line))
  <1>1. Words(network.stat, network.place.lac, network.place.cid, network.act)
    BY NetworkWords
  <1>2. line \in CregLines =>
           Form(line, network.stat, network.place.lac, network.place.cid, network.act)
    BY <1>1, LineForms
  <1>3. line \in CgregLines =>
           \/ Form(line, network.stat, network.place.lac, network.place.cid, network.act)
           \/ QuotedForm(line, network.stat, network.place.lac, network.place.cid, network.act)
    BY <1>1, CgregForms
  <1> QED
    BY <1>1, <1>2, <1>3, FormReported, QuotedReported

(* Nothing fails, and a line with two commas has a place. *)
LEMMA ReportedOk ==
    ASSUME NEW stat, NEW lac, NEW cid, NEW act, Words(stat, lac, cid, act),
           NEW r, NEW line, Reported(r, line, stat, lac, cid, act)
    PROVE  /\ r.ok = TRUE
           /\ ~(Commas(line) < 2) => r.values.lac # -1 /\ r.values.cid # -1
  <1>1. Value(lac, 16) \in Nat /\ Value(cid, 16) \in Nat
    BY DEF Words
  <1>2. r.ok = TRUE
    BY DEF Reported, Sees
  <1>3. ASSUME ~(Commas(line) < 2)
        PROVE  r.values.lac = Value(lac, 16) /\ r.values.cid = Value(cid, 16)
    BY <1>3 DEF Reported, Sees
  <1> QED
    BY <1>1, <1>2, <1>3

-----------------------------------------------------------------------------
(* Contexts. *)

(* One context more. *)
AddContext(states, cids, cid) == IF states[cid] = "undefined" THEN cids ELSE Append(cids, cid)
Ls == INSTANCE FoldFacts WITH Op <- AddContext

(* The contexts listed are those defined. *)
LEMMA ListedIs ==
    ASSUME NEW states \in ContextStates
    PROVE  /\ \A i \in DOMAIN Listed(states) :
                 Listed(states)[i] \in Cids /\ states[Listed(states)[i]] # "undefined"
           /\ \A cid \in Cids : states[cid] # "undefined" =>
                 \E i \in DOMAIN Listed(states) : Listed(states)[i] = cid
  <1>1. Cids = {1, 2} /\ 1 \in Nat /\ 2 \in Nat
    BY DEF Cids
  <1>2. PICK e : e = <<>>
    OBVIOUS
  <1>3. PICK s : s = <<2>>
    OBVIOUS
  <1>4. s \in Seq(Nat) /\ <<1>> \o s = <<1, 2>> /\ e \in Seq(Nat) /\ <<2>> \o e = s
    <2>1. Tupled(Nat, 1, 2, 2, 2, 2) /\ Tupled(Nat, 2, 2, 2, 2, 2)
      BY <1>1, Tuples
    <2>2. <<2>> \in Seq(Nat) /\ <<2>> \o <<>> = <<2>> /\ <<1>> \o <<2>> = <<1, 2>>
      BY <2>1 DEF Tupled
    <2>3. e \in Seq(Nat)
      BY <1>2, EmptySeq
    <2> QED
      BY <1>2, <1>3, <2>2, <2>3
  <1>5. Listed(states) = Ls!Fold(states, e, <<1>> \o s)
    <2>1. Listed(states) = Ls!Fold(states, <<>>, <<1, 2>>)
      BY DEF Listed, Ls!Fold, Ls!FoldLeft, Ls!MapThenFoldSet, Ls!Max, AddContext,
             FoldLeft, MapThenFoldSet, Max
    <2> QED
      BY <1>2, <1>4, <2>1
  <1>6. \A base : Ls!Fold(states, base, <<1>> \o s) = Ls!Fold(states, AddContext(states, base, 1), s)
    BY <1>1, <1>4, Ls!FoldHead
  <1>7. \A base : Ls!Fold(states, base, <<2>> \o e) = Ls!Fold(states, AddContext(states, base, 2), e)
    BY <1>1, <1>4, Ls!FoldHead
  <1>8. \A base : Ls!Fold(states, base, e) = base
    BY <1>2, Ls!FoldEmpty
  <1>9. Listed(states) = AddContext(states, AddContext(states, e, 1), 2)
    BY <1>4, <1>5, <1>6, <1>7, <1>8
  <1>10. PICK a : a = (states[1] = "undefined")
    OBVIOUS
  <1>11. PICK b : b = (states[2] = "undefined")
    OBVIOUS
  <1>12. Append(e, 1) = <<1>> /\ Append(e, 2) = <<2>> /\ Append(<<1>>, 2) = <<1, 2>>
    <2>1. Append(<<>>, 1) = <<1>> /\ Append(<<>>, 2) = <<2>>
      OBVIOUS
    <2>2. Append(<<1>>, 2) = <<1, 2>>
      <3>1. PICK t : t = <<1>>
        OBVIOUS
      <3>2. t \in Seq(Nat)
        BY <1>1, <3>1, Single
      <3>3. Append(t, 2) = t \o <<2>>
        BY <1>1, <3>2, AppendIsConcat
      <3> QED
        BY <1>3, <1>4, <3>1, <3>3
    <2> QED
      BY <1>2, <2>1, <2>2
  <1>13. \/ a /\ b /\ Listed(states) = e
         \/ a /\ ~b /\ Listed(states) = <<2>>
         \/ ~a /\ b /\ Listed(states) = <<1>>
         \/ ~a /\ ~b /\ Listed(states) = <<1, 2>>
    BY <1>9, <1>10, <1>11, <1>12 DEF AddContext
  <1>14. PICK l : l = Listed(states)
    OBVIOUS
  <1> SUFFICES /\ \A i \in DOMAIN l : l[i] \in {1, 2} /\ states[l[i]] # "undefined"
               /\ \A cid \in {1, 2} : states[cid] # "undefined" => \E i \in DOMAIN l : l[i] = cid
    BY <1>1, <1>14
  <1>15. CASE a /\ b /\ l = e
    <2>1. DOMAIN l = {}
      BY <1>2, <1>15
    <2> QED
      BY <1>10, <1>11, <1>15, <2>1
  <1>16. CASE a /\ ~b /\ l = <<2>>
    <2>1. DOMAIN l = {1} /\ l[1] = 2
      BY <1>16
    <2> QED
      BY <1>10, <1>11, <1>16, <2>1
  <1>17. CASE ~a /\ b /\ l = <<1>>
    <2>1. DOMAIN l = {1} /\ l[1] = 1
      BY <1>17
    <2> QED
      BY <1>10, <1>11, <1>17, <2>1
  <1>18. CASE ~a /\ ~b /\ l = <<1, 2>>
    <2>1. DOMAIN l = {1, 2} /\ l[1] = 1 /\ l[2] = 2
      BY <1>18
    <2> QED
      BY <1>10, <1>11, <1>18, <2>1
  <1> QED
    BY <1>13, <1>14, <1>15, <1>16, <1>17, <1>18

-----------------------------------------------------------------------------
(* The framework, the network and the modem agree. *)

(* The modem is set to one of the types it may be set to, as far as the     *)
(* framework can tell;                                                      *)
Configured == \E type \in preferred : sysCfg = Configuration(type)

(* besides, the invariant says so.                                          *)
NetworkInv == NetworkTypeOK /\ Configured /\ NetworkTold

(* It holds at first. *)
LEMMA NetworkBegins == NetworkInit => NetworkInv
  <1> SUFFICES ASSUME NetworkInit PROVE NetworkInv
    OBVIOUS
  <1>1. network \in Networks /\ sysCfg = 2 /\ preferred = {3} /\ info = Nothing
    BY DEF NetworkInit
  <1>2. info.errno = "none"
    BY <1>1 DEF Nothing
  <1>3. NetworkTypeOK
    BY <1>1, <1>2 DEF NetworkTypeOK
  <1>4. Configured
    BY <1>1 DEF Configured, Configuration
  <1>5. NetworkTold
    BY <1>2 DEF NetworkTold
  <1> QED
    BY <1>3, <1>4, <1>5 DEF NetworkInv

(* Telling the framework a place so is what NetworkTold asks for. *)
LEMMA PlaceIsTold ==
    ASSUME NEW request \in {"VOICE", "DATA", "CELLS"}, NEW said, NEW answer, network' = network,
           Tell(request, said, answer), PlaceTold(said, answer, network)
    PROVE  NetworkTold'
  <1>1. /\ info'.request = request /\ info'.errno = "SUCCESS" /\ info'.said = said
        /\ info'.answer = answer
    BY DEF Tell
  <1>2. info'.request # "CONTEXTS" /\ info'.request # "GET_TYPE"
    BY <1>1
  <1> QED
    BY <1>1, <1>2 DEF NetworkTold, PlaceTold

(* A failure tells nothing. *)
LEMMA FailureTold ==
    ASSUME NEW request, Fail(request) \/ info' = Nothing
    PROVE  NetworkTold' /\ info'.errno \in {"none", "SUCCESS", "GENERIC_FAILURE"}
  <1>1. info'.errno # "SUCCESS" /\ info'.errno \in {"none", "SUCCESS", "GENERIC_FAILURE"}
    BY DEF Fail, Nothing
  <1> QED
    BY <1>1 DEF NetworkTold

(* requestRegistrationState() tells what the modem knows, *)
LEMMA VoiceTold ==
    ASSUME NetworkInv, RequestRegistrationState
    PROVE  NetworkTold' /\ info'.errno \in {"none", "SUCCESS", "GENERIC_FAILURE"}
  <1>1. network \in Networks /\ network' = network
    BY DEF NetworkInv, NetworkTypeOK, RequestRegistrationState
  <1>2. CASE Fail("VOICE")
    BY <1>2, FailureTold
  <1>3. ASSUME NEW line \in CregLines, NEW r, r = Fields(line, VoiceFields(line)), ~r.ok, Fail("VOICE")
        PROVE  NetworkTold' /\ info'.errno \in {"none", "SUCCESS", "GENERIC_FAILURE"}
    BY <1>3, FailureTold
  <1>4. ASSUME NEW line \in CregLines, NEW r, r = Fields(line, VoiceFields(line)), NEW answer,
               Tell("VOICE", line, answer),
               answer = [stat |-> {r.values.stat}, lac |-> If(r.values.lac > 0, r.values.lac),
                         cid |-> If(r.values.cid > 0, r.values.cid), act |-> {}]
        PROVE  NetworkTold' /\ info'.errno \in {"none", "SUCCESS", "GENERIC_FAILURE"}
    <2>1. Reported(r, line, network.stat, network.place.lac, network.place.cid, network.act)
      BY <1>1, <1>4, LineReported
    <2>2. PICK v : v = r.values
      OBVIOUS
    <2>3. Answers(r.values, line, answer)
      BY <1>4 DEF Answers, If
    <2>4. PlaceTold(line, answer, network)
      BY <1>1, <2>1, <2>3, AnswerTold
    <2>5. info'.errno = "SUCCESS"
      BY <1>4 DEF Tell
    <2> QED
      BY <1>1, <1>4, <2>4, <2>5, PlaceIsTold
  <1> QED
    BY <1>2, <1>3, <1>4 DEF RequestRegistrationState

(* requestGprsRegistrationState() does, *)
LEMMA DataTold ==
    ASSUME NetworkInv, RequestGprsRegistrationState
    PROVE  NetworkTold' /\ info'.errno \in {"none", "SUCCESS", "GENERIC_FAILURE"}
  <1>1. network \in Networks /\ network' = network
    BY DEF NetworkInv, NetworkTypeOK, RequestGprsRegistrationState
  <1>2. CASE Fail("DATA")
    BY <1>2, FailureTold
  <1>3. ASSUME NEW line \in CgregLines, NEW r, r = Fields(line, DataFields(line)), ~r.ok, Fail("DATA")
        PROVE  NetworkTold' /\ info'.errno \in {"none", "SUCCESS", "GENERIC_FAILURE"}
    BY <1>3, FailureTold
  <1>4. ASSUME NEW line \in CgregLines, NEW r, r = Fields(line, DataFields(line)), NEW answer,
               Tell("DATA", line, answer),
               answer = [stat |-> {r.values.stat}, lac |-> If(r.values.lac >= 0, r.values.lac),
                         cid |-> If(r.values.cid >= 0, r.values.cid),
                         act |-> If(r.values.stat \in {1, 5}, r.values.act)]
        PROVE  NetworkTold' /\ info'.errno \in {"none", "SUCCESS", "GENERIC_FAILURE"}
    <2>1. Reported(r, line, network.stat, network.place.lac, network.place.cid, network.act)
      BY <1>1, <1>4, LineReported
    <2>2. Answers(r.values, line, answer)
      <3>1. PICK v : v = r.values
        OBVIOUS
      <3>2. v.lac \in Int /\ v.cid \in Int
        <4>1. Words(network.stat, network.place.lac, network.place.cid, network.act)
          BY <1>1, NetworkWords
        <4> QED
          BY <2>1, <3>1, <4>1 DEF Reported, Sees, Words
      <3>3. /\ answer.stat = {v.stat} /\ answer.lac = If(v.lac >= 0, v.lac)
            /\ answer.cid = If(v.cid >= 0, v.cid) /\ answer.act \subseteq {v.act}
        BY <1>4, <3>1 DEF If
      <3> QED
        BY <3>1, <3>2, <3>3 DEF Answers, If
    <2>3. PlaceTold(line, answer, network)
      BY <1>1, <2>1, <2>2, AnswerTold
    <2>4. info'.errno = "SUCCESS"
      BY <1>4 DEF Tell
    <2> QED
      BY <1>1, <1>4, <2>3, <2>4, PlaceIsTold
  <1> QED
    BY <1>2, <1>3, <1>4 DEF RequestGprsRegistrationState

(* and requestNeighboringCellIds(), of the own cell. *)
LEMMA CellsTold ==
    ASSUME NetworkInv, RequestNeighboringCellIds
    PROVE  NetworkTold' /\ info'.errno \in {"none", "SUCCESS", "GENERIC_FAILURE"}
  <1>1. network \in Networks /\ network' = network
    BY DEF NetworkInv, NetworkTypeOK, RequestNeighboringCellIds
  <1>2. CASE Fail("CELLS")
    BY <1>2, FailureTold
  <1>3. ASSUME NEW line \in CregLines, NEW r, r = Fields(line, CellsFields(line)), NEW answer,
               ~(Commas(line) < 2), Tell("CELLS", line, answer),
               answer = [stat |-> {}, lac |-> {r.values.lac}, cid |-> {r.values.cid}, act |-> {}]
        PROVE  NetworkTold' /\ info'.errno \in {"none", "SUCCESS", "GENERIC_FAILURE"}
    <2>1. Reported(r, line, network.stat, network.place.lac, network.place.cid, network.act)
      BY <1>1, <1>3, LineReported
    <2>2. r.values.lac # -1 /\ r.values.cid # -1
      BY <1>1, <1>3, <2>1, NetworkWords, ReportedOk
    <2>3. Answers(r.values, line, answer)
      BY <1>3, <2>2 DEF Answers
    <2>4. PlaceTold(line, answer, network)
      BY <1>1, <2>1, <2>3, AnswerTold
    <2>5. info'.errno = "SUCCESS"
      BY <1>3 DEF Tell
    <2> QED
      BY <1>1, <1>3, <2>4, <2>5, PlaceIsTold
  <1>4. Fail("CELLS") \/ \E line \in CregLines : \E r, answer :
           /\ r = Fields(line, CellsFields(line)) /\ ~(Commas(line) < 2) /\ Tell("CELLS", line, answer)
           /\ answer = [stat |-> {}, lac |-> {r.values.lac}, cid |-> {r.values.cid}, act |-> {}]
    BY DEF RequestNeighboringCellIds, CellsFields
  <1> QED
    BY <1>2, <1>3, <1>4

(* requestOrSendPDPContextList() tells of the contexts of the first list. *)
LEMMA ContextsTold ==
    ASSUME RequestOrSendPDPContextList
    PROVE  NetworkTold' /\ info'.errno \in {"none", "SUCCESS", "GENERIC_FAILURE"}
  <1>1. CASE Fail("CONTEXTS")
    BY <1>1, FailureTold
  <1>2. ASSUME NEW before \in ContextStates, NEW after \in ContextStates,
               Tell("CONTEXTS", before,
                  [i \in DOMAIN Listed(before) |->
                     [cid |-> Listed(before)[i], active |-> before[Listed(before)[i]] = "active",
                      status |-> IF \E j \in DOMAIN Listed(after) : Listed(after)[j] = Listed(before)[i]
                                 THEN 0 ELSE -1]])
        PROVE  NetworkTold' /\ info'.errno \in {"none", "SUCCESS", "GENERIC_FAILURE"}
    <2>1. PICK first : first = Listed(before)
      OBVIOUS
    <2>2. PICK second : second = Listed(after)
      OBVIOUS
    <2>3. PICK answer : answer = [i \in DOMAIN first |->
                     [cid |-> first[i], active |-> before[first[i]] = "active",
                      status |-> IF \E j \in DOMAIN second : second[j] = first[i] THEN 0 ELSE -1]]
      OBVIOUS
    <2>4. Tell("CONTEXTS", before, answer)
      BY <1>2, <2>1, <2>2, <2>3
    <2>5. /\ info'.request = "CONTEXTS" /\ info'.errno = "SUCCESS" /\ info'.said = before
          /\ info'.answer = answer
      BY <2>4 DEF Tell
    <2>6. /\ DOMAIN answer = DOMAIN first
          /\ \A i \in DOMAIN first : /\ answer[i].cid = first[i]
                                     /\ answer[i].active = (before[first[i]] = "active")
      BY <2>3
    <2>7. /\ \A i \in DOMAIN first : first[i] \in Cids /\ before[first[i]] # "undefined"
          /\ \A cid \in Cids : before[cid] # "undefined" => \E i \in DOMAIN first : first[i] = cid
      BY <2>1, ListedIs
    <2>8. {answer[i].cid : i \in DOMAIN answer} = {cid \in Cids : before[cid] # "undefined"}
      BY <2>6, <2>7
    <2>9. \A i \in DOMAIN answer : answer[i].active = (before[answer[i].cid] = "active")
      BY <2>6
    <2> QED
      BY <2>5, <2>8, <2>9 DEF NetworkTold
  <1> QED
    BY <1>1, <1>2 DEF RequestOrSendPDPContextList

(* requestGetPreferredNetworkType() tells a type that may be set;           *)
LEMMA PreferredTold ==
    ASSUME NetworkInv, RequestGetPreferredNetworkType
    PROVE  NetworkTold' /\ info'.errno \in {"none", "SUCCESS", "GENERIC_FAILURE"}
  <1>1. CASE Fail("GET_TYPE")
    BY <1>1, FailureTold
  <1>2. ASSUME NEW answer, answer = CASE sysCfg = 13 -> 1 [] sysCfg = 14 -> 0 [] OTHER -> 3,
               Tell("GET_TYPE", preferred, answer)
        PROVE  NetworkTold' /\ info'.errno \in {"none", "SUCCESS", "GENERIC_FAILURE"}
    <2>1. /\ info'.request = "GET_TYPE" /\ info'.errno = "SUCCESS" /\ info'.said = preferred
          /\ info'.answer = answer
      BY <1>2 DEF Tell
    <2>2. PICK type \in preferred : type \in 0 .. 3 /\ sysCfg = Configuration(type)
      BY DEF NetworkInv, NetworkTypeOK, Configured
    <2>3. answer = IF type = 2 THEN 3 ELSE type
      <3>1. type = 0 \/ type = 1 \/ type = 2 \/ type = 3
        BY <2>2
      <3> QED
        BY <1>2, <2>2, <3>1 DEF Configuration
    <2> QED
      BY <2>1, <2>2, <2>3 DEF NetworkTold
  <1> QED
    BY <1>1, <1>2 DEF RequestGetPreferredNetworkType

(* A type that may be set is added, whether the modem takes it or not.      *)
LEMMA MaybeSet ==
    ASSUME NetworkInv, NEW type \in 0 .. 3, MayBeSet(type)
    PROVE  Configured' /\ sysCfg' \in {2, 13, 14} /\ preferred' \subseteq 0 .. 3
  <1>1. Configured /\ sysCfg \in {2, 13, 14} /\ preferred \subseteq 0 .. 3
    BY DEF NetworkInv, NetworkTypeOK
  <1>2. preferred' = preferred \cup {type} /\ sysCfg' \in {sysCfg, Configuration(type)}
    BY DEF MayBeSet
  <1>3. Configured'
    BY <1>1, <1>2 DEF Configured, Configuration
  <1>4. Configuration(type) \in {2, 13, 14}
    BY DEF Configuration
  <1> QED
    BY <1>1, <1>2, <1>3, <1>4

(* requestSetPreferredNetworkType() sets both, or may have when it fails.   *)
LEMMA PreferredSet ==
    ASSUME NetworkInv, NEW type \in 0 .. 3, RequestSetPreferredNetworkType(type)
    PROVE  NetworkInv'
  <1>1. network' = network /\ network \in Networks
    BY DEF NetworkInv, NetworkTypeOK, RequestSetPreferredNetworkType
  <1>2. Configured' /\ sysCfg' \in {2, 13, 14} /\ preferred' \subseteq 0 .. 3
    <2>1. CASE MayBeSet(type)
      BY <2>1, MaybeSet
    <2>2. CASE sysCfg' = Configuration(type) /\ preferred' = {type}
      BY <2>2 DEF Configured, Configuration
    <2> QED
      BY <2>1, <2>2 DEF RequestSetPreferredNetworkType
  <1>3. CASE Fail("SET_TYPE")
    BY <1>1, <1>2, <1>3, FailureTold DEF NetworkInv, NetworkTypeOK
  <1>4. CASE Tell("SET_TYPE", type, type)
    <2>1. info'.request = "SET_TYPE" /\ info'.errno = "SUCCESS"
      BY <1>4 DEF Tell
    <2>2. NetworkTold'
      BY <2>1 DEF NetworkTold
    <2> QED
      BY <1>1, <1>2, <2>1, <2>2 DEF NetworkInv, NetworkTypeOK
  <1> QED
    BY <1>3, <1>4 DEF RequestSetPreferredNetworkType

(* Every step keeps the invariant. *)
LEMMA NetworkKept ==
    ASSUME NetworkInv, [NetworkNext]_networkVars
    PROVE  NetworkInv'
  <1>1. /\ network \in Networks /\ sysCfg \in {2, 13, 14} /\ preferred \subseteq 0 .. 3
        /\ Configured
    BY DEF NetworkInv, NetworkTypeOK
  <1>2. ASSUME UNCHANGED <<network, sysCfg, preferred>>, NetworkTold',
               info'.errno \in {"none", "SUCCESS", "GENERIC_FAILURE"}
        PROVE  NetworkInv'
    BY <1>1, <1>2 DEF NetworkInv, NetworkTypeOK, Configured
  <1>3. CASE Take
    BY <1>2, <1>3, FailureTold DEF Take
  <1>4. CASE info = Nothing /\ Move
    <2>1. info'.errno = "none" /\ network' \in Networks /\ UNCHANGED <<sysCfg, preferred>>
      BY <1>4 DEF Move, Nothing
    <2>2. NetworkTold'
      BY <2>1 DEF NetworkTold
    <2> QED
      BY <1>1, <2>1, <2>2 DEF NetworkInv, NetworkTypeOK, Configured
  <1>5. CASE RequestRegistrationState
    BY <1>2, <1>5, VoiceTold DEF RequestRegistrationState
  <1>6. CASE RequestGprsRegistrationState
    BY <1>2, <1>6, DataTold DEF RequestGprsRegistrationState
  <1>7. CASE RequestNeighboringCellIds
    BY <1>2, <1>7, CellsTold DEF RequestNeighboringCellIds
  <1>8. CASE RequestOrSendPDPContextList
    BY <1>2, <1>8, ContextsTold DEF RequestOrSendPDPContextList
  <1>9. CASE RequestGetPreferredNetworkType
    BY <1>2, <1>9, PreferredTold DEF RequestGetPreferredNetworkType
  <1>10. ASSUME NEW type \in 0 .. 3, RequestSetPreferredNetworkType(type)
         PROVE  NetworkInv'
    BY <1>10, PreferredSet
  <1>11. CASE UNCHANGED networkVars
    <2>1. network' = network /\ sysCfg' = sysCfg /\ preferred' = preferred /\ info' = info
      BY <1>11 DEF networkVars
    <2>2. NetworkTold' /\ info'.errno \in {"none", "SUCCESS", "GENERIC_FAILURE"}
      BY <2>1 DEF NetworkInv, NetworkTypeOK, NetworkTold
    <2> QED
      BY <1>2, <2>1, <2>2
  <1>12. CASE info = Nothing /\ InitializeSysCfg
    <2>1. network' = network /\ info' = info /\ info.errno = "none"
      BY <1>12 DEF InitializeSysCfg, Nothing
    <2>2. Configured' /\ sysCfg' \in {2, 13, 14} /\ preferred' \subseteq 0 .. 3
      BY <1>12, MaybeSet DEF InitializeSysCfg
    <2>3. NetworkTold'
      BY <2>1 DEF NetworkTold
    <2> QED
      BY <1>1, <2>1, <2>2, <2>3 DEF NetworkInv, NetworkTypeOK
  <1> QED
    BY <1>3, <1>4, <1>5, <1>6, <1>7, <1>8, <1>9, <1>10, <1>11, <1>12 DEF NetworkNext
=============================================================================
