--------------------------- MODULE ScriptParserProofs ---------------------------
(* The parser, for any functions in progress: a script it reports no error of *)
(* closes the braces it opens.  First what every parse function does about    *)
(* braces, by its text; then the machine.                                     *)
EXTENDS ScriptParser, FiniteSetTheorems, SequenceTheorems, TLAPS

Braces == {"lbrace", "rbrace"}
OpenBrace == Expect("lbrace")
CloseBrace == Expect("rbrace")

\* Functions that start by dropping a token: they are only called at a keyword,
\* or picked by one that is.
SkipFirst == {"audience", "on_begin", "on_complete", "on_fail", "storyline_end", "conditional_route",
              "required_badges", "lms_content_gen", "score_rule"}
SkipOther == {"score_test"}

IsSeq(s) == \E S : s \in Seq(S)
Ops == {"expect", "skip", "take", "maybe", "report", "return", "break", "call", "loop", "pick"}
Fits(i) ==
    /\ i = I(i.op, i.arg) /\ i.op \in Ops
    /\ i.op = "expect" => i.arg \in {{"lbrace"}, {"rbrace"}} \/ i.arg \cap Braces = {}
    /\ i.op = "maybe" => i.arg \cap Braces = {}
    /\ i.op \in {"call", "pick"} => \E f \in DOMAIN Codes : i.arg = {f}
    /\ i.op = "loop" => \E f \in (DOMAIN Codes) \ SkipOther : i.arg = {f}

\* What is safe while there is no error only if the token is no brace.
Guarded(i) ==
    \/ i.op \in {"skip", "return", "break"}
    \/ i.op = "call" /\ i.arg \cap SkipFirst # {}
    \/ i.op = "pick" /\ i.arg \cap SkipOther # {}
Unguarded(s) == s # <<>> => ~Guarded(s[1])

\* What is left of a function: the brace it is about to open it closes, two
\* instructions on; and what drops tokens or leaves it comes first or after an
\* error.
Opens(s) == \A i \in DOMAIN s : s[i] = OpenBrace => i + 2 \in DOMAIN s /\ s[i + 2] = CloseBrace
Careful(s) == \A i \in DOMAIN s : i > 1 /\ Guarded(s[i]) => \E j \in 1 .. i - 1 : s[j].op = "report"
LeftFits(s) == IsSeq(s) /\ (\A i \in DOMAIN s : Fits(s[i])) /\ Opens(s) /\ Careful(s)

\* What a function has for a token: also, it closes only what it opened.
Closes(s) == \A i \in DOMAIN s : s[i] = CloseBrace => i - 2 \in DOMAIN s /\ s[i - 2] = OpenBrace
ProgramFits(s) ==
    /\ LeftFits(s) /\ Closes(s)
    /\ s # <<>> => s[1].op \notin {"return", "break"}
TableFits(T) ==
    \A t \in DOMAIN T : T[t] # <<>> /\ ProgramFits(T[t]) /\ (t \in Braces => Unguarded(T[t]))
CodeFits(f) ==
    /\ ProgramFits(Codes[f].items) /\ (f \notin SkipFirst => Unguarded(Codes[f].items))
    /\ ProgramFits(Codes[f].other) /\ (f \notin SkipOther => Unguarded(Codes[f].other))
    /\ TableFits(Codes[f].table)

--------------------------------------------------------------------------------
(* Programs *)

\* The places, from the end, of the braces that are open when s comes to be done.
Due(s) ==
    {k \in 0 .. Len(s) - 1 : /\ s[Len(s) - k] = CloseBrace
                             /\ k + 2 < Len(s) => s[Len(s) - (k + 2)] # OpenBrace}

LEMMA FitDue ==
    ASSUME NEW s, ProgramFits(s)
    PROVE  Due(s) = {}
<1>1. Len(s) \in Nat /\ DOMAIN s = 1 .. Len(s)
  BY DEF ProgramFits, LeftFits, IsSeq
<1>2. ASSUME NEW k \in 0 .. Len(s) - 1, s[Len(s) - k] = CloseBrace
      PROVE  k + 2 < Len(s) /\ s[Len(s) - (k + 2)] = OpenBrace
  <2>1. Len(s) - k \in DOMAIN s
    BY <1>1
  <2>2. (Len(s) - k) - 2 \in DOMAIN s /\ s[(Len(s) - k) - 2] = OpenBrace
    BY <2>1, <1>2 DEF ProgramFits, Closes
  <2>3. (Len(s) - k) - 2 = Len(s) - (k + 2)
    BY <1>1
  <2> QED
    BY <1>1, <2>2, <2>3
<1> QED
  BY <1>2 DEF Due

LEMMA TailPlaces ==
    ASSUME NEW s, IsSeq(s), s # <<>>
    PROVE  /\ Len(s) \in Nat \ {0} /\ Len(Tail(s)) = Len(s) - 1 /\ IsSeq(Tail(s))
           /\ DOMAIN s = 1 .. Len(s) /\ DOMAIN Tail(s) = 1 .. Len(s) - 1
           /\ \A i \in 1 .. Len(s) - 1 : Tail(s)[i] = s[i + 1]
           /\ Head(s) = s[1]
<1>1. PICK S : s \in Seq(S)
  BY DEF IsSeq
<1>2. Tail(s) \in Seq(S)
  BY <1>1
<1> QED
  BY <1>1, <1>2 DEF IsSeq

LEMMA LeftTail ==
    ASSUME NEW s, LeftFits(s), s # <<>>, s[1].op # "report"
    PROVE  LeftFits(Tail(s)) /\ Unguarded(Tail(s))
<1> DEFINE r == Tail(s)
<1>1. IsSeq(s)
  BY DEF LeftFits
<1>2. /\ Len(s) \in Nat \ {0} /\ Len(r) = Len(s) - 1 /\ IsSeq(r)
      /\ DOMAIN s = 1 .. Len(s) /\ DOMAIN r = 1 .. Len(s) - 1
      /\ \A i \in 1 .. Len(s) - 1 : r[i] = s[i + 1]
  BY <1>1, TailPlaces
<1> HIDE DEF r
<1>3. ASSUME NEW i \in DOMAIN r, r[i] = OpenBrace PROVE i + 2 \in DOMAIN r /\ r[i + 2] = CloseBrace
  <2>1. i + 1 \in DOMAIN s /\ s[i + 1] = OpenBrace
    BY <1>2, <1>3
  <2>2. (i + 1) + 2 \in DOMAIN s /\ s[(i + 1) + 2] = CloseBrace
    BY <2>1 DEF LeftFits, Opens
  <2>3. i + 2 \in 1 .. Len(s) - 1 /\ (i + 1) + 2 = (i + 2) + 1
    BY <1>2, <2>2
  <2> QED
    BY <1>2, <2>2, <2>3
<1>4. ASSUME NEW i \in DOMAIN r, Guarded(r[i]) PROVE i > 1 /\ \E j \in 1 .. i - 1 : r[j].op = "report"
  <2>1. i + 1 \in DOMAIN s /\ i + 1 > 1 /\ Guarded(s[i + 1])
    BY <1>2, <1>4
  <2>2. PICK j \in 1 .. (i + 1) - 1 : s[j].op = "report"
    BY <2>1 DEF LeftFits, Careful
  <2>3. j # 1
    BY <2>2
  <2>4. j - 1 \in 1 .. i - 1 /\ r[j - 1] = s[j]
    BY <1>2, <2>2, <2>3
  <2> QED
    BY <1>2, <2>2, <2>4
<1>5. LeftFits(r)
  <2>1. ASSUME NEW i \in DOMAIN r PROVE Fits(r[i])
    <3>1. i + 1 \in DOMAIN s /\ r[i] = s[i + 1]
      BY <1>2
    <3> QED
      BY <3>1 DEF LeftFits
  <2> QED
    BY <2>1, <1>2, <1>3, <1>4 DEF LeftFits, Opens, Careful
<1>6. Unguarded(r)
  <2>1. CASE r = <<>>
    BY <2>1 DEF Unguarded
  <2>2. CASE r # <<>>
    <3>1. 1 \in DOMAIN r
      BY <2>2, <1>2 DEF IsSeq
    <3> QED
      BY <3>1, <1>4 DEF Unguarded
  <2> QED
    BY <2>1, <2>2
<1> QED
  BY <1>5, <1>6 DEF r

\* Doing an instruction opens a brace, closes one, or leaves them as they are.
LEMMA DueTail ==
    ASSUME NEW s, LeftFits(s), s # <<>>
    PROVE  /\ s[1] = OpenBrace => /\ Len(s) - 3 \in Nat /\ Len(s) - 3 \notin Due(s)
                                  /\ Due(Tail(s)) = Due(s) \cup {Len(s) - 3}
           /\ s[1] = CloseBrace => /\ Len(s) - 1 \in Nat /\ Len(s) - 1 \in Due(s)
                                   /\ Due(Tail(s)) = Due(s) \ {Len(s) - 1}
           /\ s[1] \notin {OpenBrace, CloseBrace} => Due(Tail(s)) = Due(s)
<1> DEFINE r == Tail(s)
           n == Len(s)
<1>1. IsSeq(s)
  BY DEF LeftFits
<1>2. /\ n \in Nat \ {0} /\ Len(r) = n - 1
      /\ DOMAIN s = 1 .. n /\ \A i \in 1 .. n - 1 : r[i] = s[i + 1]
  BY <1>1, TailPlaces
<1>3. ASSUME NEW k \in 0 .. n - 2 PROVE r[(n - 1) - k] = s[n - k]
  <2>1. (n - 1) - k \in 1 .. n - 1 /\ ((n - 1) - k) + 1 = n - k
    BY <1>2
  <2> QED
    BY <2>1, <1>2
<1>4. Due(r) = {k \in 0 .. (n - 1) - 1 : /\ r[(n - 1) - k] = CloseBrace
                                         /\ k + 2 < n - 1 => r[(n - 1) - (k + 2)] # OpenBrace}
  BY <1>2 DEF Due
<1>5. Due(s) = {k \in 0 .. n - 1 : s[n - k] = CloseBrace /\ (k + 2 < n => s[n - (k + 2)] # OpenBrace)}
  BY DEF Due
<1> HIDE DEF r, n
<1>6. \A k : k \in Due(r) <=> /\ k \in 0 .. n - 2 /\ s[n - k] = CloseBrace
                              /\ k + 2 < n - 1 => s[n - (k + 2)] # OpenBrace
  <2>1. \A k : k \in Due(r) <=> /\ k \in 0 .. (n - 1) - 1 /\ r[(n - 1) - k] = CloseBrace
                                /\ k + 2 < n - 1 => r[(n - 1) - (k + 2)] # OpenBrace
    BY <1>4
  <2>2. (n - 1) - 1 = n - 2
    BY <1>2
  <2>3. \A k \in 0 .. n - 2 : k + 2 < n - 1 => k + 2 \in 0 .. n - 2
    BY <1>2
  <2> QED
    BY <2>1, <2>2, <2>3, <1>3
<1>7. \A k : k \in Due(s) <=> /\ k \in 0 .. n - 1 /\ s[n - k] = CloseBrace
                              /\ k + 2 < n => s[n - (k + 2)] # OpenBrace
  BY <1>5
<1>8. OpenBrace # CloseBrace
  BY DEF OpenBrace, CloseBrace, Expect, I
<1>9. ASSUME s[1] = OpenBrace
      PROVE  n - 3 \in Nat /\ n - 3 \notin Due(s) /\ Due(r) = Due(s) \cup {n - 3}
  <2>1. 1 + 2 \in DOMAIN s /\ s[1 + 2] = CloseBrace
    BY <1>2, <1>9 DEF LeftFits, Opens
  <2>2. n - 3 \in Nat /\ n - 3 \in 0 .. n - 2 /\ n - (n - 3) = 3 /\ n - ((n - 3) + 2) = 1 /\ (n - 3) + 2 = n - 1
    <3>1. n \in Nat /\ n >= 3
      BY <2>1, <1>2
    <3>2. n - (n - 1) = 1 /\ (n - 3) + 2 = n - 1
      BY <3>1
    <3>3. n - ((n - 3) + 2) = 1
      BY <3>2
    <3>4. n - 3 \in Nat /\ n - 3 \in 0 .. n - 2 /\ n - (n - 3) = 3
      BY <3>1
    <3> QED
      BY <3>2, <3>3, <3>4
  <2>3. n - 3 \notin Due(s) /\ n - 3 \in Due(r)
    BY <1>2, <1>6, <1>7, <1>9, <2>1, <2>2
  <2>4. ASSUME NEW k, k # n - 3 PROVE k \in Due(r) <=> k \in Due(s)
    <3>1. k \in 0 .. n - 1 => (k = n - 1 \/ k \in 0 .. n - 2) /\ (k + 2 < n <=> k + 2 < n - 1 \/ k = n - 3)
      BY <1>2
    <3>2. n - (n - 1) = 1
      BY <1>2
    <3>3. k = n - 1 => k \notin Due(s)
      BY <1>7, <1>8, <1>9, <3>2
    <3>4. k \in 0 .. n - 2 => k \in 0 .. n - 1
      BY <1>2
    <3> QED
      BY <1>2, <1>6, <1>7, <2>4, <3>1, <3>3, <3>4
  <2> QED
    BY <2>2, <2>3, <2>4
<1>10. ASSUME s[1] # OpenBrace, NEW k \in 0 .. n - 2 PROVE k \in Due(r) <=> k \in Due(s)
  <2>1. k \in 0 .. n - 1 /\ (k + 2 < n <=> k + 2 < n - 1 \/ k = n - 3)
    BY <1>2
  <2>2. k = n - 3 => s[n - (k + 2)] # OpenBrace
    <3>1. n \in Nat
      BY <1>2
    <3>2. n - (n - 1) = 1 /\ (n - 3) + 2 = n - 1
      BY <3>1
    <3>3. k = n - 3 => n - (k + 2) = 1
      BY <3>2
    <3> QED
      BY <3>3, <1>10
  <2> QED
    BY <1>6, <1>7, <2>1, <2>2
<1>11. ASSUME s[1] = CloseBrace PROVE n - 1 \in Nat /\ n - 1 \in Due(s) /\ Due(r) = Due(s) \ {n - 1}
  <2>1. n - 1 \in Nat /\ n - 1 \in 0 .. n - 1 /\ n - (n - 1) = 1 /\ ~((n - 1) + 2 < n)
    BY <1>2
  <2>2. n - 1 \in Due(s)
    BY <1>7, <1>11, <2>1
  <2>3. \A k : k \in Due(r) => k \in 0 .. n - 2
    BY <1>6
  <2>4. \A k : k \in Due(s) => k = n - 1 \/ k \in 0 .. n - 2
    BY <1>2, <1>7
  <2>5. n - 1 \notin 0 .. n - 2
    BY <1>2
  <2> QED
    BY <1>8, <1>10, <1>11, <2>1, <2>2, <2>3, <2>4, <2>5
<1>12. ASSUME s[1] \notin {OpenBrace, CloseBrace} PROVE Due(r) = Due(s)
  <2>1. n - (n - 1) = 1
    BY <1>2
  <2>2. n - 1 \notin Due(s)
    BY <1>7, <1>12, <2>1
  <2>3. \A k : k \in Due(s) => k \in 0 .. n - 2
    BY <1>2, <1>7, <2>2
  <2>4. \A k : k \in Due(r) => k \in 0 .. n - 2
    BY <1>6
  <2> QED
    BY <1>10, <1>12, <2>3, <2>4
<1> QED
  BY <1>9, <1>11, <1>12 DEF r, n

LEMMA ConcatPlaces ==
    ASSUME NEW c, IsSeq(c), NEW r, IsSeq(r)
    PROVE  /\ Len(c) \in Nat /\ Len(r) \in Nat /\ DOMAIN c = 1 .. Len(c) /\ DOMAIN r = 1 .. Len(r)
           /\ IsSeq(c \o r) /\ Len(c \o r) = Len(c) + Len(r) /\ DOMAIN (c \o r) = 1 .. Len(c) + Len(r)
           /\ \A i \in 1 .. Len(c) + Len(r) : (c \o r)[i] = IF i <= Len(c) THEN c[i] ELSE r[i - Len(c)]
<1>1. PICK S : c \in Seq(S)
  BY DEF IsSeq
<1>2. PICK T : r \in Seq(T)
  BY DEF IsSeq
<1>3. c \in Seq(S \cup T) /\ r \in Seq(S \cup T)
  BY <1>1, <1>2
<1>4. c \o r \in Seq(S \cup T)
  BY <1>3
<1> QED
  BY <1>3, <1>4 DEF IsSeq

\* Putting what a token asks for before the rest changes nothing in the rest.
LEMMA Join ==
    ASSUME NEW c, ProgramFits(c), NEW r, LeftFits(r), Unguarded(r)
    PROVE  /\ LeftFits(c \o r) /\ Due(c \o r) = Due(r)
           /\ c = <<>> => c \o r = r
           /\ c # <<>> => c \o r # <<>> /\ (c \o r)[1] = c[1]
<1> DEFINE s == c \o r
           m == Len(c)
           n == Len(r)
<1>1. IsSeq(c) /\ IsSeq(r)
  BY DEF ProgramFits, LeftFits
<1>2. /\ m \in Nat /\ n \in Nat /\ DOMAIN c = 1 .. m /\ DOMAIN r = 1 .. n
      /\ IsSeq(s) /\ Len(s) = m + n /\ DOMAIN s = 1 .. m + n
      /\ \A i \in 1 .. m + n : s[i] = IF i <= m THEN c[i] ELSE r[i - m]
  BY <1>1, ConcatPlaces
<1>3. (c = <<>> => s = r) /\ (c # <<>> => m > 0) /\ (r # <<>> => n > 0)
  BY <1>1 DEF IsSeq
<1> HIDE DEF s, m, n
<1>4. /\ \A i \in 1 .. m : s[i] = c[i] /\ i \in 1 .. m + n
      /\ \A i \in 1 .. n : s[m + i] = r[i] /\ m + i \in 1 .. m + n
  <2>1. ASSUME NEW i \in 1 .. m PROVE s[i] = c[i] /\ i \in 1 .. m + n
    BY <1>2
  <2>2. ASSUME NEW i \in 1 .. n PROVE s[m + i] = r[i] /\ m + i \in 1 .. m + n
    <3>1. m + i \in 1 .. m + n /\ ~(m + i <= m) /\ (m + i) - m = i
      BY <1>2
    <3> QED
      BY <3>1, <1>2
  <2> QED
    BY <2>1, <2>2
<1>5. \A i \in 1 .. m + n : i \in 1 .. m \/ \E j \in 1 .. n : i = m + j
  <2>1. ASSUME NEW i \in 1 .. m + n, i \notin 1 .. m PROVE i - m \in 1 .. n /\ i = m + (i - m)
    BY <1>2, <2>1
  <2> QED
    BY <2>1
<1>6. Opens(s)
  <2>1. ASSUME NEW i \in 1 .. m, s[i] = OpenBrace PROVE i + 2 \in DOMAIN s /\ s[i + 2] = CloseBrace
    <3>1. i + 2 \in 1 .. m /\ c[i + 2] = CloseBrace
      BY <1>2, <1>4, <2>1 DEF ProgramFits, LeftFits, Opens
    <3> QED
      BY <3>1, <1>2, <1>4
  <2>2. ASSUME NEW j \in 1 .. n, s[m + j] = OpenBrace PROVE (m + j) + 2 \in DOMAIN s /\ s[(m + j) + 2] = CloseBrace
    <3>1. j + 2 \in 1 .. n /\ r[j + 2] = CloseBrace
      BY <1>2, <1>4, <2>2 DEF LeftFits, Opens
    <3>2. (m + j) + 2 = m + (j + 2)
      BY <1>2
    <3> QED
      BY <3>1, <3>2, <1>2, <1>4
  <2>3. ASSUME NEW i \in DOMAIN s, s[i] = OpenBrace PROVE i + 2 \in DOMAIN s /\ s[i + 2] = CloseBrace
    <3>1. i \in 1 .. m + n
      BY <1>2
    <3>2. CASE i \in 1 .. m
      BY <3>2, <2>1, <2>3
    <3>3. ASSUME NEW j \in 1 .. n, i = m + j PROVE i + 2 \in DOMAIN s /\ s[i + 2] = CloseBrace
      BY <3>3, <2>2, <2>3
    <3> QED
      BY <3>1, <3>2, <3>3, <1>5
  <2> QED
    BY <2>3 DEF Opens
<1>7. Careful(s)
  <2>1. ASSUME NEW i \in 1 .. m, i > 1, Guarded(s[i]) PROVE \E j \in 1 .. i - 1 : s[j].op = "report"
    <3>1. PICK j \in 1 .. i - 1 : c[j].op = "report"
      BY <1>2, <1>4, <2>1 DEF ProgramFits, LeftFits, Careful
    <3>2. j \in 1 .. m
      BY <1>2
    <3> QED
      BY <3>1, <3>2, <1>4
  <2>2. ASSUME NEW i \in 1 .. n, Guarded(s[m + i]) PROVE \E j \in 1 .. (m + i) - 1 : s[j].op = "report"
    <3>1. Guarded(r[i])
      BY <1>4, <2>2
    <3>2. i > 1
      <4>1. r # <<>>
        BY <1>2, <1>3, <2>2
      <4>2. i # 1
        BY <3>1, <4>1 DEF Unguarded
      <4> QED
        BY <4>2, <1>2
    <3>3. PICK j \in 1 .. i - 1 : r[j].op = "report"
      BY <1>2, <3>1, <3>2 DEF LeftFits, Careful
    <3>4. j \in 1 .. n /\ m + j \in 1 .. (m + i) - 1
      BY <1>2
    <3> QED
      BY <3>3, <3>4, <1>4
  <2>3. ASSUME NEW i \in DOMAIN s, i > 1, Guarded(s[i]) PROVE \E j \in 1 .. i - 1 : s[j].op = "report"
    <3>1. i \in 1 .. m + n
      BY <1>2
    <3>2. CASE i \in 1 .. m
      BY <3>2, <2>1, <2>3
    <3>3. ASSUME NEW j \in 1 .. n, i = m + j PROVE \E l \in 1 .. i - 1 : s[l].op = "report"
      BY <3>3, <2>2, <2>3
    <3> QED
      BY <3>1, <3>2, <3>3, <1>5
  <2> QED
    BY <2>3 DEF Careful
<1>8. \A k \in 0 .. n - 1 : s[(m + n) - k] = r[n - k]
  <2>1. ASSUME NEW k \in 0 .. n - 1 PROVE n - k \in 1 .. n /\ (m + n) - k = m + (n - k)
    BY <1>2
  <2> QED
    BY <2>1, <1>4
<1>9. ASSUME NEW k \in n .. (m + n) - 1 PROVE (m + n) - k \in 1 .. m /\ s[(m + n) - k] = c[(m + n) - k]
  <2>1. (m + n) - k \in 1 .. m
    BY <1>2
  <2> QED
    BY <2>1, <1>4
<1>10. \A k : k \in Due(s) <=> /\ k \in 0 .. (m + n) - 1 /\ s[(m + n) - k] = CloseBrace
                               /\ k + 2 < m + n => s[(m + n) - (k + 2)] # OpenBrace
  BY <1>2 DEF Due
<1>11. \A k : k \in Due(r) <=> /\ k \in 0 .. n - 1 /\ r[n - k] = CloseBrace
                               /\ k + 2 < n => r[n - (k + 2)] # OpenBrace
  BY DEF Due, n
<1>12. ASSUME NEW k \in n .. (m + n) - 1 PROVE k \notin Due(s)
  <2>1. SUFFICES ASSUME s[(m + n) - k] = CloseBrace
                 PROVE  k + 2 < m + n /\ s[(m + n) - (k + 2)] = OpenBrace
    BY <1>10
  <2>2. /\ ((m + n) - k) - 2 \in 1 .. m /\ c[((m + n) - k) - 2] = OpenBrace
    BY <1>2, <1>9, <2>1 DEF ProgramFits, Closes
  <2>3. ((m + n) - k) - 2 = (m + n) - (k + 2) /\ k + 2 < m + n
    BY <1>2, <2>2
  <2> QED
    BY <2>2, <2>3, <1>4
<1>13. ASSUME NEW k \in 0 .. n - 1 PROVE k \in Due(s) <=> k \in Due(r)
  <2>1. k \in 0 .. (m + n) - 1 /\ s[(m + n) - k] = r[n - k]
    BY <1>2, <1>8
  <2>2. ASSUME k + 2 < n PROVE k + 2 < m + n /\ s[(m + n) - (k + 2)] = r[n - (k + 2)]
    <3>1. k + 2 \in 0 .. n - 1 /\ k + 2 < m + n
      BY <1>2, <2>2
    <3> QED
      BY <3>1, <1>8
  <2>3. ASSUME ~(k + 2 < n), k + 2 < m + n PROVE s[(m + n) - (k + 2)] # OpenBrace
    <3>1. k + 2 \in n .. (m + n) - 1
      BY <1>2, <2>3
    <3>2. (m + n) - (k + 2) \in 1 .. m /\ s[(m + n) - (k + 2)] = c[(m + n) - (k + 2)]
      BY <3>1, <1>9
    <3>3. c[(m + n) - (k + 2)] = OpenBrace => ((m + n) - (k + 2)) + 2 \in 1 .. m
      BY <3>2, <1>2 DEF ProgramFits, LeftFits, Opens
    <3>4. ~(((m + n) - (k + 2)) + 2 \in 1 .. m)
      <4>1. ((m + n) - (k + 2)) + 2 = (m + n) - k
        BY <1>2
      <4>2. (m + n) - k > m
        BY <1>2
      <4> QED
        BY <4>1, <4>2, <1>2
    <3> QED
      BY <3>2, <3>3, <3>4
  <2> QED
    BY <1>10, <1>11, <2>1, <2>2, <2>3
<1>14. Due(s) = Due(r)
  <2>1. \A k : k \in Due(s) => k \in 0 .. n - 1 \/ k \in n .. (m + n) - 1
    BY <1>2, <1>10
  <2>2. \A k : k \in Due(r) => k \in 0 .. n - 1
    BY <1>11
  <2> QED
    BY <2>1, <2>2, <1>12, <1>13
<1>15. c # <<>> => s # <<>> /\ s[1] = c[1]
  <2>1. c # <<>> => 1 \in 1 .. m
    BY <1>2, <1>3
  <2>2. c # <<>> => Len(s) # 0
    BY <1>2, <1>3
  <2>3. s = <<>> => Len(s) = 0
    OBVIOUS
  <2> QED
    BY <2>1, <2>2, <2>3, <1>4
<1>16. \A i \in DOMAIN s : Fits(s[i])
  <2>1. \A i \in 1 .. m : Fits(s[i])
    BY <1>2, <1>4 DEF ProgramFits, LeftFits
  <2>2. \A j \in 1 .. n : Fits(s[m + j])
    BY <1>2, <1>4 DEF LeftFits
  <2> QED
    BY <1>2, <1>5, <2>1, <2>2
<1> QED
  BY <1>2, <1>3, <1>6, <1>7, <1>14, <1>15, <1>16 DEF LeftFits, s
--------------------------------------------------------------------------------
(* The parse functions, by their text *)

\* Instructions that open and close nothing; those that may come first, and those
\* that may come later.
Plain(i) == Fits(i) /\ i \notin {OpenBrace, CloseBrace}
First(i) == Plain(i) /\ i.op \notin {"return", "break"}
Later(i) == Plain(i) /\ ~Guarded(i)

LEMMA Concat ==
    ASSUME NEW c, ProgramFits(c), NEW d, ProgramFits(d), Unguarded(d)
    PROVE  ProgramFits(c \o d) /\ (Unguarded(c) => Unguarded(c \o d)) /\ (d # <<>> => c \o d # <<>>)
<1> DEFINE s == c \o d
           m == Len(c)
           n == Len(d)
<1>1. IsSeq(c) /\ IsSeq(d)
  BY DEF ProgramFits, LeftFits
<1>2. /\ m \in Nat /\ n \in Nat /\ DOMAIN c = 1 .. m /\ DOMAIN d = 1 .. n
      /\ IsSeq(s) /\ Len(s) = m + n /\ DOMAIN s = 1 .. m + n
      /\ \A i \in 1 .. m + n : s[i] = IF i <= m THEN c[i] ELSE d[i - m]
  BY <1>1, ConcatPlaces
<1>3. LeftFits(s) /\ (c = <<>> => s = d) /\ (c # <<>> => s # <<>> /\ s[1] = c[1])
  BY Join DEF ProgramFits
<1>4. d # <<>> => n > 0
  BY <1>1 DEF IsSeq
<1>5. s = <<>> => Len(s) = 0
  OBVIOUS
<1> HIDE DEF s, m, n
<1>6. ASSUME NEW i \in DOMAIN s, s[i] = CloseBrace PROVE i - 2 \in DOMAIN s /\ s[i - 2] = OpenBrace
  <2>1. CASE i <= m
    <3>1. i \in DOMAIN c /\ c[i] = CloseBrace
      BY <1>2, <1>6, <2>1
    <3>2. i - 2 \in DOMAIN c /\ c[i - 2] = OpenBrace
      BY <3>1 DEF ProgramFits, Closes
    <3> QED
      BY <1>2, <3>2
  <2>2. CASE ~(i <= m)
    <3>1. i - m \in DOMAIN d /\ d[i - m] = CloseBrace
      BY <1>2, <1>6, <2>2
    <3>2. (i - m) - 2 \in DOMAIN d /\ d[(i - m) - 2] = OpenBrace
      BY <3>1 DEF ProgramFits, Closes
    <3>3. (i - m) - 2 = (i - 2) - m /\ i - 2 \in 1 .. m + n /\ ~(i - 2 <= m)
      BY <1>2, <3>2
    <3>4. s[i - 2] = d[(i - 2) - m]
      BY <1>2, <3>3
    <3> QED
      BY <1>2, <3>2, <3>3, <3>4
  <2> QED
    BY <2>1, <2>2
<1>7. ProgramFits(s)
  BY <1>3, <1>6 DEF ProgramFits, Closes
<1> QED
  BY <1>2, <1>3, <1>4, <1>5, <1>7 DEF Unguarded, s

\* One instruction after the other.
LEMMA Row ==
    ASSUME NEW s, IsSeq(s), s # <<>>, First(s[1]), \A i \in DOMAIN s : i # 1 => Later(s[i])
    PROVE  ProgramFits(s) /\ (Later(s[1]) => Unguarded(s))
<1>1. Len(s) \in Nat \ {0} /\ DOMAIN s = 1 .. Len(s)
  BY TailPlaces
<1>2. \A i \in DOMAIN s : Fits(s[i]) /\ s[i] # OpenBrace /\ s[i] # CloseBrace /\ (i > 1 => ~Guarded(s[i]))
  BY <1>1 DEF First, Later, Plain
<1> QED
  BY <1>1, <1>2 DEF ProgramFits, LeftFits, Opens, Careful, Closes, First, Later, Unguarded

LEMMA Row1 ==
    ASSUME NEW a, First(a)
    PROVE  ProgramFits(<<a>>) /\ <<a>> # <<>> /\ (Later(a) => Unguarded(<<a>>))
<1> DEFINE s == <<a>>
<1>1. s \in Seq({a}) /\ s # <<>> /\ DOMAIN s = 1 .. 1
  OBVIOUS
<1>2. s[1] = a
  OBVIOUS
<1> HIDE DEF s
<1>3. \A i \in DOMAIN s : i # 1 => Later(s[i])
  BY <1>1, <1>2
<1> QED
  BY <1>1, <1>2, <1>3, Row DEF IsSeq, s

LEMMA Row2 ==
    ASSUME NEW a, First(a), NEW b, Later(b)
    PROVE  ProgramFits(<<a, b>>) /\ <<a, b>> # <<>> /\ (Later(a) => Unguarded(<<a, b>>))
<1> DEFINE s == <<a, b>>
<1>1. s \in Seq({a, b}) /\ s # <<>> /\ DOMAIN s = 1 .. 2
  OBVIOUS
<1>2. s[1] = a /\ s[2] = b
  OBVIOUS
<1> HIDE DEF s
<1>3. \A i \in DOMAIN s : i # 1 => Later(s[i])
  BY <1>1, <1>2
<1> QED
  BY <1>1, <1>2, <1>3, Row DEF IsSeq, s

LEMMA Row3 ==
    ASSUME NEW a, First(a), NEW b, Later(b), NEW c, Later(c)
    PROVE  ProgramFits(<<a, b, c>>) /\ <<a, b, c>> # <<>> /\ (Later(a) => Unguarded(<<a, b, c>>))
<1> DEFINE s == <<a, b, c>>
<1>1. s \in Seq({a, b, c}) /\ s # <<>> /\ DOMAIN s = 1 .. 3
  OBVIOUS
<1>2. s[1] = a /\ s[2] = b /\ s[3] = c
  OBVIOUS
<1> HIDE DEF s
<1>3. \A i \in DOMAIN s : i # 1 => Later(s[i])
  BY <1>1, <1>2
<1> QED
  BY <1>1, <1>2, <1>3, Row DEF IsSeq, s

LEMMA Row4 ==
    ASSUME NEW a, First(a), NEW b, Later(b), NEW c, Later(c), NEW d, Later(d)
    PROVE  /\ ProgramFits(<<a, b, c, d>>) /\ <<a, b, c, d>> # <<>>
           /\ Later(a) => Unguarded(<<a, b, c, d>>)
<1> DEFINE s == <<a, b, c, d>>
<1>1. s \in Seq({a, b, c, d}) /\ s # <<>> /\ DOMAIN s = 1 .. 4
  OBVIOUS
<1>2. s[1] = a /\ s[2] = b /\ s[3] = c /\ s[4] = d
  OBVIOUS
<1> HIDE DEF s
<1>3. \A i \in DOMAIN s : i # 1 => Later(s[i])
  BY <1>1, <1>2
<1> QED
  BY <1>1, <1>2, <1>3, Row DEF IsSeq, s

LEMMA Row5 ==
    ASSUME NEW a, First(a), NEW b, Later(b), NEW c, Later(c), NEW d, Later(d), NEW e, Later(e)
    PROVE  /\ ProgramFits(<<a, b, c, d, e>>) /\ <<a, b, c, d, e>> # <<>>
           /\ Later(a) => Unguarded(<<a, b, c, d, e>>)
<1> DEFINE s == <<a, b, c, d, e>>
<1>1. s \in Seq({a, b, c, d, e}) /\ s # <<>> /\ DOMAIN s = 1 .. 5
  OBVIOUS
<1>2. s[1] = a /\ s[2] = b /\ s[3] = c /\ s[4] = d /\ s[5] = e
  OBVIOUS
<1> HIDE DEF s
<1>3. \A i \in DOMAIN s : i # 1 => Later(s[i])
  BY <1>1, <1>2
<1> QED
  BY <1>1, <1>2, <1>3, Row DEF IsSeq, s

LEMMA Row6 ==
    ASSUME NEW a, First(a), NEW b, Later(b), NEW c, Later(c), NEW d, Later(d), NEW e, Later(e),
           NEW f, Later(f)
    PROVE  /\ ProgramFits(<<a, b, c, d, e, f>>) /\ <<a, b, c, d, e, f>> # <<>>
           /\ Later(a) => Unguarded(<<a, b, c, d, e, f>>)
<1> DEFINE s == <<a, b, c, d, e, f>>
<1>1. s \in Seq({a, b, c, d, e, f}) /\ s # <<>> /\ DOMAIN s = 1 .. 6
  OBVIOUS
<1>2. s[1] = a /\ s[2] = b /\ s[3] = c /\ s[4] = d /\ s[5] = e /\ s[6] = f
  OBVIOUS
<1> HIDE DEF s
<1>3. \A i \in DOMAIN s : i # 1 => Later(s[i])
  BY <1>1, <1>2
<1> QED
  BY <1>1, <1>2, <1>3, Row DEF IsSeq, s

\* A block in braces.
LEMMA Braced ==
    ASSUME NEW i, Later(i)
    PROVE  LET s == <<Expect("lbrace"), i, Expect("rbrace")>> IN ProgramFits(s) /\ s # <<>> /\ Unguarded(s)
<1> DEFINE s == <<OpenBrace, i, CloseBrace>>
<1>1. s \in Seq({OpenBrace, i, CloseBrace}) /\ Len(s) = 3 /\ DOMAIN s = 1 .. 3
      /\ s[1] = OpenBrace /\ s[2] = i /\ s[3] = CloseBrace /\ s # <<>>
  OBVIOUS
<1>2. /\ Fits(OpenBrace) /\ ~Guarded(OpenBrace) /\ OpenBrace.op \notin {"return", "break"}
      /\ Fits(CloseBrace) /\ ~Guarded(CloseBrace) /\ OpenBrace # CloseBrace
  BY DEF Fits, Guarded, OpenBrace, CloseBrace, Expect, I, Ops
<1> HIDE DEF s
<1>3. LeftFits(s)
  BY <1>1, <1>2 DEF LeftFits, IsSeq, Opens, Careful, Later, Plain
<1>4. Closes(s)
  BY <1>1, <1>2 DEF Closes, Later, Plain
<1> QED
  BY <1>1, <1>2, <1>3, <1>4 DEF ProgramFits, Unguarded, s, OpenBrace, CloseBrace

LEMMA NothingFits == ProgramFits(<<>>) /\ Unguarded(<<>>)
<1>1. <<>> \in Seq({}) /\ DOMAIN <<>> = {}
  OBVIOUS
<1> QED
  BY <1>1 DEF ProgramFits, LeftFits, IsSeq, Opens, Careful, Closes, Unguarded

--------------------------------------------------------------------------------
(* Instructions and tables *)

FunctionNames ==
    {"script", "default", "links", "pattern", "policy", "params", "scenes", "data", "object",
     "value", "for_story", "for_storyline", "source", "items", "scene_defaults",
     "enactment_defaults", "use", "arguments", "argument", "fields", "field_of", "name", "ident",
     "bool", "word", "dot", "number", "strings", "strings_or_one", "vars", "story", "storyline",
     "enactment", "scene", "certificate", "campaign", "audience", "on_click", "on",
     "trigger_type", "trigger_target", "else", "else_block", "action", "retry", "up_to",
     "condition", "children", "conditions", "chain", "and_chain", "or_chain", "duration",
     "on_begin", "on_complete", "on_fail", "storyline_end", "conditional_route",
     "required_badges", "funnel", "route", "stage", "lead_magnet", "page", "block", "block_type",
     "form", "form_type", "field", "field_name", "ai", "pdf", "site", "seo", "navigation",
     "nav_links", "product", "course", "course_certificate", "offer", "price", "purchase",
     "offer_lifecycle", "offer_action", "order_bump", "quiz", "quiz_end", "question", "answer",
     "quiz_complete", "score_rule", "score_test", "comparison", "action_node", "module",
     "lesson", "lms_quiz", "lms_question", "lms_content_gen", "description_gen", "media",
     "texts", "chapter", "turnstile", "cta", "annotation", "badge_rule", "player_preset",
     "channel", "media_webhook"}

LEMMA Names == DOMAIN Codes = FunctionNames
  BY DEF Codes, FunctionNames

\* Functions that may be called, picked or looped over at any token.
Callable == (DOMAIN Codes) \ (SkipFirst \cup SkipOther)

LEMMA Instructions ==
    /\ First(Skip) /\ First(Take) /\ Later(Take) /\ First(Report) /\ Later(Report)
    /\ First(String) /\ Later(String) /\ First(Integer) /\ Later(Integer)
    /\ \A t : t \notin Braces => First(Expect(t)) /\ Later(Expect(t))
    /\ \A S : "lbrace" \notin S /\ "rbrace" \notin S => First(Maybe(S)) /\ Later(Maybe(S))
    /\ \A f \in DOMAIN Codes : First(Call(f)) /\ First(Pick(f))
    /\ \A f \in (DOMAIN Codes) \ SkipFirst : Later(Call(f))
    /\ \A f \in (DOMAIN Codes) \ SkipOther : Later(Pick(f)) /\ First(Loop(f)) /\ Later(Loop(f))
    /\ \A f \in Callable : /\ f \in (DOMAIN Codes) \ SkipFirst /\ f \in (DOMAIN Codes) \ SkipOther
                          /\ Later(Call(f)) /\ Later(Pick(f)) /\ Later(Loop(f)) /\ First(Loop(f))
<1> USE DEF First, Later, Plain, Fits, Guarded, Ops, OpenBrace, CloseBrace, I
<1>1. \A i : Later(i) => First(i)
  OBVIOUS
<1>2. First(Skip) /\ Later(Take) /\ Later(Report)
  BY DEF Skip, Take, Report, Expect
<1>3. \A t : t \notin Braces => Later(Expect(t))
  BY DEF Expect, Braces
<1>4. \A S : "lbrace" \notin S /\ "rbrace" \notin S => Later(Maybe(S))
  BY DEF Maybe, Expect, Braces
<1>5. \A f \in DOMAIN Codes : First(Call(f)) /\ First(Pick(f))
  BY DEF Call, Pick, Expect
<1>6. \A f \in (DOMAIN Codes) \ SkipFirst : Later(Call(f))
  BY DEF Call, Expect
<1>7. \A f \in (DOMAIN Codes) \ SkipOther : Later(Pick(f)) /\ Later(Loop(f))
  BY DEF Pick, Loop, Expect
<1>8. Later(String) /\ Later(Integer)
  BY <1>3 DEF String, Integer, Braces
<1> HIDE DEF First, Later
<1> QED
  BY <1>1, <1>2, <1>3, <1>4, <1>5, <1>6, <1>7, <1>8 DEF Callable

LEMMA NoTable == TableFits(<<>>)
  BY DEF TableFits

LEMMA UponFits ==
    ASSUME NEW S, NEW s, s # <<>>, ProgramFits(s), ("lbrace" \notin S /\ "rbrace" \notin S) \/ Unguarded(s)
    PROVE  TableFits(Upon(S, s))
  BY DEF TableFits, Upon, Braces

LEMMA BothFit ==
    ASSUME NEW T, NEW U, TableFits(T), TableFits(U)
    PROVE  TableFits(T ++ U)
  BY DEF TableFits, ++

LEMMA CallsFit ==
    ASSUME NEW S, S \subseteq DOMAIN Codes, "lbrace" \notin S, "rbrace" \notin S
    PROVE  TableFits(Calls(S))
<1>1. \A t \in S : ProgramFits(<<Call(t)>>) /\ <<Call(t)>> # <<>> /\ t \notin Braces
  BY Row1, Instructions DEF Braces
<1> QED
  BY <1>1 DEF TableFits, Calls

\* The usual entries: a keyword and a value.
LEMMA EntriesFit ==
    ASSUME NEW S, "lbrace" \notin S, "rbrace" \notin S
    PROVE  /\ TableFits(Texts(S)) /\ TableFits(Ints(S)) /\ TableFits(Words(S)) /\ TableFits(MaybeWords(S))
           /\ TableFits(Flags(S)) /\ TableFits(MaybeFlags(S)) /\ TableFits(Upon(S, <<Skip>>))
<1>1. Later(String) /\ Later(Integer)
  BY Instructions
<1>2. Later(Pick("word")) /\ Later(Pick("bool"))
  BY Instructions, Names DEF FunctionNames, SkipOther
<1>3. Later(Maybe(Word)) /\ Later(Maybe(Bools))
  BY Instructions DEF Word, Bools
<1>4. ASSUME NEW i, Later(i) PROVE TableFits(Upon(S, <<Skip, i>>))
  BY <1>4, Row2, Instructions, UponFits
<1>5. TableFits(Upon(S, <<Skip>>))
  BY Row1, Instructions, UponFits
<1> QED
  BY <1>1, <1>2, <1>3, <1>4, <1>5 DEF Texts, Ints, Words, MaybeWords, Flags, MaybeFlags

LEMMA UnknownFits == TableFits(Unknown)
<1>1. ProgramFits(<<Skip, Report>>) /\ <<Skip, Report>> # <<>>
  BY Row2, Instructions
<1> QED
  BY <1>1, UponFits DEF Unknown

\* What is done about a token a table does not have.
LEMMA DropsFit ==
    /\ ProgramFits(Drop) /\ Unguarded(Drop) /\ Drop # <<>>
    /\ ProgramFits(<<Report>>) /\ Unguarded(<<Report>>)
    /\ \A i \in {Return, Break} : ProgramFits(<<Report, i>>) /\ Unguarded(<<Report, i>>)
    /\ ProgramFits(<<Report, Skip, Return>>) /\ Unguarded(<<Report, Skip, Return>>)
<1>1. /\ Plain(Skip) /\ Plain(Return) /\ Plain(Break) /\ Later(Report) /\ Report.op = "report"
  BY Instructions DEF First, Plain, Fits, Skip, Return, Break, Report, I, Ops, OpenBrace, CloseBrace, Expect
<1>2. ASSUME NEW s, IsSeq(s), s # <<>>, s[1] = Report, \A i \in DOMAIN s : Plain(s[i])
      PROVE  ProgramFits(s) /\ Unguarded(s)
  <2>1. Len(s) \in Nat \ {0} /\ DOMAIN s = 1 .. Len(s)
    BY <1>2, TailPlaces
  <2>2. \A i \in DOMAIN s : Fits(s[i]) /\ s[i] # OpenBrace /\ s[i] # CloseBrace
    BY <1>2 DEF Plain
  <2>3. \A i \in DOMAIN s : i > 1 => 1 \in 1 .. i - 1
    BY <2>1
  <2>4. ~Guarded(Report)
    BY <1>1 DEF Later
  <2> QED
    BY <1>1, <1>2, <2>1, <2>2, <2>3, <2>4 DEF ProgramFits, LeftFits, Opens, Careful, Closes, Unguarded
<1>3. ASSUME NEW i, Plain(i) PROVE ProgramFits(<<Report, i>>) /\ Unguarded(<<Report, i>>)
  <2> DEFINE s == <<Report, i>>
  <2>1. s \in Seq({Report, i}) /\ s # <<>> /\ DOMAIN s = 1 .. 2 /\ s[1] = Report /\ s[2] = i
    OBVIOUS
  <2> HIDE DEF s
  <2>2. \A j \in DOMAIN s : Plain(s[j])
    BY <1>1, <1>3, <2>1 DEF Later
  <2> QED
    BY <1>2, <2>1, <2>2 DEF IsSeq, s
<1>4. ProgramFits(<<Report, Skip, Return>>) /\ Unguarded(<<Report, Skip, Return>>)
  <2> DEFINE s == <<Report, Skip, Return>>
  <2>1. s \in Seq({Report, Skip, Return}) /\ s # <<>> /\ DOMAIN s = 1 .. 3
    OBVIOUS
  <2>2. s[1] = Report /\ s[2] = Skip /\ s[3] = Return
    OBVIOUS
  <2> HIDE DEF s
  <2>3. \A j \in DOMAIN s : Plain(s[j])
    BY <1>1, <2>1, <2>2 DEF Later
  <2> QED
    BY <1>2, <2>1, <2>2, <2>3 DEF IsSeq, s
<1>5. ProgramFits(<<Report>>) /\ Unguarded(<<Report>>)
  BY Row1, Instructions
<1> QED
  BY <1>1, <1>3, <1>4, <1>5 DEF Drop

LEMMA BlockFits ==
    ASSUME NEW f \in (DOMAIN Codes) \ SkipOther, NEW head, NEW T, Codes[f] = Block(f, head, T),
           ProgramFits(head), f \in SkipFirst \/ Unguarded(head), TableFits(T)
    PROVE  CodeFits(f)
<1> DEFINE body == <<Expect("lbrace"), Loop(f), Expect("rbrace")>>
<1>1. ProgramFits(body) /\ Unguarded(body)
  BY Braced, Instructions
<1>2. Codes[f].items = head \o body /\ Codes[f].other = Drop /\ Codes[f].table = T
  BY DEF Block, Code
<1> HIDE DEF body
<1> QED
  BY <1>1, <1>2, Concat, DropsFit DEF CodeFits

LEMMA ChoiceFits ==
    ASSUME NEW f, NEW T, NEW other, Codes[f] = Choice(T, other), TableFits(T),
           ProgramFits(other), f \in SkipOther \/ Unguarded(other)
    PROVE  CodeFits(f)
  BY NothingFits DEF Choice, Code, CodeFits

LEMMA UntilFits ==
    ASSUME NEW f, NEW t, NEW T, NEW other, Codes[f] = Until(t, T, other),
           TableFits(T), ProgramFits(other), Unguarded(other)
    PROVE  CodeFits(f)
  BY NothingFits DEF Until, Code, CodeFits

LEMMA WhileFits ==
    ASSUME NEW f, NEW T, Codes[f] = While(T), TableFits(T) PROVE CodeFits(f)
  BY NothingFits DEF While, Code, CodeFits

LEMMA AnyFits ==
    ASSUME NEW f, NEW items, NEW until, NEW only, NEW T, NEW other, Codes[f] = Code(items, until, only, T, other),
           ProgramFits(items), f \in SkipFirst \/ Unguarded(items),
           ProgramFits(other), f \in SkipOther \/ Unguarded(other), TableFits(T)
    PROVE  CodeFits(f)
  BY DEF Code, CodeFits

LEMMA NamedFits ==
    ASSUME NEW t, t \notin Braces PROVE ProgramFits(Named(t)) /\ Unguarded(Named(t))
  BY Row2, Instructions DEF Named

LEMMA CommonPartsFit ==
    \A f \in {"bool", "word", "dot", "strings", "strings_or_one", "vars", "name", "ident", "params",
         "number"} : CodeFits(f)
<1>1. CodeFits("bool")
  <2>1. Codes["bool"] = ExpectBool
    BY DEF Codes
  <2> QED
    BY <2>1, ChoiceFits, EntriesFit, UponFits, DropsFit, Row1, Instructions
    DEF ExpectBool, Bools, SkipOther
<1>2. CodeFits("word")
  <2>1. Codes["word"] = ExpectStringOrIdent
    BY DEF Codes
  <2> QED
    BY <2>1, ChoiceFits, EntriesFit, UponFits, DropsFit, Row1, Instructions
    DEF ExpectStringOrIdent, Word, SkipOther
<1>3. CodeFits("dot")
  <2>1. Codes["dot"] = ParseTriggerActionRef
    BY DEF Codes
  <2> QED
    BY <2>1, ChoiceFits, UponFits, NothingFits, Row2, Instructions
    DEF ParseTriggerActionRef, SkipOther, Braces
<1>4. CodeFits("strings")
  <2>1. Codes["strings"] = ParseStringList
    BY DEF Codes
  <2>2. {"strings"} \subseteq Callable
    BY Names DEF FunctionNames, Callable, SkipFirst, SkipOther
  <2> QED
    BY <2>1, <2>2, AnyFits, NothingFits, NoTable, Row2, Row3, Instructions
    DEF ParseStringList, Braces
<1>5. CodeFits("strings_or_one")
  <2>1. Codes["strings_or_one"] = ParseStringListOrSingle
    BY DEF Codes
  <2>2. {"strings"} \subseteq Callable
    BY Names DEF FunctionNames, Callable, SkipFirst, SkipOther
  <2> QED
    BY <2>1, <2>2, ChoiceFits, UponFits, Row1, Instructions
    DEF ParseStringListOrSingle
<1>6. CodeFits("vars")
  <2>1. Codes["vars"] = ParseVarsMap
    BY DEF Codes
  <2>2. {"vars"} \subseteq Callable
    BY Names DEF FunctionNames, Callable, SkipFirst, SkipOther
  <2> QED
    BY <2>1, <2>2, BlockFits, UponFits, NothingFits, Row4, Instructions
    DEF ParseVarsMap
<1>7. CodeFits("name")
  <2>1. Codes["name"] = NameOrReturn
    BY DEF Codes
  <2> QED
    BY <2>1, ChoiceFits, EntriesFit, UponFits, DropsFit, Row1, Row2, Instructions
    DEF NameOrReturn, SkipOther
<1>8. CodeFits("ident")
  <2>1. Codes["ident"] = IdentOrReturn
    BY DEF Codes
  <2> QED
    BY <2>1, ChoiceFits, EntriesFit, UponFits, DropsFit, Row1, Row2, Instructions
    DEF IdentOrReturn, SkipOther
<1>9. CodeFits("params")
  <2>1. Codes["params"] = Params
    BY DEF Codes
  <2> QED
    BY <2>1, UntilFits, EntriesFit, UponFits, DropsFit, Row1, Instructions
    DEF Params
<1>10. CodeFits("number")
  <2>1. Codes["number"] = NumberOrExpression
    BY DEF Codes
  <2> QED
    BY <2>1, ChoiceFits, EntriesFit, UponFits, BothFit, DropsFit, Row1, Row2, Instructions, Names
    DEF NumberOrExpression, FunctionNames, SkipFirst, SkipOther
<1> QED
  BY <1>1, <1>2, <1>3, <1>4, <1>5, <1>6, <1>7, <1>8, <1>9, <1>10

LEMMA ScriptsFit ==
    \A f \in {"script", "default", "links", "pattern", "policy", "scenes", "data", "object", "value",
         "for_story", "for_storyline", "source", "items", "scene_defaults", "enactment_defaults",
         "use", "arguments", "argument", "fields", "field_of"} : CodeFits(f)
<1>1. CodeFits("script")
  <2>1. Codes["script"] = Parse
    BY DEF Codes
  <2> QED
    BY <2>1, AnyFits, CallsFit, DropsFit, Row1, Instructions, Names
    DEF Parse, FunctionNames, SkipFirst, SkipOther
<1>2. CodeFits("default")
  <2>1. Codes["default"] = ParseDefaultSender
    BY DEF Codes
  <2>2. {"default"} \subseteq Callable
    BY Names DEF FunctionNames, Callable, SkipFirst, SkipOther
  <2> QED
    BY <2>1, <2>2, BlockFits, EntriesFit, Row3, Instructions
    DEF ParseDefaultSender, Braces
<1>3. CodeFits("links")
  <2>1. Codes["links"] = ParseLinksBlock
    BY DEF Codes
  <2>2. {"links"} \subseteq Callable
    BY Names DEF FunctionNames, Callable, SkipFirst, SkipOther
  <2> QED
    BY <2>1, <2>2, BlockFits, UponFits, Row1, Row3, Instructions
    DEF ParseLinksBlock, Braces
<1>4. CodeFits("pattern")
  <2>1. Codes["pattern"] = ParsePatternDef
    BY DEF Codes
  <2>2. {"enactment", "ident", "on", "params", "pattern", "scene", "scenes"} \subseteq Callable
    BY Names DEF FunctionNames, Callable, SkipFirst, SkipOther
  <2> QED
    BY <2>1, <2>2, BlockFits, CallsFit, UponFits, BothFit, DropsFit, Row5, Instructions
    DEF ParsePatternDef, Signature, Braces
<1>5. CodeFits("policy")
  <2>1. Codes["policy"] = ParsePolicyDef
    BY DEF Codes
  <2>2. {"ident", "on", "params", "policy"} \subseteq Callable
    BY Names DEF FunctionNames, Callable, SkipFirst, SkipOther
  <2> QED
    BY <2>1, <2>2, BlockFits, CallsFit, Row5, Instructions
    DEF ParsePolicyDef, Signature, Braces
<1>6. CodeFits("scenes")
  <2>1. Codes["scenes"] = ParseScenesRange
    BY DEF Codes
  <2>2. {"scene", "scenes"} \subseteq Callable
    BY Names DEF FunctionNames, Callable, SkipFirst, SkipOther
  <2> QED
    BY <2>1, <2>2, BlockFits, CallsFit, Row6, Instructions
    DEF ParseScenesRange, Braces
<1>7. CodeFits("data")
  <2>1. Codes["data"] = ParseDataBlock
    BY DEF Codes
  <2>2. {"data", "name", "object"} \subseteq Callable
    BY Names DEF FunctionNames, Callable, SkipFirst, SkipOther
  <2> QED
    BY <2>1, <2>2, AnyFits, EntriesFit, UponFits, BothFit, DropsFit, Row1, Row6, Instructions
    DEF ParseDataBlock, Braces
<1>8. CodeFits("object")
  <2>1. Codes["object"] = ParseDataObjectLiteral
    BY DEF Codes
  <2>2. {"object", "value"} \subseteq Callable
    BY Names DEF FunctionNames, Callable, SkipFirst, SkipOther
  <2> QED
    BY <2>1, <2>2, BlockFits, UponFits, NothingFits, Row3, Instructions
    DEF ParseDataObjectLiteral, Braces
<1>9. CodeFits("value")
  <2>1. Codes["value"] = DataValue
    BY DEF Codes
  <2> QED
    BY <2>1, ChoiceFits, UponFits, DropsFit, Row2, Instructions
    DEF DataValue, SkipOther
<1>10. CodeFits("for_story")
  <2>1. Codes["for_story"] = ParseForLoop("for_story", {"storyline"})
    BY DEF Codes
  <2>2. {"for_story", "name", "source", "storyline"} \subseteq Callable
    BY Names DEF FunctionNames, Callable, SkipFirst, SkipOther
  <2> QED
    BY <2>1, <2>2, BlockFits, CallsFit, Row4, Instructions
    DEF ParseForLoop, Braces
<1>11. CodeFits("for_storyline")
  <2>1. Codes["for_storyline"] = ParseForLoop("for_storyline", {"enactment", "use"})
    BY DEF Codes
  <2>2. {"enactment", "for_storyline", "name", "source", "use"} \subseteq Callable
    BY Names DEF FunctionNames, Callable, SkipFirst, SkipOther
  <2> QED
    BY <2>1, <2>2, BlockFits, CallsFit, Row4, Instructions
    DEF ParseForLoop, Braces
<1>12. CodeFits("source")
  <2>1. Codes["source"] = ForSource
    BY DEF Codes
  <2>2. {"items"} \subseteq Callable
    BY Names DEF FunctionNames, Callable, SkipFirst, SkipOther
  <2> QED
    BY <2>1, <2>2, ChoiceFits, EntriesFit, UponFits, BothFit, DropsFit, Row1, Row2, Row3,
       Instructions
    DEF ForSource, Braces
<1>13. CodeFits("items")
  <2>1. Codes["items"] = ForItems
    BY DEF Codes
  <2>2. {"object"} \subseteq Callable
    BY Names DEF FunctionNames, Callable, SkipFirst, SkipOther
  <2> QED
    BY <2>1, <2>2, UntilFits, EntriesFit, UponFits, BothFit, DropsFit, Row1, Instructions
    DEF ForItems
<1>14. CodeFits("scene_defaults")
  <2>1. Codes["scene_defaults"] = ParseSceneDefaults
    BY DEF Codes
  <2> QED
    BY <2>1, BlockFits, CallsFit, Row1, Instructions, Names
    DEF ParseSceneDefaults, FunctionNames, SkipFirst, SkipOther, Braces
<1>15. CodeFits("enactment_defaults")
  <2>1. Codes["enactment_defaults"] = ParseEnactmentDefaults
    BY DEF Codes
  <2> QED
    BY <2>1, BlockFits, CallsFit, Row1, Instructions, Names
    DEF ParseEnactmentDefaults, FunctionNames, SkipFirst, SkipOther, Braces
<1>16. CodeFits("use")
  <2>1. Codes["use"] = ParseUseStatement
    BY DEF Codes
  <2>2. {"arguments", "name", "use"} \subseteq Callable
    BY Names DEF FunctionNames, Callable, SkipFirst, SkipOther
  <2> QED
    BY <2>1, <2>2, AnyFits, UponFits, BothFit, DropsFit, Row2, Row3, Instructions
    DEF ParseUseStatement, Braces
<1>17. CodeFits("arguments")
  <2>1. Codes["arguments"] = UseArguments
    BY DEF Codes
  <2>2. {"argument"} \subseteq Callable
    BY Names DEF FunctionNames, Callable, SkipFirst, SkipOther
  <2> QED
    BY <2>1, <2>2, ChoiceFits, UponFits, NothingFits, Row3, Instructions
    DEF UseArguments, Braces
<1>18. CodeFits("argument")
  <2>1. Codes["argument"] = UseArgument
    BY DEF Codes
  <2> QED
    BY <2>1, UntilFits, EntriesFit, UponFits, BothFit, DropsFit, Row1, Row2, Instructions, Names
    DEF UseArgument, FunctionNames, SkipFirst, SkipOther
<1>19. CodeFits("fields")
  <2>1. Codes["fields"] = ArgumentFields
    BY DEF Codes
  <2>2. {"field_of"} \subseteq Callable
    BY Names DEF FunctionNames, Callable, SkipFirst, SkipOther
  <2> QED
    BY <2>1, <2>2, WhileFits, UponFits, Row2, Instructions
    DEF ArgumentFields
<1>20. CodeFits("field_of")
  <2>1. Codes["field_of"] = ArgumentField
    BY DEF Codes
  <2> QED
    BY <2>1, ChoiceFits, EntriesFit, UponFits, DropsFit, Row1, Row2, Instructions
    DEF ArgumentField, SkipOther
<1> QED
  BY <1>1, <1>2, <1>3, <1>4, <1>5, <1>6, <1>7, <1>8, <1>9, <1>10, <1>11, <1>12, <1>13, <1>14,
     <1>15, <1>16, <1>17, <1>18, <1>19, <1>20

LEMMA StoriesFit ==
    \A f \in {"story", "storyline", "enactment", "scene", "certificate", "campaign", "audience",
         "on_click"} : CodeFits(f)
<1>1. CodeFits("story")
  <2>1. Codes["story"] = ParseStory
    BY DEF Codes
  <2> QED
    BY <2>1, BlockFits, NamedFits, EntriesFit, CallsFit, UponFits, BothFit, Row1, Instructions,
       Names
    DEF ParseStory, FunctionNames, SkipFirst, SkipOther, Braces
<1>2. CodeFits("storyline")
  <2>1. Codes["storyline"] = ParseStoryline
    BY DEF Codes
  <2>2. /\ {"enactment", "for_storyline", "number", "storyline", "use"} \subseteq Callable
        /\ {"on_begin", "required_badges", "storyline_end"} \subseteq DOMAIN Codes
    BY Names DEF FunctionNames, Callable, SkipFirst, SkipOther
  <2> QED
    BY <2>1, <2>2, BlockFits, NamedFits, CallsFit, UponFits, BothFit, Row1, Row2, Instructions
    DEF ParseStoryline, Braces
<1>3. CodeFits("enactment")
  <2>1. Codes["enactment"] = ParseEnactment
    BY DEF Codes
  <2> QED
    BY <2>1, BlockFits, EntriesFit, CallsFit, UponFits, BothFit, Row2, Instructions, Names
    DEF ParseEnactment, FunctionNames, SkipFirst, SkipOther, Braces
<1>4. CodeFits("scene")
  <2>1. Codes["scene"] = ParseScene
    BY DEF Codes
  <2> QED
    BY <2>1, BlockFits, NamedFits, EntriesFit, CallsFit, UponFits, BothFit, Row2, Instructions,
       Names
    DEF ParseScene, SceneTexts, FunctionNames, SkipFirst, SkipOther, Braces
<1>5. CodeFits("certificate")
  <2>1. Codes["certificate"] = ParseCertificate
    BY DEF Codes
  <2> QED
    BY <2>1, BlockFits, EntriesFit, Row1, Instructions, Names
    DEF ParseCertificate, FunctionNames, SkipFirst, SkipOther, Braces
<1>6. CodeFits("campaign")
  <2>1. Codes["campaign"] = ParseCampaign
    BY DEF Codes
  <2> QED
    BY <2>1, BlockFits, NamedFits, EntriesFit, CallsFit, BothFit, Names
    DEF ParseCampaign, SceneTexts, FunctionNames, SkipFirst, SkipOther, Braces
<1>7. CodeFits("audience")
  <2>1. Codes["audience"] = ParseCampaignAudience
    BY DEF Codes
  <2>2. /\ {"strings_or_one"} \subseteq Callable
        /\ {"audience"} \subseteq DOMAIN Codes
    BY Names DEF FunctionNames, Callable, SkipFirst, SkipOther
  <2> QED
    BY <2>1, <2>2, BlockFits, UponFits, Row1, Row2, Instructions
    DEF ParseCampaignAudience, SkipFirst, SkipOther
<1>8. CodeFits("on_click")
  <2>1. Codes["on_click"] = ParseCampaignOnClick
    BY DEF Codes
  <2> QED
    BY <2>1, BlockFits, EntriesFit, Row2, Instructions, Names
    DEF ParseCampaignOnClick, FunctionNames, SkipFirst, SkipOther, Braces
<1> QED
  BY <1>1, <1>2, <1>3, <1>4, <1>5, <1>6, <1>7, <1>8

LEMMA TriggersFit ==
    \A f \in {"trigger_type", "trigger_target", "on", "else", "else_block", "action", "retry",
         "up_to", "condition", "children", "conditions", "chain", "and_chain", "or_chain",
         "duration"} : CodeFits(f)
<1>1. CodeFits("trigger_type")
  <2>1. Codes["trigger_type"] = TriggerType
    BY DEF Codes
  <2>2. {"trigger_target"} \subseteq Callable
    BY Names DEF FunctionNames, Callable, SkipFirst, SkipOther
  <2> QED
    BY <2>1, <2>2, ChoiceFits, EntriesFit, UponFits, BothFit, DropsFit, Row1, Row2, Row3, Row5,
       Instructions
    DEF TriggerType, WatchTypes, Compares
<1>2. CodeFits("trigger_target")
  <2>1. Codes["trigger_target"] = TriggerTarget
    BY DEF Codes
  <2> QED
    BY <2>1, ChoiceFits, EntriesFit, UponFits, BothFit, NothingFits, Row1, Row2, Instructions,
       Names
    DEF TriggerTarget, FunctionNames, SkipFirst, SkipOther
<1>3. CodeFits("on")
  <2>1. Codes["on"] = ParseTrigger
    BY DEF Codes
  <2> QED
    BY <2>1, BlockFits, EntriesFit, CallsFit, UponFits, BothFit, Row2, Instructions, Names
    DEF ParseTrigger, FunctionNames, SkipFirst, SkipOther, Braces
<1>4. CodeFits("else")
  <2>1. Codes["else"] = ElseActions
    BY DEF Codes
  <2>2. {"action", "else_block"} \subseteq Callable
    BY Names DEF FunctionNames, Callable, SkipFirst, SkipOther
  <2> QED
    BY <2>1, <2>2, ChoiceFits, UponFits, BothFit, Braced, NothingFits, Row2, Row3, Instructions
    DEF ElseActions, Braces
<1>5. CodeFits("else_block")
  <2>1. Codes["else_block"] = ElseBlock
    BY DEF Codes
  <2>2. {"action"} \subseteq Callable
    BY Names DEF FunctionNames, Callable, SkipFirst, SkipOther
  <2> QED
    BY <2>1, <2>2, UntilFits, UponFits, Row1, Row2, Instructions
    DEF ElseBlock
<1>6. CodeFits("action")
  <2>1. Codes["action"] = ParseAction
    BY DEF Codes
  <2>2. {"action", "duration", "retry"} \subseteq Callable
    BY Names DEF FunctionNames, Callable, SkipFirst, SkipOther
  <2> QED
    BY <2>1, <2>2, AnyFits, EntriesFit, UponFits, BothFit, DropsFit, Row1, Row2, Row3,
       Instructions
    DEF ParseAction
<1>7. CodeFits("retry")
  <2>1. Codes["retry"] = ParseRetryModifiers
    BY DEF Codes
  <2>2. {"else", "retry", "up_to"} \subseteq Callable
    BY Names DEF FunctionNames, Callable, SkipFirst, SkipOther
  <2> QED
    BY <2>1, <2>2, AnyFits, UponFits, NothingFits, NoTable, Row2, Instructions
    DEF ParseRetryModifiers
<1>8. CodeFits("up_to")
  <2>1. Codes["up_to"] = UpTo
    BY DEF Codes
  <2> QED
    BY <2>1, ChoiceFits, UponFits, NothingFits, Row3, Instructions
    DEF UpTo, SkipOther
<1>9. CodeFits("condition")
  <2>1. Codes["condition"] = ParseCondition
    BY DEF Codes
  <2>2. {"and_chain", "chain", "children", "condition", "or_chain"} \subseteq Callable
    BY Names DEF FunctionNames, Callable, SkipFirst, SkipOther
  <2> QED
    BY <2>1, <2>2, AnyFits, UponFits, BothFit, DropsFit, Row1, Row3, Instructions
    DEF ParseCondition
<1>10. CodeFits("children")
  <2>1. Codes["children"] = ConditionChildren
    BY DEF Codes
  <2>2. {"conditions"} \subseteq Callable
    BY Names DEF FunctionNames, Callable, SkipFirst, SkipOther
  <2> QED
    BY <2>1, <2>2, ChoiceFits, UponFits, Braced, NothingFits, Row3, Instructions
    DEF ConditionChildren, Braces
<1>11. CodeFits("conditions")
  <2>1. Codes["conditions"] = Conditions
    BY DEF Codes
  <2> QED
    BY <2>1, UntilFits, NothingFits, NoTable, Row1, Instructions, Names
    DEF Conditions, FunctionNames, SkipFirst, SkipOther
<1>12. CodeFits("chain")
  <2>1. Codes["chain"] = Chain({"and", "or"})
    BY DEF Codes
  <2>2. {"condition"} \subseteq Callable
    BY Names DEF FunctionNames, Callable, SkipFirst, SkipOther
  <2> QED
    BY <2>1, <2>2, ChoiceFits, UponFits, NothingFits, Row2, Instructions
    DEF Chain
<1>13. CodeFits("and_chain")
  <2>1. Codes["and_chain"] = Chain({"and"})
    BY DEF Codes
  <2>2. {"condition"} \subseteq Callable
    BY Names DEF FunctionNames, Callable, SkipFirst, SkipOther
  <2> QED
    BY <2>1, <2>2, ChoiceFits, UponFits, NothingFits, Row2, Instructions
    DEF Chain
<1>14. CodeFits("or_chain")
  <2>1. Codes["or_chain"] = Chain({"or"})
    BY DEF Codes
  <2>2. {"condition"} \subseteq Callable
    BY Names DEF FunctionNames, Callable, SkipFirst, SkipOther
  <2> QED
    BY <2>1, <2>2, ChoiceFits, UponFits, NothingFits, Row2, Instructions
    DEF Chain
<1>15. CodeFits("duration")
  <2>1. Codes["duration"] = ParseDuration
    BY DEF Codes
  <2>2. {"duration"} \subseteq Callable
    BY Names DEF FunctionNames, Callable, SkipFirst, SkipOther
  <2> QED
    BY <2>1, <2>2, AnyFits, EntriesFit, UponFits, BothFit, DropsFit, Row1, Row2, Instructions
    DEF ParseDuration, Braces
<1> QED
  BY <1>1, <1>2, <1>3, <1>4, <1>5, <1>6, <1>7, <1>8, <1>9, <1>10, <1>11, <1>12, <1>13, <1>14,
     <1>15

LEMMA EndsFit ==
    \A f \in {"on_begin", "on_complete", "on_fail", "storyline_end", "conditional_route",
         "required_badges"} : CodeFits(f)
<1>1. CodeFits("on_begin")
  <2>1. Codes["on_begin"] = ParseLifecycleBlock
    BY DEF Codes
  <2> QED
    BY <2>1, BlockFits, EntriesFit, Row1, Instructions, Names
    DEF ParseLifecycleBlock, Badges, FunctionNames, SkipFirst, SkipOther
<1>2. CodeFits("on_complete")
  <2>1. Codes["on_complete"] = ParseOnCompleteBlock
    BY DEF Codes
  <2> QED
    BY <2>1, BlockFits, EntriesFit, BothFit, Row1, Instructions, Names
    DEF ParseOnCompleteBlock, Badges, FunctionNames, SkipFirst, SkipOther
<1>3. CodeFits("on_fail")
  <2>1. Codes["on_fail"] = ParseOnFailBlock
    BY DEF Codes
  <2> QED
    BY <2>1, BlockFits, EntriesFit, BothFit, Row1, Instructions, Names
    DEF ParseOnFailBlock, Badges, FunctionNames, SkipFirst, SkipOther
<1>4. CodeFits("storyline_end")
  <2>1. Codes["storyline_end"] = ParseStorylineEndBlock
    BY DEF Codes
  <2> QED
    BY <2>1, BlockFits, EntriesFit, UponFits, BothFit, Row1, Instructions, Names
    DEF ParseStorylineEndBlock, Badges, FunctionNames, SkipFirst, SkipOther
<1>5. CodeFits("conditional_route")
  <2>1. Codes["conditional_route"] = ParseConditionalRoute
    BY DEF Codes
  <2> QED
    BY <2>1, BlockFits, EntriesFit, CallsFit, BothFit, Row1, Instructions, Names
    DEF ParseConditionalRoute, FunctionNames, SkipFirst, SkipOther
<1>6. CodeFits("required_badges")
  <2>1. Codes["required_badges"] = ParseRequiredBadges
    BY DEF Codes
  <2>2. /\ {"strings_or_one"} \subseteq Callable
        /\ {"required_badges"} \subseteq DOMAIN Codes
    BY Names DEF FunctionNames, Callable, SkipFirst, SkipOther
  <2> QED
    BY <2>1, <2>2, BlockFits, UponFits, Row1, Row2, Instructions
    DEF ParseRequiredBadges, SkipFirst, SkipOther
<1> QED
  BY <1>1, <1>2, <1>3, <1>4, <1>5, <1>6

LEMMA FunnelsFit ==
    \A f \in {"funnel", "route", "stage", "lead_magnet", "page", "block", "block_type", "form",
         "form_type", "field", "field_name", "ai", "pdf", "site", "seo", "navigation",
         "nav_links"} : CodeFits(f)
<1>1. CodeFits("funnel")
  <2>1. Codes["funnel"] = ParseFunnel
    BY DEF Codes
  <2> QED
    BY <2>1, BlockFits, NamedFits, EntriesFit, CallsFit, BothFit, Names
    DEF ParseFunnel, FunctionNames, SkipFirst, SkipOther, Braces
<1>2. CodeFits("route")
  <2>1. Codes["route"] = ParseRoute
    BY DEF Codes
  <2> QED
    BY <2>1, BlockFits, NamedFits, EntriesFit, CallsFit, BothFit, Names
    DEF ParseRoute, FunctionNames, SkipFirst, SkipOther, Braces
<1>3. CodeFits("stage")
  <2>1. Codes["stage"] = ParseStage
    BY DEF Codes
  <2> QED
    BY <2>1, BlockFits, NamedFits, EntriesFit, CallsFit, BothFit, Names
    DEF ParseStage, FunctionNames, SkipFirst, SkipOther, Braces
<1>4. CodeFits("lead_magnet")
  <2>1. Codes["lead_magnet"] = ParseLeadMagnet
    BY DEF Codes
  <2>2. {"lead_magnet"} \subseteq Callable
    BY Names DEF FunctionNames, Callable, SkipFirst, SkipOther
  <2> QED
    BY <2>1, <2>2, BlockFits, UponFits, Row1, Row2, Instructions
    DEF ParseLeadMagnet, Braces
<1>5. CodeFits("page")
  <2>1. Codes["page"] = ParsePage
    BY DEF Codes
  <2> QED
    BY <2>1, BlockFits, NamedFits, EntriesFit, CallsFit, BothFit, Names
    DEF ParsePage, FunctionNames, SkipFirst, SkipOther, Braces
<1>6. CodeFits("block")
  <2>1. Codes["block"] = ParseBlock
    BY DEF Codes
  <2> QED
    BY <2>1, BlockFits, NamedFits, EntriesFit, CallsFit, UponFits, BothFit, Row2, Instructions,
       Names
    DEF ParseBlock, FunctionNames, SkipFirst, SkipOther, Braces
<1>7. CodeFits("block_type")
  <2>1. Codes["block_type"] = BlockType
    BY DEF Codes
  <2> QED
    BY <2>1, ChoiceFits, EntriesFit, UponFits, DropsFit, Row1, Instructions
    DEF BlockType, Word, SkipOther
<1>8. CodeFits("form")
  <2>1. Codes["form"] = ParseForm
    BY DEF Codes
  <2> QED
    BY <2>1, BlockFits, NamedFits, EntriesFit, CallsFit, UponFits, BothFit, Row2, Instructions,
       Names
    DEF ParseForm, FunctionNames, SkipFirst, SkipOther, Braces
<1>9. CodeFits("form_type")
  <2>1. Codes["form_type"] = FormType
    BY DEF Codes
  <2> QED
    BY <2>1, ChoiceFits, EntriesFit, UponFits, DropsFit, Row1, Instructions
    DEF FormType, Word, SkipOther
<1>10. CodeFits("field")
  <2>1. Codes["field"] = ParseFormField
    BY DEF Codes
  <2>2. {"field", "field_name"} \subseteq Callable
    BY Names DEF FunctionNames, Callable, SkipFirst, SkipOther
  <2> QED
    BY <2>1, <2>2, AnyFits, EntriesFit, UponFits, BothFit, NothingFits, NoTable, Row1, Row2, Row4,
       Instructions
    DEF ParseFormField, Word, Braces
<1>11. CodeFits("field_name")
  <2>1. Codes["field_name"] = FieldName
    BY DEF Codes
  <2> QED
    BY <2>1, ChoiceFits, EntriesFit, UponFits, DropsFit, Row1, Row3, Instructions
    DEF FieldName, Word, SkipOther
<1>12. CodeFits("ai")
  <2>1. Codes["ai"] = ParseAIContext
    BY DEF Codes
  <2>2. {"ai"} \subseteq Callable
    BY Names DEF FunctionNames, Callable, SkipFirst, SkipOther
  <2>3. /\ ParseAIContext.items = <<Expect("ai"), Expect("context"), Maybe({"global", "extend"}), Loop("ai")>>
        /\ ParseAIContext.other = <<>> /\ ParseAIContext.table = Upon({"string", "ident"}, <<Skip>>)
    BY DEF ParseAIContext, While, Code
  <2>4. ProgramFits(ParseAIContext.items) /\ Unguarded(ParseAIContext.items)
    BY <2>2, <2>3, Row4, Instructions DEF Braces
  <2> QED
    BY <2>1, <2>3, <2>4, EntriesFit, NothingFits DEF CodeFits
<1>13. CodeFits("pdf")
  <2>1. Codes["pdf"] = ParsePDFConfig
    BY DEF Codes
  <2>2. {"ai", "pdf"} \subseteq Callable
    BY Names DEF FunctionNames, Callable, SkipFirst, SkipOther
  <2> QED
    BY <2>1, <2>2, AnyFits, CallsFit, NothingFits, NoTable, Row3, Instructions
    DEF ParsePDFConfig, Braces
<1>14. CodeFits("site")
  <2>1. Codes["site"] = ParseSite
    BY DEF Codes
  <2> QED
    BY <2>1, BlockFits, NamedFits, EntriesFit, CallsFit, BothFit, Names
    DEF ParseSite, FunctionNames, SkipFirst, SkipOther, Braces
<1>15. CodeFits("seo")
  <2>1. Codes["seo"] = ParseSEOBlock
    BY DEF Codes
  <2> QED
    BY <2>1, BlockFits, EntriesFit, UnknownFits, BothFit, Row1, Instructions, Names
    DEF ParseSEOBlock, FunctionNames, SkipFirst, SkipOther, Braces
<1>16. CodeFits("navigation")
  <2>1. Codes["navigation"] = ParseNavigationBlock
    BY DEF Codes
  <2>2. {"nav_links", "navigation"} \subseteq Callable
    BY Names DEF FunctionNames, Callable, SkipFirst, SkipOther
  <2> DEFINE links == <<Expect("lbrace"), Loop("nav_links"), Expect("rbrace")>>
             s == <<Skip, Expect("lbrace"), Loop("nav_links"), Expect("rbrace")>>
  <2>3. ProgramFits(<<Skip>>) /\ ProgramFits(links) /\ Unguarded(links) /\ links # <<>>
    BY <2>2, Row1, Braced, Instructions
  <2>4. s = <<Skip>> \o links
    OBVIOUS
  <2> HIDE DEF links
  <2>5. ProgramFits(s) /\ s # <<>>
    BY <2>3, <2>4, Concat
  <2>6. TableFits(Upon({"header", "footer"}, s))
    BY <2>5, UponFits
  <2> QED
    BY <2>1, <2>2, <2>6, BlockFits, Row1, Instructions DEF ParseNavigationBlock, Braces
<1>17. CodeFits("nav_links")
  <2>1. Codes["nav_links"] = ParseNavLinks
    BY DEF Codes
  <2> QED
    BY <2>1, UntilFits, NothingFits, NoTable, Row4, Instructions
    DEF ParseNavLinks, Braces
<1> QED
  BY <1>1, <1>2, <1>3, <1>4, <1>5, <1>6, <1>7, <1>8, <1>9, <1>10, <1>11, <1>12, <1>13, <1>14,
     <1>15, <1>16, <1>17

LEMMA ProductsFit ==
    \A f \in {"product", "course", "course_certificate", "offer", "price", "purchase",
         "offer_lifecycle", "offer_action", "order_bump", "quiz", "quiz_end", "question",
         "answer", "quiz_complete", "score_rule", "score_test", "comparison", "action_node"} : CodeFits(f)
<1>1. CodeFits("product")
  <2>1. Codes["product"] = ParseProductDecl
    BY DEF Codes
  <2> QED
    BY <2>1, BlockFits, NamedFits, EntriesFit, CallsFit, UnknownFits, BothFit, Names
    DEF ParseProductDecl, FunctionNames, SkipFirst, SkipOther, Braces
<1>2. CodeFits("course")
  <2>1. Codes["course"] = ParseCourseDecl
    BY DEF Codes
  <2> QED
    BY <2>1, BlockFits, NamedFits, EntriesFit, CallsFit, UnknownFits, UponFits, BothFit, Row1,
       Instructions, Names
    DEF ParseCourseDecl, FunctionNames, SkipFirst, SkipOther, Braces
<1>3. CodeFits("course_certificate")
  <2>1. Codes["course_certificate"] = ParseCourseCertConfig
    BY DEF Codes
  <2> QED
    BY <2>1, BlockFits, EntriesFit, UnknownFits, BothFit, Row1, Instructions, Names
    DEF ParseCourseCertConfig, FunctionNames, SkipFirst, SkipOther, Braces
<1>4. CodeFits("offer")
  <2>1. Codes["offer"] = ParseOfferDecl
    BY DEF Codes
  <2> QED
    BY <2>1, BlockFits, NamedFits, EntriesFit, UponFits, BothFit, Row2, Instructions, Names
    DEF ParseOfferDecl, FunctionNames, SkipFirst, SkipOther, Braces
<1>5. CodeFits("price")
  <2>1. Codes["price"] = Price
    BY DEF Codes
  <2> QED
    BY <2>1, ChoiceFits, EntriesFit, UponFits, DropsFit, Row1, Instructions
    DEF Price, SkipOther
<1>6. CodeFits("purchase")
  <2>1. Codes["purchase"] = OnPurchase
    BY DEF Codes
  <2>2. {"offer_lifecycle"} \subseteq Callable
    BY Names DEF FunctionNames, Callable, SkipFirst, SkipOther
  <2> QED
    BY <2>1, <2>2, ChoiceFits, UponFits, DropsFit, Row2, Instructions
    DEF OnPurchase
<1>7. CodeFits("offer_lifecycle")
  <2>1. Codes["offer_lifecycle"] = ParseOfferLifecycleBlock
    BY DEF Codes
  <2>2. {"offer_action", "offer_lifecycle"} \subseteq Callable
    BY Names DEF FunctionNames, Callable, SkipFirst, SkipOther
  <2> QED
    BY <2>1, <2>2, BlockFits, UponFits, NothingFits, Row2, Instructions
    DEF ParseOfferLifecycleBlock
<1>8. CodeFits("offer_action")
  <2>1. Codes["offer_action"] = OfferAction
    BY DEF Codes
  <2> QED
    BY <2>1, ChoiceFits, EntriesFit, DropsFit
    DEF OfferAction, SkipOther
<1>9. CodeFits("order_bump")
  <2>1. Codes["order_bump"] = ParseOrderBump
    BY DEF Codes
  <2> QED
    BY <2>1, BlockFits, NamedFits, EntriesFit, UnknownFits, BothFit, Names
    DEF ParseOrderBump, FunctionNames, SkipFirst, SkipOther, Braces
<1>10. CodeFits("quiz")
  <2>1. Codes["quiz"] = ParseQuiz
    BY DEF Codes
  <2>2. {"question", "quiz", "quiz_end"} \subseteq Callable
    BY Names DEF FunctionNames, Callable, SkipFirst, SkipOther
  <2> QED
    BY <2>1, <2>2, BlockFits, NamedFits, CallsFit, UponFits, BothFit, Row2, Instructions
    DEF ParseQuiz, Braces
<1>11. CodeFits("quiz_end")
  <2>1. Codes["quiz_end"] = QuizEnd
    BY DEF Codes
  <2>2. {"quiz_complete"} \subseteq Callable
    BY Names DEF FunctionNames, Callable, SkipFirst, SkipOther
  <2> QED
    BY <2>1, <2>2, ChoiceFits, UponFits, DropsFit, Row2, Instructions
    DEF QuizEnd
<1>12. CodeFits("question")
  <2>1. Codes["question"] = ParseQuestion
    BY DEF Codes
  <2> QED
    BY <2>1, BlockFits, NamedFits, CallsFit, Names
    DEF ParseQuestion, FunctionNames, SkipFirst, SkipOther, Braces
<1>13. CodeFits("answer")
  <2>1. Codes["answer"] = ParseAnswer
    BY DEF Codes
  <2>2. {"answer"} \subseteq Callable
    BY Names DEF FunctionNames, Callable, SkipFirst, SkipOther
  <2> QED
    BY <2>1, <2>2, AnyFits, NamedFits, EntriesFit, Concat, NothingFits, NoTable, Row1,
       Instructions
    DEF ParseAnswer, Braces
<1>14. CodeFits("quiz_complete")
  <2>1. Codes["quiz_complete"] = ParseQuizOnComplete
    BY DEF Codes
  <2>2. /\ {"quiz_complete"} \subseteq Callable
        /\ {"score_rule"} \subseteq DOMAIN Codes
    BY Names DEF FunctionNames, Callable, SkipFirst, SkipOther
  <2> QED
    BY <2>1, <2>2, BlockFits, UponFits, NothingFits, Row1, Instructions
    DEF ParseQuizOnComplete
<1>15. CodeFits("score_rule")
  <2>1. Codes["score_rule"] = ParseScoreRule
    BY DEF Codes
  <2>2. /\ {"action_node"} \subseteq Callable
        /\ {"score_rule", "score_test"} \subseteq DOMAIN Codes
    BY Names DEF FunctionNames, Callable, SkipFirst, SkipOther
  <2> QED
    BY <2>1, <2>2, BlockFits, UponFits, Row1, Row2, Instructions
    DEF ParseScoreRule, SkipFirst, SkipOther
<1>16. CodeFits("score_test")
  <2>1. Codes["score_test"] = ScoreTest
    BY DEF Codes
  <2>2. {"comparison"} \subseteq Callable
    BY Names DEF FunctionNames, Callable, SkipFirst, SkipOther
  <2> QED
    BY <2>1, <2>2, ChoiceFits, EntriesFit, UponFits, Row1, Row4, Instructions
    DEF ScoreTest, SkipFirst, SkipOther
<1>17. CodeFits("comparison")
  <2>1. Codes["comparison"] = Comparison
    BY DEF Codes
  <2> QED
    BY <2>1, ChoiceFits, EntriesFit, UponFits, DropsFit, Row1, Instructions
    DEF Comparison, Compares, SkipOther
<1>18. CodeFits("action_node")
  <2>1. Codes["action_node"] = ParseActionNode
    BY DEF Codes
  <2>2. {"action_node"} \subseteq Callable
    BY Names DEF FunctionNames, Callable, SkipFirst, SkipOther
  <2> QED
    BY <2>1, <2>2, AnyFits, EntriesFit, DropsFit, Row1, Row3, Instructions
    DEF ParseActionNode
<1> QED
  BY <1>1, <1>2, <1>3, <1>4, <1>5, <1>6, <1>7, <1>8, <1>9, <1>10, <1>11, <1>12, <1>13, <1>14,
     <1>15, <1>16, <1>17, <1>18

LEMMA LessonsFit ==
    \A f \in {"module", "lesson", "lms_quiz", "lms_question", "lms_content_gen", "description_gen",
         "media", "texts", "chapter", "turnstile", "cta", "annotation", "badge_rule",
         "player_preset", "channel", "media_webhook"} : CodeFits(f)
<1>1. CodeFits("module")
  <2>1. Codes["module"] = ParseModule
    BY DEF Codes
  <2>2. {"lesson", "lms_quiz", "module"} \subseteq Callable
    BY Names DEF FunctionNames, Callable, SkipFirst, SkipOther
  <2> QED
    BY <2>1, <2>2, BlockFits, NamedFits, EntriesFit, CallsFit, UponFits, BothFit, Concat, Row1,
       Instructions
    DEF ParseModule, Braces
<1>2. CodeFits("lesson")
  <2>1. Codes["lesson"] = ParseLesson
    BY DEF Codes
  <2>2. /\ {"lesson"} \subseteq Callable
        /\ {"lms_content_gen"} \subseteq DOMAIN Codes
    BY Names DEF FunctionNames, Callable, SkipFirst, SkipOther
  <2> QED
    BY <2>1, <2>2, BlockFits, NamedFits, EntriesFit, UnknownFits, UponFits, BothFit, Concat, Row1,
       Row2, Instructions
    DEF ParseLesson, Braces
<1>3. CodeFits("lms_quiz")
  <2>1. Codes["lms_quiz"] = ParseLMSQuiz
    BY DEF Codes
  <2>2. {"lms_question", "lms_quiz"} \subseteq Callable
    BY Names DEF FunctionNames, Callable, SkipFirst, SkipOther
  <2> QED
    BY <2>1, <2>2, BlockFits, NamedFits, EntriesFit, UponFits, BothFit, Concat, Row1, Instructions
    DEF ParseLMSQuiz, Braces
<1>4. CodeFits("lms_question")
  <2>1. Codes["lms_question"] = ParseLMSQuestion
    BY DEF Codes
  <2>2. {"lms_question", "strings"} \subseteq Callable
    BY Names DEF FunctionNames, Callable, SkipFirst, SkipOther
  <2> QED
    BY <2>1, <2>2, BlockFits, NamedFits, EntriesFit, UponFits, BothFit, Concat, Row1, Row2,
       Instructions
    DEF ParseLMSQuestion, Word, Braces
<1>5. CodeFits("lms_content_gen")
  <2>1. Codes["lms_content_gen"] = ParseLMSContentGen
    BY DEF Codes
  <2> QED
    BY <2>1, BlockFits, EntriesFit, UnknownFits, UponFits, BothFit, Row1, Row2, Instructions,
       Names
    DEF ParseLMSContentGen, FunctionNames, SkipFirst, SkipOther
<1>6. CodeFits("description_gen")
  <2>1. Codes["description_gen"] = ParseDescriptionGen
    BY DEF Codes
  <2> QED
    BY <2>1, BlockFits, EntriesFit, UnknownFits, UponFits, BothFit, Row1, Row2, Instructions,
       Names
    DEF ParseDescriptionGen, FunctionNames, SkipFirst, SkipOther, Braces
<1>7. CodeFits("media")
  <2>1. Codes["media"] = ParseMediaDecl
    BY DEF Codes
  <2> QED
    BY <2>1, BlockFits, NamedFits, EntriesFit, CallsFit, UponFits, BothFit, Row2, Instructions,
       Names
    DEF ParseMediaDecl, FunctionNames, SkipFirst, SkipOther, Braces
<1>8. CodeFits("texts")
  <2>1. Codes["texts"] = MediaTexts
    BY DEF Codes
  <2> QED
    BY <2>1, WhileFits, EntriesFit, UponFits, Row1, Instructions
    DEF MediaTexts
<1>9. CodeFits("chapter")
  <2>1. Codes["chapter"] = ParseChapterDecl
    BY DEF Codes
  <2> QED
    BY <2>1, BlockFits, NamedFits, EntriesFit, Names
    DEF ParseChapterDecl, Times, FunctionNames, SkipFirst, SkipOther, Braces
<1>10. CodeFits("turnstile")
  <2>1. Codes["turnstile"] = ParseTurnstileDecl
    BY DEF Codes
  <2> QED
    BY <2>1, BlockFits, EntriesFit, UponFits, BothFit, Row1, Instructions, Names
    DEF ParseTurnstileDecl, Times, FunctionNames, SkipFirst, SkipOther, Braces
<1>11. CodeFits("cta")
  <2>1. Codes["cta"] = ParseCTADecl
    BY DEF Codes
  <2> QED
    BY <2>1, BlockFits, EntriesFit, BothFit, Row1, Instructions, Names
    DEF ParseCTADecl, Times, FunctionNames, SkipFirst, SkipOther, Braces
<1>12. CodeFits("annotation")
  <2>1. Codes["annotation"] = ParseAnnotationDecl
    BY DEF Codes
  <2> QED
    BY <2>1, BlockFits, EntriesFit, BothFit, Row1, Instructions, Names
    DEF ParseAnnotationDecl, Times, FunctionNames, SkipFirst, SkipOther, Braces
<1>13. CodeFits("badge_rule")
  <2>1. Codes["badge_rule"] = ParseBadgeRuleDecl
    BY DEF Codes
  <2> QED
    BY <2>1, BlockFits, EntriesFit, UponFits, BothFit, Row1, Row2, Instructions, Names
    DEF ParseBadgeRuleDecl, Compares, FunctionNames, SkipFirst, SkipOther, Braces
<1>14. CodeFits("player_preset")
  <2>1. Codes["player_preset"] = ParsePlayerPresetDecl
    BY DEF Codes
  <2> QED
    BY <2>1, BlockFits, NamedFits, EntriesFit, BothFit, Names
    DEF ParsePlayerPresetDecl, FunctionNames, SkipFirst, SkipOther, Braces
<1>15. CodeFits("channel")
  <2>1. Codes["channel"] = ParseChannelDecl
    BY DEF Codes
  <2> QED
    BY <2>1, BlockFits, NamedFits, EntriesFit, UponFits, BothFit, Row2, Instructions, Names
    DEF ParseChannelDecl, FunctionNames, SkipFirst, SkipOther, Braces
<1>16. CodeFits("media_webhook")
  <2>1. Codes["media_webhook"] = ParseMediaWebhookDecl
    BY DEF Codes
  <2> QED
    BY <2>1, BlockFits, NamedFits, EntriesFit, UponFits, BothFit, Row2, Instructions, Names
    DEF ParseMediaWebhookDecl, FunctionNames, SkipFirst, SkipOther, Braces
<1> QED
  BY <1>1, <1>2, <1>3, <1>4, <1>5, <1>6, <1>7, <1>8, <1>9, <1>10, <1>11, <1>12, <1>13, <1>14,
     <1>15, <1>16

LEMMA GrammarFits == \A f \in DOMAIN Codes : CodeFits(f)
  BY Names, CommonPartsFit, ScriptsFit, StoriesFit, TriggersFit, EndsFit, FunnelsFit, ProductsFit, LessonsFit
  DEF FunctionNames

--------------------------------------------------------------------------------
(* What is called at a keyword only *)

LEMMA CalledAt ==
    ASSUME NEW g \in DOMAIN Codes, NEW t \in DOMAIN Codes[g].table, NEW f, Codes[g].table[t] = <<Call(f)>>
    PROVE  t \in Keywords(f)
  BY DEF Keywords

LEMMA SkipsHaveKeywords == \A f \in SkipFirst : Keywords(f) # {}
<1>1. /\ "campaign" \in DOMAIN Codes /\ "story" \in DOMAIN Codes /\ "storyline" \in DOMAIN Codes
       /\ "storyline_end" \in DOMAIN Codes /\ "conditional_route" \in DOMAIN Codes
       /\ "lesson" \in DOMAIN Codes /\ "quiz_complete" \in DOMAIN Codes
  BY Names DEF FunctionNames
<1>2. Keywords("audience") # {}
  <2>1. Codes["campaign"] = ParseCampaign
    BY DEF Codes
  <2>2. "audience" \in DOMAIN Codes["campaign"].table /\ Codes["campaign"].table["audience"] = <<Call("audience")>>
    BY <2>1 DEF ParseCampaign, SceneTexts, Block, Code, Upon, ++, Texts, Words, Calls
  <2> QED
    BY <2>2, <1>1, CalledAt
<1>3. Keywords("on_begin") # {}
  <2>1. Codes["story"] = ParseStory
    BY DEF Codes
  <2>2. "on_begin" \in DOMAIN Codes["story"].table /\ Codes["story"].table["on_begin"] = <<Call("on_begin")>>
    BY <2>1 DEF ParseStory, Block, Code, Upon, ++, Ints, Flags, Texts, Calls
  <2> QED
    BY <2>2, <1>1, CalledAt
<1>4. Keywords("on_complete") # {}
  <2>1. Codes["story"] = ParseStory
    BY DEF Codes
  <2>2. /\ "on_complete" \in DOMAIN Codes["story"].table
        /\ Codes["story"].table["on_complete"] = <<Call("on_complete")>>
    BY <2>1 DEF ParseStory, Block, Code, Upon, ++, Ints, Flags, Texts, Calls
  <2> QED
    BY <2>2, <1>1, CalledAt
<1>5. Keywords("on_fail") # {}
  <2>1. Codes["story"] = ParseStory
    BY DEF Codes
  <2>2. "on_fail" \in DOMAIN Codes["story"].table /\ Codes["story"].table["on_fail"] = <<Call("on_fail")>>
    BY <2>1 DEF ParseStory, Block, Code, Upon, ++, Ints, Flags, Texts, Calls
  <2> QED
    BY <2>2, <1>1, CalledAt
<1>6. Keywords("storyline_end") # {}
  <2>1. Codes["storyline"] = ParseStoryline
    BY DEF Codes
  <2>2. /\ "on_fail" \in DOMAIN Codes["storyline"].table
        /\ Codes["storyline"].table["on_fail"] = <<Call("storyline_end")>>
    BY <2>1 DEF ParseStoryline, Block, Code, Upon, ++, Calls
  <2> QED
    BY <2>2, <1>1, CalledAt
<1>7. Keywords("conditional_route") # {}
  <2>1. Codes["storyline_end"] = ParseStorylineEndBlock
    BY DEF Codes
  <2>2. /\ "route" \in DOMAIN Codes["storyline_end"].table
        /\ Codes["storyline_end"].table["route"] = <<Call("conditional_route")>>
    BY <2>1 DEF ParseStorylineEndBlock, Badges, Block, Code, Upon, ++, Texts
  <2> QED
    BY <2>2, <1>1, CalledAt
<1>8. Keywords("required_badges") # {}
  <2>1. Codes["conditional_route"] = ParseConditionalRoute
    BY DEF Codes
  <2>2. /\ "required_badges" \in DOMAIN Codes["conditional_route"].table
        /\ Codes["conditional_route"].table["required_badges"] = <<Call("required_badges")>>
    BY <2>1 DEF ParseConditionalRoute, Block, Code, Upon, ++, Texts, Ints, Calls
  <2> QED
    BY <2>2, <1>1, CalledAt
<1>9. Keywords("lms_content_gen") # {}
  <2>1. Codes["lesson"] = ParseLesson
    BY DEF Codes
  <2> DEFINE A == Texts({"title", "video_url", "content", "media_ref", "lms_duration", "duration_kw", "text_word"})
                  ++ Ints({"order", "drip_days", "drip_hours", "drip_minutes"})
                  ++ Upon({"draft", "is_draft", "is_free"}, <<Skip, Maybe({"bool"})>>)
             G == Upon({"content_gen", "description_gen"}, <<Call("lms_content_gen")>>)
             B == MaybeWords({"choice_word"})
  <2>2. "content_gen" \notin DOMAIN A /\ "content_gen" \in DOMAIN G /\ G["content_gen"] = <<Call("lms_content_gen")>>
    BY DEF Upon, ++, Texts, Ints
  <2>3. Codes["lesson"].table = A ++ G ++ B ++ Unknown
    BY <2>1 DEF ParseLesson, Block, Code
  <2> HIDE DEF A, G, B
  <2>4. /\ "content_gen" \in DOMAIN Codes["lesson"].table
        /\ Codes["lesson"].table["content_gen"] = <<Call("lms_content_gen")>>
    BY <2>2, <2>3 DEF ++
  <2> QED
    BY <2>4, <1>1, CalledAt
<1>10. Keywords("score_rule") # {}
  <2>1. Codes["quiz_complete"] = ParseQuizOnComplete
    BY DEF Codes
  <2>2. /\ "if" \in DOMAIN Codes["quiz_complete"].table
        /\ Codes["quiz_complete"].table["if"] = <<Call("score_rule")>>
    BY <2>1 DEF ParseQuizOnComplete, Block, Code, Upon
  <2> QED
    BY <2>2, <1>1, CalledAt
<1> QED
  BY <1>2, <1>3, <1>4, <1>5, <1>6, <1>7, <1>8, <1>9, <1>10 DEF SkipFirst

LEMMA KeywordsAreNoBraces ==
    ASSUME NEW f \in SkipFirst, NEW t \in Keywords(f) PROVE t \notin Braces
<1>1. PICK g \in DOMAIN Codes : t \in DOMAIN Codes[g].table /\ Head(Codes[g].table[t]) = Call(f)
  BY DEF Keywords
<1> DEFINE s == Codes[g].table[t]
<1>2. s # <<>> /\ ProgramFits(s) /\ (t \in Braces => Unguarded(s))
  BY <1>1, GrammarFits DEF CodeFits, TableFits
<1>3. s[1] = Call(f)
  BY <1>1, <1>2, TailPlaces DEF ProgramFits, LeftFits
<1>4. Guarded(Call(f))
  BY DEF Guarded, Call, I
<1> QED
  BY <1>2, <1>3, <1>4 DEF Unguarded

--------------------------------------------------------------------------------
(* The functions in progress *)

Frame(f, s) == [of |-> f, todo |-> s]

\* Each function in progress but the last goes on with what is safe at any token.
FramesFit ==
    /\ IsSeq(stack)
    /\ \A n \in DOMAIN stack :
         /\ stack[n] = Frame(stack[n].of, stack[n].todo) /\ LeftFits(stack[n].todo)
         /\ n < Depth => Unguarded(stack[n].todo)

\* Nothing is dropped or left at a brace.
Safe(s, t) == s # <<>> /\ Guarded(s[1]) => s[1].op \notin {"return", "break"} /\ t \notin Braces

\* Braces that are open: the function, and the place in it where it closes one.
Pending == {p \in (DOMAIN stack) \X Nat : p[2] \in Due(stack[p[1]].todo)}

BraceInv ==
    ~failed /\ ~strange =>
      /\ FramesFit
      /\ stack # <<>> => Safe(Top.todo, tok)
      /\ IsFiniteSet(Pending) /\ open = Cardinality(Pending)

\* What it is at the head of.
LEMMA AtWork ==
    ASSUME FramesFit, stack # <<>>
    PROVE  /\ Depth \in Nat \ {0} /\ DOMAIN stack = 1 .. Depth /\ Depth \in DOMAIN stack
           /\ LeftFits(Top.todo) /\ Due(Top.todo) \subseteq Nat
           /\ Top.todo # <<>> => /\ Now = Top.todo[1] /\ Fits(Now) /\ Rest = Tail(Top.todo)
                                 /\ Now.op # "report" => LeftFits(Rest) /\ Unguarded(Rest)
<1>1. Depth \in Nat \ {0} /\ DOMAIN stack = 1 .. Depth /\ Depth \in DOMAIN stack
  BY TailPlaces DEF FramesFit, Depth
<1>2. LeftFits(Top.todo)
  BY <1>1 DEF FramesFit, Top
<1>3. ASSUME Top.todo # <<>>
      PROVE  /\ Now = Top.todo[1] /\ Fits(Now) /\ Rest = Tail(Top.todo)
             /\ Now.op # "report" => LeftFits(Rest) /\ Unguarded(Rest)
  <2>1. IsSeq(Top.todo)
    BY <1>2 DEF LeftFits
  <2>2. Now = Top.todo[1] /\ 1 \in DOMAIN Top.todo
    BY <1>3, <2>1, TailPlaces DEF Now
  <2>3. Fits(Now)
    BY <1>2, <2>2 DEF LeftFits
  <2> QED
    BY <1>2, <1>3, <2>2, <2>3, LeftTail DEF Rest
<1>4. Due(Top.todo) \subseteq Nat
  <2>1. Len(Top.todo) \in Nat
    BY <1>2 DEF LeftFits, IsSeq
  <2> QED
    BY <2>1 DEF Due
<1> QED
  BY <1>1, <1>2, <1>3, <1>4

\* The last function gets something else to do.
LEMMA Resumed ==
    ASSUME FramesFit, stack # <<>>, NEW s, LeftFits(s), Resume(s)
    PROVE  /\ FramesFit' /\ stack' # <<>> /\ Depth' = Depth /\ Top'.todo = s
           /\ \A p : p \in Pending' <=> \/ p \in Pending /\ p[1] # Depth
                                        \/ p \in {Depth} \X Nat /\ p[2] \in Due(s)
<1>1. Depth \in Nat \ {0} /\ DOMAIN stack = 1 .. Depth /\ Depth \in DOMAIN stack
  BY AtWork
<1>2. PICK S : stack \in Seq(S)
  BY DEF FramesFit, IsSeq
<1> DEFINE e == Frame(stack[Depth].of, s)
<1>3. stack[Depth] = Frame(stack[Depth].of, stack[Depth].todo)
  BY <1>1 DEF FramesFit
<1>4. /\ DOMAIN stack' = 1 .. Depth /\ stack'[Depth] = e
      /\ \A n \in 1 .. Depth : n # Depth => stack'[n] = stack[n]
  BY <1>1, <1>3 DEF Resume, Frame
<1>5. stack' \in Seq(S \cup {e}) /\ Len(stack') = Depth
  <2>1. stack' = [stack EXCEPT ![Depth] = e]
    <3>1. [stack[Depth] EXCEPT !.todo = s] = e
      BY <1>3 DEF Frame
    <3>2. stack' = [stack EXCEPT ![Depth] = [stack[Depth] EXCEPT !.todo = s]]
      BY DEF Resume
    <3> QED
      BY <3>1, <3>2
  <2> HIDE DEF e
  <2>2. stack \in Seq(S \cup {e}) /\ Depth \in 1 .. Len(stack) /\ Depth = Len(stack)
    BY <1>1, <1>2 DEF Depth
  <2> QED
    BY <2>1, <2>2, ExceptSeq
<1>6. e.of = stack[Depth].of /\ e.todo = s /\ e = Frame(e.of, e.todo)
  BY DEF Frame
<1> HIDE DEF e
<1>7. Depth' = Depth /\ stack' # <<>> /\ Top'.todo = s
  <2>1. Depth' = Depth
    BY <1>5 DEF Depth
  <2>2. stack' # <<>>
    BY <1>1, <1>4
  <2>3. Top' = stack'[Depth]
    BY <2>1 DEF Top
  <2> QED
    BY <2>1, <2>2, <2>3, <1>4, <1>6
<1>8. FramesFit'
  BY <1>1, <1>4, <1>5, <1>6, <1>7 DEF FramesFit, IsSeq
<1>9. ASSUME NEW p
      PROVE  p \in Pending' <=> \/ p \in Pending /\ p[1] # Depth
                                \/ p \in {Depth} \X Nat /\ p[2] \in Due(s)
  <2>1. p \in Pending' <=> p \in (1 .. Depth) \X Nat /\ p[2] \in Due(stack'[p[1]].todo)
    BY <1>4 DEF Pending
  <2>2. p \in Pending <=> p \in (1 .. Depth) \X Nat /\ p[2] \in Due(stack[p[1]].todo)
    BY <1>1 DEF Pending
  <2>3. p \in (1 .. Depth) \X Nat => p[1] \in 1 .. Depth
    OBVIOUS
  <2>4. p \in {Depth} \X Nat <=> p \in (1 .. Depth) \X Nat /\ p[1] = Depth
    BY <1>1
  <2> QED
    BY <2>1, <2>2, <2>3, <2>4, <1>4, <1>6
<1> QED
  BY <1>7, <1>8, <1>9

\* It goes on with as many open braces as before, or opens or closes one.
LEMMA Carries ==
    ASSUME FramesFit, stack # <<>>, IsFiniteSet(Pending), open = Cardinality(Pending),
           NEW s, LeftFits(s), Resume(s), Safe(s, tok'),
           \/ Due(s) = Due(Top.todo) /\ open' = open
           \/ \E k \in Nat : k \notin Due(Top.todo) /\ Due(s) = Due(Top.todo) \cup {k} /\ open' = open + 1
           \/ \E k \in Nat : k \in Due(Top.todo) /\ Due(s) = Due(Top.todo) \ {k} /\ open' = open - 1
    PROVE  BraceInv'
<1>1. /\ FramesFit' /\ stack' # <<>> /\ Top'.todo = s
      /\ \A p : p \in Pending' <=> \/ p \in Pending /\ p[1] # Depth
                                   \/ p \in {Depth} \X Nat /\ p[2] \in Due(s)
  BY Resumed
<1>2. Depth \in DOMAIN stack /\ Due(Top.todo) \subseteq Nat
  BY AtWork
<1>3. \A p : p \in {Depth} \X Nat /\ p[2] \in Due(Top.todo) <=> p \in Pending /\ p[1] = Depth
  BY <1>2 DEF Pending, Top
<1>4. \A k \in Nat : LET p == <<Depth, k>> IN
        p \in {Depth} \X Nat /\ \A q \in {Depth} \X Nat : q = p <=> q[2] = k
  OBVIOUS
<1>5. Safe(Top'.todo, tok')
  BY <1>1
<1>6. ASSUME IsFiniteSet(Pending'), open' = Cardinality(Pending') PROVE BraceInv'
  BY <1>1, <1>5, <1>6 DEF BraceInv
<1>7. CASE Due(s) = Due(Top.todo) /\ open' = open
  <2>1. Pending' = Pending
    BY <1>1, <1>3, <1>7
  <2> QED
    BY <2>1, <1>6, <1>7
<1>8. ASSUME NEW k \in Nat, k \notin Due(Top.todo), Due(s) = Due(Top.todo) \cup {k}, open' = open + 1
      PROVE  BraceInv'
  <2>1. <<Depth, k>> \notin Pending
    BY <1>3, <1>4, <1>8
  <2>2. Pending' = Pending \cup {<<Depth, k>>}
    BY <1>1, <1>3, <1>4, <1>8
  <2> QED
    BY <2>1, <2>2, <1>6, <1>8, FS_AddElement
<1>9. ASSUME NEW k \in Nat, k \in Due(Top.todo), Due(s) = Due(Top.todo) \ {k}, open' = open - 1
      PROVE  BraceInv'
  <2>1. <<Depth, k>> \in Pending
    BY <1>3, <1>4, <1>9
  <2>2. Pending' = Pending \ {<<Depth, k>>}
    BY <1>1, <1>3, <1>4, <1>9
  <2> QED
    BY <2>1, <2>2, <1>6, <1>9, FS_RemoveElement
<1> QED
  BY <1>7, <1>8, <1>9

--------------------------------------------------------------------------------
(* The steps of the parser *)

LEMMA BracesAreNoNames == Braces \cap (Idents \cup IdentLike) = {}
<1>1. "lbrace" \notin IdentLike /\ "rbrace" \notin IdentLike
  BY DEF Idents, IdentLike
<1> QED
  BY <1>1 DEF Braces, IdentLike

LEMMA AmongOthers ==
    ASSUME NEW S, IsAmong(tok, S)
    PROVE  (S \cap Braces = {} => tok \notin Braces) /\ \A t \in Braces : S = {t} => tok = t
<1>1. "ident" \notin Braces /\ "name" \notin Braces
  BY DEF Braces
<1> QED
  BY <1>1, BracesAreNoNames DEF IsAmong

\* Taking a token.
LEMMA Advanced ==
    ASSUME Advance, ~failed, ~strange'
    PROVE  /\ tok = "lbrace" => open' = open + 1
           /\ tok = "rbrace" => open' = open - 1
           /\ tok \notin Braces => open' = open
<1>1. CASE tok = "eof"
  BY <1>1 DEF Advance, Braces
<1>2. CASE tok # "eof"
  <2>1. open' = CASE failed \/ strange' -> 0 [] tok = "lbrace" -> open + 1 [] tok = "rbrace" -> open - 1
                  [] OTHER -> open
    BY <1>2 DEF Advance
  <2>2. ~(failed \/ strange')
    OBVIOUS
  <2>3. CASE tok = "lbrace"
    BY <2>1, <2>2, <2>3 DEF Braces
  <2>4. CASE tok = "rbrace"
    BY <2>1, <2>2, <2>4 DEF Braces
  <2>5. CASE tok \notin Braces
    BY <2>1, <2>2, <2>5 DEF Braces
  <2> QED
    BY <2>3, <2>4, <2>5 DEF Braces
<1> QED
  BY <1>1, <1>2

\* What the table of a function says about the token.
LEMMA ChosenFits ==
    ASSUME NEW f \in DOMAIN Codes, f \in SkipOther => tok \notin Braces
    PROVE  ProgramFits(Chosen(f)) /\ (tok \in Braces => Unguarded(Chosen(f)))
<1> DEFINE c == Codes[f]
<1>1. CodeFits(f)
  BY GrammarFits
<1>2. /\ ProgramFits(c.other) /\ (f \notin SkipOther => Unguarded(c.other))
      /\ \A t \in DOMAIN c.table : ProgramFits(c.table[t]) /\ (t \in Braces => Unguarded(c.table[t]))
  BY <1>1 DEF CodeFits, TableFits
<1>3. tok \in Idents \cup IdentLike => tok \notin Braces
  BY BracesAreNoNames
<1>4. Chosen(f) =
        CASE tok \in DOMAIN c.table -> c.table[tok]
          [] tok \in Idents \ DOMAIN c.table /\ "ident" \in DOMAIN c.table -> c.table["ident"]
          [] tok \in IdentLike \ DOMAIN c.table /\ {"ident", "name"} \cap DOMAIN c.table = {"name"} -> c.table["name"]
          [] OTHER -> c.other
  BY DEF Chosen
<1> HIDE DEF c
<1>5. CASE tok \in DOMAIN c.table
  <2>1. Chosen(f) = c.table[tok]
    BY <1>4, <1>5
  <2> QED
    BY <2>1, <1>2, <1>5
<1>6. CASE tok \in Idents \ DOMAIN c.table /\ "ident" \in DOMAIN c.table
  <2>1. Chosen(f) = c.table["ident"]
    BY <1>4, <1>6
  <2> QED
    BY <2>1, <1>2, <1>3, <1>6
<1>7. CASE tok \in IdentLike \ DOMAIN c.table /\ {"ident", "name"} \cap DOMAIN c.table = {"name"}
  <2>1. Chosen(f) = c.table["name"]
    BY <1>4, <1>7
  <2> QED
    BY <2>1, <1>2, <1>3, <1>7
<1>8. CASE ~ \/ tok \in DOMAIN c.table
             \/ tok \in Idents \ DOMAIN c.table /\ "ident" \in DOMAIN c.table
             \/ tok \in IdentLike \ DOMAIN c.table /\ {"ident", "name"} \cap DOMAIN c.table = {"name"}
  <2>1. Chosen(f) = c.other
    BY <1>4, <1>8
  <2> QED
    BY <2>1, <1>2
<1> QED
  BY <1>5, <1>6, <1>7, <1>8

\* Putting that before the rest is safe.
LEMMA ChosenJoins ==
    ASSUME NEW f \in DOMAIN Codes, f \in SkipOther => tok \notin Braces, NEW r, LeftFits(r), Unguarded(r)
    PROVE  LET s == Chosen(f) \o r IN LeftFits(s) /\ Due(s) = Due(r) /\ Safe(s, tok)
<1>1. ProgramFits(Chosen(f)) /\ (tok \in Braces => Unguarded(Chosen(f)))
  BY ChosenFits
<1> DEFINE c == Chosen(f)
           s == c \o r
<1> HIDE DEF c
<1>2. /\ LeftFits(s) /\ Due(s) = Due(r) /\ (c = <<>> => s = r)
      /\ c # <<>> => s # <<>> /\ s[1] = c[1]
  BY <1>1, Join DEF c
<1> HIDE DEF s
<1>3. Safe(s, tok)
  <2>1. CASE c = <<>>
    BY <2>1, <1>2 DEF Safe, Unguarded
  <2>2. CASE c # <<>>
    <3>1. c[1].op \notin {"return", "break"} /\ (tok \in Braces => ~Guarded(c[1]))
      BY <1>1, <2>2 DEF ProgramFits, Unguarded, c
    <3> QED
      BY <3>1, <2>2, <1>2 DEF Safe
  <2> QED
    BY <2>1, <2>2
<1> QED
  BY <1>2, <1>3 DEF s, c

\* What the parser is at, before it has an error to report.
LEMMA AtInstruction ==
    ASSUME BraceInv, ~failed, ~strange, NEW op, Does(op)
    PROVE  /\ FramesFit /\ stack # <<>> /\ IsFiniteSet(Pending) /\ open = Cardinality(Pending)
           /\ Top.todo # <<>> /\ Now.op = op /\ Fits(Now) /\ Now = Top.todo[1] /\ LeftFits(Top.todo)
           /\ Guarded(Now) => op \notin {"return", "break"} /\ tok \notin Braces
           /\ op # "report" => LeftFits(Rest) /\ Unguarded(Rest) /\ \A t : Safe(Rest, t)
           /\ op # "expect" => Due(Rest) = Due(Top.todo)
<1>1. stack # <<>> /\ Top.todo # <<>> /\ Now.op = op
  BY DEF Does
<1>2. FramesFit /\ IsFiniteSet(Pending) /\ open = Cardinality(Pending) /\ Safe(Top.todo, tok)
  BY <1>1 DEF BraceInv
<1>3. /\ Now = Top.todo[1] /\ Fits(Now) /\ Rest = Tail(Top.todo) /\ LeftFits(Top.todo)
      /\ Now.op # "report" => LeftFits(Rest) /\ Unguarded(Rest)
  BY <1>1, <1>2, AtWork
<1>4. op # "report" => \A t : Safe(Rest, t)
  BY <1>1, <1>3 DEF Safe, Unguarded
<1>5. Guarded(Now) => op \notin {"return", "break"} /\ tok \notin Braces
  BY <1>1, <1>2, <1>3 DEF Safe
<1>6. op # "expect" => Due(Rest) = Due(Top.todo)
  <2>1. OpenBrace.op = "expect" /\ CloseBrace.op = "expect"
    BY DEF OpenBrace, CloseBrace, Expect, I
  <2>2. op # "expect" => Top.todo[1] \notin {OpenBrace, CloseBrace}
    BY <2>1, <1>1, <1>3
  <2> QED
    BY <2>2, <1>1, <1>3, DueTail
<1> QED
  BY <1>1, <1>2, <1>3, <1>4, <1>5, <1>6

LEMMA ExpectsStep == ASSUME BraceInv, Expects, ~failed', ~strange' PROVE BraceInv'
<1>1. IsAmong(tok, Now.arg) /\ failed' = failed /\ strange' = strange /\ Advance
  BY DEF Expects, Reporting
<1>2. ~failed /\ ~strange
  BY <1>1, Zenon
<1>3. Does("expect") /\ Resume(Rest)
  BY DEF Expects
<1>4. /\ FramesFit /\ stack # <<>> /\ IsFiniteSet(Pending) /\ open = Cardinality(Pending)
      /\ Top.todo # <<>> /\ Now.op = "expect" /\ Fits(Now) /\ Now = Top.todo[1] /\ LeftFits(Top.todo)
      /\ LeftFits(Rest) /\ Safe(Rest, tok')
  BY <1>2, <1>3, AtInstruction
<1>5. /\ tok = "lbrace" => open' = open + 1
      /\ tok = "rbrace" => open' = open - 1
      /\ tok \notin Braces => open' = open
  BY <1>1, <1>2, Advanced
<1>6. /\ Now = I("expect", Now.arg)
      /\ Now.arg \in {{"lbrace"}, {"rbrace"}} \/ Now.arg \cap Braces = {}
  BY <1>4 DEF Fits
<1>7. CASE Now.arg = {"lbrace"}
  <2>1. tok = "lbrace"
    BY <1>1, <1>7, AmongOthers DEF Braces
  <2>2. Top.todo[1] = OpenBrace
    BY <1>4, <1>6, <1>7 DEF OpenBrace, Expect
  <2>3. /\ Len(Top.todo) - 3 \in Nat /\ Len(Top.todo) - 3 \notin Due(Top.todo)
        /\ Due(Rest) = Due(Top.todo) \cup {Len(Top.todo) - 3}
    BY <1>4, <2>2, DueTail DEF Rest
  <2> QED
    BY <1>3, <1>4, <1>5, <2>1, <2>3, Carries
<1>8. CASE Now.arg = {"rbrace"}
  <2>1. tok = "rbrace"
    BY <1>1, <1>8, AmongOthers DEF Braces
  <2>2. Top.todo[1] = CloseBrace
    BY <1>4, <1>6, <1>8 DEF CloseBrace, Expect
  <2>3. /\ Len(Top.todo) - 1 \in Nat /\ Len(Top.todo) - 1 \in Due(Top.todo)
        /\ Due(Rest) = Due(Top.todo) \ {Len(Top.todo) - 1}
    BY <1>4, <2>2, DueTail DEF Rest
  <2> QED
    BY <1>3, <1>4, <1>5, <2>1, <2>3, Carries
<1>9. CASE Now.arg \cap Braces = {}
  <2>1. tok \notin Braces
    BY <1>1, <1>9, AmongOthers
  <2>2. OpenBrace.arg = {"lbrace"} /\ CloseBrace.arg = {"rbrace"}
    BY DEF OpenBrace, CloseBrace, Expect, I
  <2>3. Top.todo[1] \notin {OpenBrace, CloseBrace}
    BY <1>4, <1>9, <2>2 DEF Braces
  <2>4. Due(Rest) = Due(Top.todo)
    BY <1>4, <2>3, DueTail DEF Rest
  <2> QED
    BY <1>3, <1>4, <1>5, <2>1, <2>4, Carries
<1> QED
  BY <1>6, <1>7, <1>8, <1>9

LEMMA AdvancesStep == ASSUME BraceInv, Advances, ~failed', ~strange' PROVE BraceInv'
<1>1. failed' = failed /\ strange' = (strange \/ (Now.op = "take" /\ ~IsAmong(tok, Word \cup {"eof"})))
  BY DEF Advances
<1>2. ~failed /\ ~strange /\ ~(Now.op = "take" /\ ~IsAmong(tok, Word \cup {"eof"}))
  BY <1>1, Zenon
<1>3. /\ Resume(Rest) /\ Advance
      /\ Does("skip") \/ Does("take") \/ (Does("maybe") /\ IsAmong(tok, Now.arg))
  BY DEF Advances
<1>4. PICK op \in {"skip", "take", "maybe"} : Does(op) /\ (op = "maybe" => IsAmong(tok, Now.arg))
  BY <1>3
<1>5. /\ FramesFit /\ stack # <<>> /\ IsFiniteSet(Pending) /\ open = Cardinality(Pending)
      /\ Now.op = op /\ Fits(Now) /\ (Guarded(Now) => tok \notin Braces)
      /\ LeftFits(Rest) /\ Safe(Rest, tok') /\ Due(Rest) = Due(Top.todo)
  BY <1>2, <1>4, AtInstruction
<1>6. tok \notin Braces
  <2>1. CASE op = "skip"
    BY <1>5, <2>1 DEF Guarded
  <2>2. CASE op = "take"
    <3>1. IsAmong(tok, Word \cup {"eof"})
      BY <1>2, <1>5, <2>2
    <3>2. (Word \cup {"eof"}) \cap Braces = {}
      BY DEF Word, Braces
    <3> QED
      BY <3>1, <3>2, AmongOthers
  <2>3. CASE op = "maybe"
    BY <1>4, <1>5, <2>3, AmongOthers DEF Fits
  <2> QED
    BY <2>1, <2>2, <2>3
<1>7. open' = open
  BY <1>2, <1>3, <1>6, Advanced
<1> QED
  BY <1>3, <1>5, <1>7, Carries

LEMMA PassesStep == ASSUME BraceInv, Passes, ~failed', ~strange' PROVE BraceInv'
<1>1. Does("maybe") /\ Resume(Rest) /\ tok' = tok /\ failed' = failed /\ strange' = strange /\ open' = open
  BY DEF Passes, Quiet
<1>2. ~failed /\ ~strange
  BY <1>1, Zenon
<1>3. /\ FramesFit /\ stack # <<>> /\ IsFiniteSet(Pending) /\ open = Cardinality(Pending)
      /\ LeftFits(Rest) /\ Safe(Rest, tok') /\ Due(Rest) = Due(Top.todo)
  BY <1>1, <1>2, AtInstruction
<1> QED
  BY <1>1, <1>3, Carries

LEMMA PicksStep == ASSUME BraceInv, Picks, ~failed', ~strange' PROVE BraceInv'
<1>1. /\ Does("pick") /\ Resume(Chosen(It) \o Rest)
      /\ tok' = tok /\ failed' = failed /\ strange' = strange /\ open' = open
  BY DEF Picks, Quiet
<1>2. ~failed /\ ~strange
  BY <1>1, Zenon
<1>3. /\ FramesFit /\ stack # <<>> /\ IsFiniteSet(Pending) /\ open = Cardinality(Pending)
      /\ Now.op = "pick" /\ Fits(Now) /\ (Guarded(Now) => tok \notin Braces)
      /\ LeftFits(Rest) /\ Unguarded(Rest) /\ Due(Rest) = Due(Top.todo)
  BY <1>1, <1>2, AtInstruction
<1>4. It \in DOMAIN Codes /\ Now.arg = {It}
  BY <1>3 DEF Fits, It
<1>5. It \in SkipOther => tok \notin Braces
  BY <1>3, <1>4 DEF Guarded
<1> DEFINE s == Chosen(It) \o Rest
<1>6. LeftFits(s) /\ Due(s) = Due(Rest) /\ Safe(s, tok)
  BY <1>3, <1>4, <1>5, ChosenJoins
<1>7. Resume(s)
  BY <1>1
<1> HIDE DEF s
<1>8. Safe(s, tok') /\ Due(s) = Due(Top.todo)
  BY <1>1, <1>3, <1>6
<1> QED
  BY <1>1, <1>3, <1>6, <1>7, <1>8, Carries

LEMMA LoopsStep == ASSUME BraceInv, Loops, ~failed', ~strange' PROVE BraceInv'
<1>1. /\ Does("loop") /\ tok' = tok /\ failed' = failed /\ strange' = strange /\ open' = open
      /\ Resume(Chosen(It) \o Top.todo) \/ Resume(Rest)
  BY DEF Loops, Quiet
<1>2. ~failed /\ ~strange
  BY <1>1, Zenon
<1>3. /\ FramesFit /\ stack # <<>> /\ IsFiniteSet(Pending) /\ open = Cardinality(Pending)
      /\ Now.op = "loop" /\ Fits(Now) /\ Now = Top.todo[1] /\ LeftFits(Top.todo)
      /\ LeftFits(Rest) /\ Safe(Rest, tok') /\ Due(Rest) = Due(Top.todo)
  BY <1>1, <1>2, AtInstruction
<1>4. It \in (DOMAIN Codes) \ SkipOther
  BY <1>3 DEF Fits, It
<1>5. Unguarded(Top.todo)
  BY <1>3 DEF Unguarded, Guarded
<1>6. CASE Resume(Rest)
  BY <1>1, <1>3, <1>6, Carries
<1>7. CASE Resume(Chosen(It) \o Top.todo)
  <2> DEFINE s == Chosen(It) \o Top.todo
  <2>1. LeftFits(s) /\ Due(s) = Due(Top.todo) /\ Safe(s, tok)
    BY <1>3, <1>4, <1>5, ChosenJoins
  <2>2. Resume(s)
    BY <1>7
  <2> HIDE DEF s
  <2>3. Safe(s, tok')
    BY <1>1, <2>1
  <2> QED
    BY <1>1, <1>3, <2>1, <2>2, <2>3, Carries
<1> QED
  BY <1>1, <1>6, <1>7

\* A function that is called goes before the one that calls it.
LEMMA CallsStep == ASSUME BraceInv, CallsFunction, ~failed', ~strange' PROVE BraceInv'
<1>1. /\ Does("call") /\ tok' = tok /\ failed' = failed /\ strange' = strange /\ open' = open
      /\ stack' = Append([stack EXCEPT ![Depth].todo = Rest], [of |-> It, todo |-> Codes[It].items])
  BY DEF CallsFunction, Quiet
<1>2. ~failed /\ ~strange
  BY <1>1, Zenon
<1>3. /\ FramesFit /\ stack # <<>> /\ IsFiniteSet(Pending) /\ open = Cardinality(Pending)
      /\ Now.op = "call" /\ Fits(Now) /\ (Guarded(Now) => tok \notin Braces)
      /\ LeftFits(Rest) /\ Unguarded(Rest) /\ Due(Rest) = Due(Top.todo)
  BY <1>1, <1>2, AtInstruction
<1>4. It \in DOMAIN Codes /\ Now.arg = {It}
  BY <1>3 DEF Fits, It
<1>5. It \in SkipFirst => tok \notin Braces
  BY <1>3, <1>4 DEF Guarded
<1> DEFINE items == Codes[It].items
           e == Frame(stack[Depth].of, Rest)
           g == Frame(It, items)
           d == Depth
<1>6. ProgramFits(items) /\ (It \notin SkipFirst => Unguarded(items))
  BY <1>4, GrammarFits DEF CodeFits
<1>7. LeftFits(items) /\ Due(items) = {} /\ Safe(items, tok)
  <2>1. LeftFits(items) /\ Due(items) = {}
    BY <1>6, FitDue DEF ProgramFits
  <2>2. Safe(items, tok)
    BY <1>5, <1>6 DEF ProgramFits, Unguarded, Safe
  <2> QED
    BY <2>1, <2>2
<1>8. d \in Nat \ {0} /\ DOMAIN stack = 1 .. d
  BY <1>3, AtWork
<1>9. /\ Len(stack') = d + 1 /\ DOMAIN stack' = 1 .. d + 1 /\ IsSeq(stack')
      /\ stack'[d + 1] = g /\ stack'[d] = e
      /\ \A n \in 1 .. d - 1 : stack'[n] = stack[n]
  <2>1. PICK S : stack \in Seq(S)
    BY <1>3 DEF FramesFit, IsSeq
  <2>2. stack[d] = Frame(stack[d].of, stack[d].todo)
    BY <1>3, <1>8 DEF FramesFit
  <2>3. [stack[d] EXCEPT !.todo = Rest] = e
    BY <2>2 DEF Frame
  <2>4. stack' = Append([stack EXCEPT ![d] = [stack[d] EXCEPT !.todo = Rest]], g)
    BY <1>1 DEF Frame
  <2> DEFINE m == [stack EXCEPT ![d] = e]
  <2>5. stack' = Append(m, g)
    BY <2>3, <2>4
  <2> HIDE DEF e, g
  <2>6. stack \in Seq(S \cup {e, g}) /\ d \in 1 .. Len(stack) /\ d = Len(stack)
    BY <1>8, <2>1 DEF Depth
  <2>7. m \in Seq(S \cup {e, g}) /\ Len(m) = d
    BY <2>6, ExceptSeq
  <2>8. m[d] = e /\ \A n \in 1 .. d - 1 : m[n] = stack[n]
    BY <1>8
  <2> HIDE DEF m, d
  <2>9. stack' \in Seq(S \cup {e, g}) /\ Len(stack') = d + 1 /\ DOMAIN stack' = 1 .. d + 1
    BY <2>5, <2>7
  <2>10. stack'[d + 1] = g /\ \A n \in 1 .. d : stack'[n] = m[n]
    BY <2>5, <2>7
  <2>11. d \in 1 .. d /\ \A n \in 1 .. d - 1 : n \in 1 .. d
    BY <1>8
  <2> QED
    BY <2>8, <2>9, <2>10, <2>11 DEF IsSeq
<1>10. e.todo = Rest /\ g.todo = items /\ e = Frame(e.of, e.todo) /\ g = Frame(g.of, g.todo)
  BY DEF Frame
<1> HIDE DEF e, g, items, d
<1>11. Depth' = d + 1 /\ stack' # <<>> /\ Top'.todo = items
  <2>1. Depth' = d + 1
    BY <1>9 DEF Depth
  <2>2. Top' = stack'[d + 1]
    BY <2>1 DEF Top
  <2>3. stack' # <<>>
    BY <1>8, <1>9
  <2> QED
    BY <2>1, <2>2, <2>3, <1>9, <1>10
<1>12. \A n \in 1 .. d + 1 : n = d + 1 \/ n = d \/ n \in 1 .. d - 1
  BY <1>8
<1>13. FramesFit'
  <2>1. ASSUME NEW n \in 1 .. d + 1
        PROVE  /\ stack'[n] = Frame(stack'[n].of, stack'[n].todo) /\ LeftFits(stack'[n].todo)
               /\ n < d + 1 => Unguarded(stack'[n].todo)
    <3>1. CASE n = d + 1
      BY <3>1, <1>7, <1>8, <1>9, <1>10
    <3>2. CASE n = d
      BY <3>2, <1>3, <1>9, <1>10
    <3>3. CASE n \in 1 .. d - 1
      <4>1. stack'[n] = stack[n] /\ n \in DOMAIN stack /\ n < Depth
        BY <3>3, <1>8, <1>9 DEF d
      <4> QED
        BY <4>1, <1>3 DEF FramesFit
    <3> QED
      BY <3>1, <3>2, <3>3, <1>12
  <2> QED
    BY <2>1, <1>9, <1>11 DEF FramesFit
<1>14. Pending' = Pending
  <2>1. ASSUME NEW n \in 1 .. d + 1, NEW k
        PROVE  k \in Due(stack'[n].todo) <=> n \in 1 .. d /\ k \in Due(stack[n].todo)
    <3>1. CASE n = d + 1
      <4>1. n \notin 1 .. d
        BY <3>1, <1>8
      <4> QED
        BY <4>1, <3>1, <1>7, <1>9, <1>10
    <3>2. CASE n = d
      <4>1. n \in 1 .. d /\ stack[n] = Top
        BY <3>2, <1>8 DEF Top, d
      <4> QED
        BY <4>1, <3>2, <1>3, <1>9, <1>10
    <3>3. CASE n \in 1 .. d - 1
      BY <3>3, <1>8, <1>9
    <3> QED
      BY <3>1, <3>2, <3>3, <1>12
  <2>2. \A p : p \in Pending' <=> p \in (1 .. d + 1) \X Nat /\ p[2] \in Due(stack'[p[1]].todo)
    BY <1>9 DEF Pending
  <2>3. \A p : p \in Pending <=> p \in (1 .. d) \X Nat /\ p[2] \in Due(stack[p[1]].todo)
    BY <1>8 DEF Pending
  <2>4. \A p : p \in (1 .. d + 1) \X Nat => p[1] \in 1 .. d + 1
    OBVIOUS
  <2>5. \A p : p \in (1 .. d) \X Nat <=> p \in (1 .. d + 1) \X Nat /\ p[1] \in 1 .. d
    BY <1>8
  <2>6. ASSUME NEW p PROVE p \in Pending' <=> p \in Pending
    BY <2>1, <2>2, <2>3, <2>4, <2>5
  <2> QED
    BY <2>6 DEF Pending
<1> QED
  BY <1>1, <1>3, <1>7, <1>11, <1>13, <1>14 DEF BraceInv

LEMMA ReturnsStep == ASSUME BraceInv, Returns, ~failed', ~strange' PROVE BraceInv'
<1>1. /\ stack # <<>> /\ (Top.todo = <<>> \/ Does("return")) /\ stack' = SubSeq(stack, 1, Depth - 1)
      /\ tok' = tok /\ failed' = failed /\ strange' = strange /\ open' = open
  BY DEF Returns, Leave, Quiet
<1>2. ~failed /\ ~strange
  BY <1>1, Zenon
<1>3. FramesFit /\ IsFiniteSet(Pending) /\ open = Cardinality(Pending)
  BY <1>1, <1>2 DEF BraceInv
<1>4. Top.todo = <<>>
  <2>1. ~Does("return")
    <3>1. SUFFICES ASSUME Does("return") PROVE FALSE
      OBVIOUS
    <3>2. Now.op = "return" /\ ~Guarded(Now)
      BY <1>2, <3>1, AtInstruction
    <3> QED
      BY <3>2 DEF Guarded
  <2> QED
    BY <2>1, <1>1
<1> DEFINE d == Depth
<1>5. d \in Nat \ {0} /\ DOMAIN stack = 1 .. d
  BY <1>1, <1>3, AtWork
<1>6. /\ Len(stack') = d - 1 /\ DOMAIN stack' = 1 .. d - 1 /\ IsSeq(stack')
      /\ \A n \in 1 .. d - 1 : stack'[n] = stack[n]
  <2>1. PICK S : stack \in Seq(S)
    BY <1>3 DEF FramesFit, IsSeq
  <2>2. d = Len(stack)
    BY DEF Depth
  <2>3. stack' = SubSeq(stack, 1, d - 1) /\ d - 1 \in 0 .. Len(stack)
    BY <1>1, <1>5, <2>2
  <2> HIDE DEF d
  <2>4. stack' \in Seq(S) /\ Len(stack') = d - 1 /\ \A n \in 1 .. d - 1 : stack'[n] = stack[n]
    BY <2>1, <2>2, <2>3, <1>5, SubSeqProperties
  <2> QED
    BY <2>4 DEF IsSeq
<1> HIDE DEF d
<1>7. Depth' = d - 1
  BY <1>6 DEF Depth
<1>8. \A n \in 1 .. d - 1 : n \in 1 .. d /\ n < d
  BY <1>5
<1>9. FramesFit'
  <2>1. ASSUME NEW n \in 1 .. d - 1
        PROVE  /\ stack'[n] = Frame(stack'[n].of, stack'[n].todo) /\ LeftFits(stack'[n].todo)
               /\ Unguarded(stack'[n].todo)
    BY <1>3, <1>5, <1>6, <1>8 DEF FramesFit, d
  <2> QED
    BY <2>1, <1>6 DEF FramesFit
<1>10. stack' # <<>> => Safe(Top'.todo, tok')
  <2>1. SUFFICES ASSUME stack' # <<>> PROVE Safe(Top'.todo, tok')
    OBVIOUS
  <2>2. d - 1 \in 1 .. d - 1
    BY <2>1, <1>5, <1>6 DEF IsSeq
  <2>3. Top' = stack[d - 1]
    BY <2>2, <1>6, <1>7 DEF Top
  <2>4. Unguarded(stack[d - 1].todo)
    BY <2>2, <1>3, <1>5, <1>8 DEF FramesFit, d
  <2> QED
    BY <2>3, <2>4 DEF Safe, Unguarded
<1>11. Pending' = Pending
  <2>1. Due(stack[d].todo) = {}
    <3>1. Len(<<>>) = 0 /\ 0 .. 0 - 1 = {}
      OBVIOUS
    <3> QED
      BY <3>1, <1>4 DEF Due, Top, d
  <2>2. \A p : p \in Pending' <=> p \in (1 .. d - 1) \X Nat /\ p[2] \in Due(stack'[p[1]].todo)
    BY <1>6 DEF Pending
  <2>3. \A p : p \in Pending <=> p \in (1 .. d) \X Nat /\ p[2] \in Due(stack[p[1]].todo)
    BY <1>5 DEF Pending
  <2>4. \A n \in 1 .. d : n = d \/ n \in 1 .. d - 1
    BY <1>5
  <2>5. \A p : p \in (1 .. d) \X Nat => p[1] \in 1 .. d
    OBVIOUS
  <2>6. \A p : p \in (1 .. d - 1) \X Nat <=> p \in (1 .. d) \X Nat /\ p[1] \in 1 .. d - 1
    BY <1>5
  <2>7. ASSUME NEW p PROVE p \in Pending' <=> p \in Pending
    BY <2>1, <2>2, <2>3, <2>4, <2>5, <2>6, <1>6
  <2> QED
    BY <2>7 DEF Pending
<1> QED
  BY <1>1, <1>3, <1>9, <1>10, <1>11 DEF BraceInv

LEMMA BraceStep == ASSUME BraceInv, [ParserNext]_parserVars PROVE BraceInv'
<1>1. CASE failed' \/ strange'
  BY <1>1 DEF BraceInv
<1>2. CASE ~failed' /\ ~strange'
  <2>1. CASE Expects
    BY <2>1, <1>2, ExpectsStep
  <2>2. CASE Advances
    BY <2>2, <1>2, AdvancesStep
  <2>3. CASE Passes
    BY <2>3, <1>2, PassesStep
  <2>4. CASE Reports
    BY <2>4, <1>2 DEF Reports, Reporting
  <2>5. CASE Picks
    BY <2>5, <1>2, PicksStep
  <2>6. CASE Loops
    BY <2>6, <1>2, LoopsStep
  <2>7. CASE Breaks
    <3>1. Does("break") /\ failed' = failed /\ strange' = strange
      BY <2>7 DEF Breaks, Quiet
    <3>2. ~failed /\ ~strange
      BY <3>1, <1>2, Zenon
    <3>3. Now.op = "break" /\ ~Guarded(Now)
      BY <3>1, <3>2, AtInstruction
    <3> QED
      BY <3>3 DEF Guarded
  <2>8. CASE CallsFunction
    BY <2>8, <1>2, CallsStep
  <2>9. CASE Returns
    BY <2>9, <1>2, ReturnsStep
  <2>10. CASE UNCHANGED parserVars
    <3>1. /\ stack' = stack /\ tok' = tok /\ open' = open
          /\ failed' = failed /\ strange' = strange
      BY <2>10 DEF parserVars
    <3>2. ~failed /\ ~strange
      BY <3>1, <1>2, Zenon
    <3>3. Pending' = Pending
      BY <3>1 DEF Pending
    <3>4. FramesFit' /\ (stack' # <<>> => Safe(Top'.todo, tok'))
      BY <3>1, <3>2 DEF BraceInv, FramesFit, Depth, Top
    <3> QED
      BY <3>1, <3>2, <3>3, <3>4 DEF BraceInv
  <2> QED
    BY <2>1, <2>2, <2>3, <2>4, <2>5, <2>6, <2>7, <2>8, <2>9, <2>10 DEF ParserNext
<1> QED
  BY <1>1, <1>2, Zenon

LEMMA BraceStart == ASSUME ParserInit PROVE BraceInv
<1>1. PICK f \in Roots : /\ stack = <<[of |-> f, todo |-> Codes[f].items]>>
                         /\ tok \in IF Keywords(f) = {} THEN Tokens(stack) ELSE Keywords(f)
  BY DEF ParserInit
<1>2. f \in DOMAIN Codes
  BY ParserConstants
<1> DEFINE items == Codes[f].items
<1>3. ProgramFits(items) /\ (f \notin SkipFirst => Unguarded(items))
  BY <1>2, GrammarFits DEF CodeFits
<1>4. LeftFits(items) /\ Due(items) = {}
  BY <1>3, FitDue DEF ProgramFits
<1>5. f \in SkipFirst => tok \notin Braces
  <2>1. SUFFICES ASSUME f \in SkipFirst PROVE tok \notin Braces
    OBVIOUS
  <2>2. tok \in Keywords(f)
    BY <1>1, <2>1, SkipsHaveKeywords
  <2> QED
    BY <2>1, <2>2, KeywordsAreNoBraces
<1>6. Safe(items, tok)
  BY <1>3, <1>5 DEF ProgramFits, Unguarded, Safe
<1>7. stack = <<Frame(f, items)>>
  BY <1>1 DEF Frame
<1> HIDE DEF items
<1> DEFINE g == Frame(f, items)
<1>8. g.todo = items /\ g = Frame(g.of, g.todo)
  BY DEF Frame
<1> HIDE DEF g
<1>9. Len(stack) = 1 /\ DOMAIN stack = {1} /\ stack[1] = g /\ IsSeq(stack)
  <2>1. stack = <<g>>
    BY <1>7 DEF g
  <2>2. stack \in Seq({g}) /\ Len(stack) = 1 /\ stack[1] = g
    BY <2>1
  <2>3. DOMAIN stack = {1}
    BY <2>2
  <2> QED
    BY <2>2, <2>3 DEF IsSeq
<1>10. Depth = 1 /\ Top = g
  BY <1>9 DEF Depth, Top
<1>11. FramesFit
  BY <1>4, <1>8, <1>9, <1>10 DEF FramesFit
<1>12. Pending = {}
  <2>1. ASSUME NEW p \in Pending PROVE FALSE
    <3>1. p \in {1} \X Nat /\ p[2] \in Due(stack[p[1]].todo)
      BY <1>9 DEF Pending
    <3>2. p[1] = 1
      BY <3>1
    <3> QED
      BY <3>1, <3>2, <1>4, <1>8, <1>9
  <2> QED
    BY <2>1
<1>13. open = 0
  BY DEF ParserInit
<1> QED
  BY <1>6, <1>8, <1>10, <1>11, <1>12, <1>13, FS_EmptySet DEF BraceInv

\* A script the parser has no error to report of closes the braces it opens and
\* no others, whatever it is and however deep its blocks (parser.go: each block
\* expects its "{" and its "}"), as long as no brace was taken for a name.
THEOREM BracesMatch == ParserSpec => []WellBracketed
<1>1. ParserInit => BraceInv
  BY BraceStart
<1>2. BraceInv /\ [ParserNext]_parserVars => BraceInv'
  BY BraceStep
<1>3. BraceInv => WellBracketed
  <2>1. SUFFICES ASSUME BraceInv, ~failed, ~strange PROVE open >= 0 /\ (stack = <<>> => open = 0)
    BY DEF WellBracketed
  <2>2. IsFiniteSet(Pending) /\ open = Cardinality(Pending)
    BY <2>1 DEF BraceInv
  <2>3. open \in Nat
    BY <2>2, FS_CardinalityType
  <2>4. stack = <<>> => Pending = {}
    <3>1. ASSUME stack = <<>>, NEW p \in Pending PROVE FALSE
      BY <3>1 DEF Pending
    <3> QED
      BY <3>1
  <2> QED
    BY <2>2, <2>3, <2>4, FS_EmptySet
<1> QED
  BY <1>1, <1>2, <1>3, PTL DEF ParserSpec
================================================================================
