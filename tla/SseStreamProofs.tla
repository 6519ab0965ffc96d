---------------------------- MODULE SseStreamProofs ----------------------------
(***************************************************************************)
(* Proofs about a stream of events: however the network cuts the text into *)
(* chunks or cuts it off, and whichever way the frames are written, the    *)
(* application receives the handler's events in order and without a gap,   *)
(* and both ends agree on how the stream ended; and the generator is       *)
(* finished when the response is ended. For all scripts, sizes and limits. *)
(***************************************************************************)
EXTENDS SseStream, TLAPS

-----------------------------------------------------------------------------
(* The text is a sequence of lines. A line is of frame no, and of event ev, *)
(* which is 0 in an error's frame; it has len pieces, after base of the     *)
(* lines before.                                                            *)

Sym == [c : {"LF", "CR", "data", "error", "comment", "piece"}, v : Nat \X Nat]
Kind == {"comment", "error", "data", "blank"}
Line == [kind : Kind, no : Nat \ {0}, ev : Nat, base : Nat, len : Nat]

Total(ev) == IF ev = 0 THEN 1 ELSE script.events[ev].size
Share(ev) == IF style = "pretty" THEN 1 ELSE Total(ev)
Return == IF style = "crlf" THEN <<CR>> ELSE <<>>

Pieces(ev, base, len) == [k \in 1..len |-> Piece(ev, base + k)]

Body(ln) ==
    CASE ln.kind = "comment" -> <<CommentLine>>
      [] ln.kind = "error"   -> <<EventError>>
      [] ln.kind = "data"    -> <<DataField>> \o Pieces(ln.ev, ln.base, ln.len)
      [] ln.kind = "blank"   -> <<>>

\* without its line feed
Txt(ln) == Body(ln) \o Return

Opening(ln) == ln.kind # "blank" /\ ln.base = 0 /\ (ln.ev = 0 => ln.kind = "error")

LineOk(ln) ==
    /\ ln \in Line
    /\ ln.ev \in {0, ln.no}
    /\ ln.ev # 0 => ln.ev <= Len(script.events) /\ script.events[ln.ev].fit
    /\ ln.kind = "comment" => ln.base = 0 /\ ln.len = 0
    /\ ln.kind = "error" => ln.base = 0 /\ ln.len = 0 /\ ln.ev = 0
    /\ ln.kind = "data" => ln.len = Share(ln.ev) /\ ln.base + ln.len <= Total(ln.ev)
    /\ ln.kind = "blank" => ln.base = Total(ln.ev) /\ ln.len = 0

\* an error's frame is the last
Follows(a, b) ==
    IF a.kind = "blank" THEN a.ev # 0 /\ b.no = a.no + 1 /\ Opening(b)
    ELSE b.no = a.no /\ b.ev = a.ev /\ b.base = a.base + a.len /\ b.kind \in {"data", "blank"}

Chain(L) ==
    /\ L \in Seq(Line)
    /\ \A j \in 1..Len(L) : LineOk(L[j])
    /\ \A j \in 1..Len(L) : j < Len(L) => Follows(L[j], L[j + 1])

\* g is the text of L, and S[j] where its line j ends
Layout(g, L, S) ==
    /\ g \in Seq(Sym)
    /\ S \in [0..Len(L) -> Nat] /\ S[0] = 0 /\ S[Len(L)] = Len(g)
    /\ \A j \in 0..Len(L) : S[j] <= Len(g)
    /\ \A j \in 1..Len(L) :
        /\ S[j] = S[j - 1] + Len(Txt(L[j])) + 1
        /\ g[S[j]] = LF
        /\ \A i \in 1..Len(Txt(L[j])) : g[S[j - 1] + i] = Txt(L[j])[i]

\* lines of one frame, from a to z
IsPart(h, a, z) ==
    \E M, R :
        /\ Chain(M) /\ Layout(h, M, R)
        /\ M # <<>> /\ M[1] = a /\ M[Len(M)] = z
        /\ \A j \in 1..Len(M) : M[j].no = a.no /\ M[j].ev = a.ev

IsFrame(h, e, ev) ==
    \E a, z : IsPart(h, a, z) /\ Opening(a) /\ a.no = e /\ a.ev = ev /\ z.kind = "blank"

-----------------------------------------------------------------------------
LEMMA Symbols ==
    /\ {LF, CR, DataField, EventError, CommentLine} \subseteq Sym
    /\ \A e, k \in Nat : Piece(e, k) \in Sym /\ Piece(e, k).v = <<e, k>>
                          /\ Piece(e, k) \notin {LF, CR, DataField, EventError, CommentLine}
    /\ LF # CR /\ LF # DataField /\ LF # EventError /\ LF # CommentLine
    /\ CR # DataField /\ CR # EventError /\ CR # CommentLine
    /\ DataField # EventError /\ DataField # CommentLine /\ EventError # CommentLine
<1>1. /\ LF.c = "LF" /\ CR.c = "CR" /\ DataField.c = "data"
      /\ EventError.c = "error" /\ CommentLine.c = "comment"
    BY DEF LF, CR, DataField, EventError, CommentLine, Symbol
<1>2. \A k, e \in Nat : <<k, e>> \in Nat \X Nat
    OBVIOUS
<1>3. ASSUME NEW w \in Nat \X Nat
      PROVE  /\ [c |-> "LF", v |-> w] \in Sym
             /\ [c |-> "CR", v |-> w] \in Sym
             /\ [c |-> "data", v |-> w] \in Sym
             /\ [c |-> "error", v |-> w] \in Sym
             /\ [c |-> "comment", v |-> w] \in Sym
             /\ [c |-> "piece", v |-> w] \in Sym
    BY DEF Sym
<1>4. {LF, CR, DataField, EventError, CommentLine} \subseteq Sym
  <2> DEFINE w == <<0, 0>>
  <2>1. w \in Nat \X Nat
      BY <1>2
  <2> HIDE DEF w
  <2> QED
      BY <1>3, <2>1 DEF LF, CR, DataField, EventError, CommentLine, Symbol, w
<1>5. ASSUME NEW e \in Nat, NEW k \in Nat
      PROVE  Piece(e, k) \in Sym /\ Piece(e, k).c = "piece" /\ Piece(e, k).v = <<e, k>>
  <2> DEFINE w == <<e, k>>
  <2>1. w \in Nat \X Nat
      BY <1>2
  <2> HIDE DEF w
  <2>2. [c |-> "piece", v |-> w] \in Sym
      BY <1>3, <2>1
  <2>3. Piece(e, k) \in Sym
      BY <2>2 DEF Piece, Symbol, w
  <2> QED
      BY <2>3 DEF Piece, Symbol
<1> QED
    BY <1>1, <1>4, <1>5

LEMMA PiecesType ==
    ASSUME NEW ev \in Nat, NEW b \in Nat, NEW n \in Nat
    PROVE  /\ Pieces(ev, b, n) \in Seq(Sym) /\ Len(Pieces(ev, b, n)) = n
           /\ \A k \in 1..n : Pieces(ev, b, n)[k] = Piece(ev, b + k)
           /\ \A k \in 1..n : Pieces(ev, b, n)[k] \notin {LF, CR}
<1> DEFINE q == Pieces(ev, b, n)
<1>1. \A k \in 1..n : Piece(ev, b + k) \in Sym /\ Piece(ev, b + k) \notin {LF, CR}
    BY Symbols
<1>2. q = [k \in 1..n |-> Piece(ev, b + k)]
    BY DEF Pieces
<1>3. \A k \in 1..n : q[k] = Piece(ev, b + k)
    BY <1>2
<1>4. q \in [1..n -> Sym]
    BY <1>1, <1>2
<1>5. q \in Seq(Sym) /\ Len(q) = n
    BY <1>2, <1>4
<1> QED
    BY <1>1, <1>3, <1>5

LEMMA PayloadIs ==
    ASSUME NEW ev, NEW n \in Nat
    PROVE  Payload(ev, n) = Pieces(ev, 0, n)
<1>1. \A k \in 1..n : 0 + k = k
    OBVIOUS
<1> QED
    BY <1>1 DEF Payload, Pieces

LEMMA PiecesJoin ==
    ASSUME NEW ev \in Nat, NEW b \in Nat, NEW n \in Nat
    PROVE  Pieces(ev, 0, b) \o Pieces(ev, b, n) = Pieces(ev, 0, b + n)
<1> DEFINE o == 0
<1> DEFINE m == b + n
<1> DEFINE x == Pieces(ev, o, b)
<1> DEFINE y == Pieces(ev, b, n)
<1> DEFINE z == Pieces(ev, o, m)
<1>0. m \in Nat /\ o \in Nat /\ m = b + n /\ \A k \in Nat : o + k = k
    OBVIOUS
<1> HIDE DEF o, m
<1>1. x \in Seq(Sym) /\ Len(x) = b /\ \A k \in 1..b : x[k] = Piece(ev, o + k)
    BY <1>0, PiecesType
<1>2. y \in Seq(Sym) /\ Len(y) = n /\ \A k \in 1..n : y[k] = Piece(ev, b + k)
    BY PiecesType
<1>3. z \in Seq(Sym) /\ Len(z) = m /\ \A k \in 1..m : z[k] = Piece(ev, o + k)
    BY <1>0, PiecesType
<1> HIDE DEF x, y, z
<1>4. x \o y \in Seq(Sym) /\ Len(x \o y) = m
  <2>1. x \in Seq(Sym) /\ y \in Seq(Sym) /\ Len(x) = b /\ Len(y) = n
      BY <1>1, <1>2
  <2> QED
      BY <1>0, <2>1
<1>5. ASSUME NEW k \in 1..m PROVE (x \o y)[k] = z[k]
  <2>1. CASE k <= b
    <3>1. k \in 1..b /\ k \in 1..m /\ (x \o y)[k] = x[k]
        BY <1>0, <1>1, <1>2, <2>1
    <3> QED
        BY <1>0, <1>1, <1>3, <3>1
  <2>2. CASE k > b
    <3> DEFINE j == k - b
    <3>1. j \in 1..n /\ k = b + j /\ o + k = b + j
        BY <1>0, <2>2
    <3>2. (x \o y)[k] = y[j]
        BY <1>1, <1>2, <2>2, <3>1
    <3> HIDE DEF j
    <3> QED
        BY <1>2, <1>3, <3>1, <3>2
  <2>3. k <= b \/ k > b
      BY <1>0
  <2> QED
      BY <2>1, <2>2, <2>3, Zenon
<1> DEFINE w == x \o y
<1>6. w \in Seq(Sym) /\ Len(w) = m /\ \A k \in 1..m : w[k] = z[k]
    BY <1>4, <1>5
<1> HIDE DEF w
<1>7. w = z
    BY <1>0, <1>3, <1>6
<1> QED
    BY <1>7 DEF w, x, y, z, o, m

LEMMA ReturnIs ==
    /\ Return \in {<<>>, <<CR>>} /\ Return \in Seq(Sym) /\ EOL = Return \o <<LF>>
    /\ Len(Return) = IF style = "crlf" THEN 1 ELSE 0
    /\ style = "crlf" => Return[1] = CR
<1>1. CR \in Sym /\ LF \in Sym
    BY Symbols
<1>2. CASE style = "crlf"
  <2>1. Return = <<CR>> /\ EOL = <<CR, LF>>
      BY <1>2 DEF Return, EOL
  <2>2. <<CR>> \o <<LF>> = <<CR, LF>>
    <3>1. ASSUME NEW x \in Sym, NEW y \in Sym PROVE <<x>> \o <<y>> = <<x, y>>
      <4> DEFINE a == <<x>> \o <<y>>
      <4> DEFINE b == <<x, y>>
      <4>1. <<x>> \in Seq(Sym) /\ Len(<<x>>) = 1 /\ <<x>>[1] = x /\ <<y>> \in Seq(Sym) /\ Len(<<y>>) = 1 /\ <<y>>[1] = y
          OBVIOUS
      <4>2. a \in Seq(Sym) /\ Len(a) = 2 /\ a[1] = x /\ a[1 + 1] = y
          BY <4>1
      <4>3. b \in Seq(Sym) /\ Len(b) = 2 /\ b[1] = x /\ b[2] = y
          OBVIOUS
      <4> HIDE DEF a, b
      <4>4. \A i \in 1..2 : a[i] = b[i]
          BY <4>2, <4>3
      <4>5. a = b
          BY <4>2, <4>3, <4>4
      <4> QED
          BY <4>5 DEF a, b
    <3> QED
        BY <1>1, <3>1
  <2>3. Len(<<CR>>) = 1 /\ <<CR>>[1] = CR /\ <<CR>> \in Seq(Sym)
      BY <1>1
  <2> QED
      BY <1>2, <2>1, <2>2, <2>3
<1>3. CASE style # "crlf"
  <2>1. Return = <<>> /\ EOL = <<LF>>
      BY <1>3 DEF Return, EOL
  <2>2. <<>> \o <<LF>> = <<LF>>
      OBVIOUS
  <2>3. Len(<<>>) = 0 /\ <<>> \in Seq(Sym)
      OBVIOUS
  <2> QED
      BY <1>3, <2>1, <2>2, <2>3
<1> QED
    BY <1>2, <1>3

\* the parser takes the carriage return off
LEMMA StripOff ==
    ASSUME NEW b \in Seq(Sym), \A i \in 1..Len(b) : b[i] # CR
    PROVE  Stripped(b \o Return) = b
<1>1. Len(b) \in Nat /\ (b # <<>> => Len(b) \in 1..Len(b))
    OBVIOUS
<1>2. CASE Return = <<>>
  <2>1. b \o <<>> = b
      OBVIOUS
  <2>2. b # <<>> => b[Len(b)] # CR
      BY <1>1
  <2> QED
      BY <1>2, <2>1, <2>2 DEF Stripped, Last
<1>3. CASE Return = <<CR>>
  <2> DEFINE x == b \o <<CR>>
  <2>1. x \in Seq(Sym) /\ Len(x) = Len(b) + 1 /\ x[Len(b) + 1] = CR
      BY <1>1, Symbols
  <2>2. \A i \in 1..Len(b) : x[i] = b[i]
      BY <1>1, Symbols
  <2> HIDE DEF x
  <2>3. x # <<>> /\ x[Len(x)] = CR /\ Len(x) - 1 = Len(b)
      BY <1>1, <2>1
  <2>4. SubSeq(x, 1, Len(b)) = b
      BY <1>1, <2>1, <2>2
  <2>5. Stripped(x) = b
      BY <2>3, <2>4 DEF Stripped, Last, Front
  <2> QED
      BY <1>3, <2>5 DEF x
<1> QED
    BY <1>2, <1>3, ReturnIs

LEMMA BodyIs ==
    ASSUME NEW ln, LineOk(ln)
    PROVE  /\ Body(ln) \in Seq(Sym)
           /\ \A i \in 1..Len(Body(ln)) : Body(ln)[i] \notin {LF, CR}
           /\ ln.kind = "blank" => Body(ln) = <<>>
           /\ ln.kind = "comment" => Body(ln) = <<CommentLine>>
           /\ ln.kind = "error" => Body(ln) = <<EventError>>
           /\ ln.kind = "data" => /\ Body(ln)[1] = DataField /\ Len(Body(ln)) = 1 + ln.len
                                  /\ Tail(Body(ln)) = Pieces(ln.ev, ln.base, ln.len)
           /\ ln.kind \in {"comment", "error"} => Len(Body(ln)) = 1 /\ Body(ln)[1] \in {CommentLine, EventError}
<1>1. ln.kind \in Kind /\ ln.ev \in Nat /\ ln.base \in Nat /\ ln.len \in Nat
    BY DEF LineOk, Line
<1>2. CASE ln.kind = "blank"
  <2>1. Body(ln) = <<>>
      BY <1>2 DEF Body
  <2> QED
      BY <1>2, <2>1
<1>3. CASE ln.kind = "comment"
  <2>1. Body(ln) = <<CommentLine>>
      BY <1>3 DEF Body
  <2>2. <<CommentLine>> \in Seq(Sym) /\ Len(<<CommentLine>>) = 1 /\ <<CommentLine>>[1] = CommentLine
      BY Symbols
  <2> QED
      BY <1>3, <2>1, <2>2, Symbols
<1>4. CASE ln.kind = "error"
  <2>1. Body(ln) = <<EventError>>
      BY <1>4 DEF Body
  <2>2. <<EventError>> \in Seq(Sym) /\ Len(<<EventError>>) = 1 /\ <<EventError>>[1] = EventError
      BY Symbols
  <2> QED
      BY <1>4, <2>1, <2>2, Symbols
<1>5. CASE ln.kind = "data"
  <2> DEFINE q == Pieces(ln.ev, ln.base, ln.len)
  <2>1. Body(ln) = <<DataField>> \o q
      BY <1>5 DEF Body
  <2>2. q \in Seq(Sym) /\ Len(q) = ln.len /\ \A k \in 1..ln.len : q[k] \notin {LF, CR}
    <3> DEFINE e == ln.ev
    <3> DEFINE b == ln.base
    <3> DEFINE n == ln.len
    <3>1. e \in Nat /\ b \in Nat /\ n \in Nat
        BY <1>1
    <3> HIDE DEF e, b, n
    <3>2. /\ Pieces(e, b, n) \in Seq(Sym) /\ Len(Pieces(e, b, n)) = n
          /\ \A k \in 1..n : Pieces(e, b, n)[k] \notin {LF, CR}
        BY <3>1, PiecesType
    <3> QED
        BY <3>2 DEF e, b, n
  <2> HIDE DEF q
  <2> DEFINE b == <<DataField>> \o q
  <2>3. DataField \in Sym /\ DataField \notin {LF, CR}
      BY Symbols
  <2>4. b \in Seq(Sym) /\ Len(b) = 1 + ln.len /\ b[1] = DataField /\ \A k \in 1..ln.len : b[1 + k] = q[k]
      BY <1>1, <2>2, <2>3
  <2>5. Tail(b) = q
      BY <1>1, <2>2, <2>3
  <2> HIDE DEF b
  <2>6. ASSUME NEW i \in 1..Len(b) PROVE b[i] \notin {LF, CR}
    <3>1. CASE i = 1
        BY <2>3, <2>4, <3>1
    <3>2. CASE i # 1
      <4>1. i - 1 \in 1..ln.len /\ i = 1 + (i - 1)
          BY <1>1, <2>4, <3>2
      <4> QED
          BY <2>2, <2>4, <4>1
    <3> QED
        BY <3>1, <3>2
  <2> QED
      BY <1>5, <2>1, <2>4, <2>5, <2>6 DEF b, q
<1> QED
    BY <1>1, <1>2, <1>3, <1>4, <1>5 DEF Kind

LEMMA TxtIs ==
    ASSUME NEW ln, LineOk(ln)
    PROVE  /\ Txt(ln) \in Seq(Sym) /\ Len(Txt(ln)) = Len(Body(ln)) + Len(Return)
           /\ \A i \in 1..Len(Txt(ln)) : Txt(ln)[i] # LF
           /\ Stripped(Txt(ln)) = Body(ln)
<1> DEFINE b == Body(ln)
<1> DEFINE r == Return
<1>1. b \in Seq(Sym) /\ \A i \in 1..Len(b) : b[i] # LF /\ b[i] # CR
    BY BodyIs
<1>2. r \in Seq(Sym) /\ Len(r) \in Nat /\ \A i \in 1..Len(r) : r[i] # LF
  <2>1. r \in Seq(Sym)
      BY ReturnIs
  <2>2. Len(r) = IF style = "crlf" THEN 1 ELSE 0
      BY ReturnIs
  <2>3. style = "crlf" => r[1] = CR
      BY ReturnIs
  <2> HIDE DEF r
  <2> QED
      BY <2>1, <2>2, <2>3, Symbols
<1>3. Stripped(b \o r) = b
    BY <1>1, StripOff
<1>4. Txt(ln) = b \o r
    BY DEF Txt
<1> HIDE DEF b, r
<1>5. b \o r \in Seq(Sym) /\ Len(b \o r) = Len(b) + Len(r) /\ Len(b) \in Nat
    BY <1>1, <1>2
<1>6. ASSUME NEW i \in 1..Len(b \o r) PROVE (b \o r)[i] # LF
  <2>1. CASE i <= Len(b)
    <3>1. i \in 1..Len(b) /\ (b \o r)[i] = b[i]
        BY <1>1, <1>2, <1>5, <2>1
    <3> QED
        BY <1>1, <3>1
  <2>2. CASE i > Len(b)
    <3>1. i - Len(b) \in 1..Len(r) /\ (b \o r)[i] = r[i - Len(b)]
        BY <1>1, <1>2, <1>5, <2>2
    <3> QED
        BY <1>2, <3>1
  <2> QED
      BY <1>5, <2>1, <2>2
<1> QED
    BY <1>3, <1>4, <1>5, <1>6 DEF b, r
-----------------------------------------------------------------------------
(* Lines put together. *)

LEMMA LineIsPart ==
    ASSUME NEW ln, LineOk(ln)
    PROVE  IsPart(Txt(ln) \o <<LF>>, ln, ln)
<1> DEFINE t == Txt(ln)
<1> DEFINE h == t \o <<LF>>
<1> DEFINE M == <<ln>>
<1> DEFINE R == [j \in 0..1 |-> IF j = 0 THEN 0 ELSE Len(t) + 1]
<1>1. t \in Seq(Sym) /\ Len(t) \in Nat
    BY TxtIs
<1>2. ln \in Line
    BY DEF LineOk
<1>3. M \in Seq(Line) /\ Len(M) = 1 /\ M[1] = ln /\ M # <<>>
    BY <1>2
<1>4. Chain(M)
    BY <1>3 DEF Chain
<1> HIDE DEF t, M
<1>5. h \in Seq(Sym) /\ Len(h) = Len(t) + 1 /\ h[Len(t) + 1] = LF /\ \A i \in 1..Len(t) : h[i] = t[i]
    BY <1>1, Symbols
<1>6. R \in [0..1 -> Nat] /\ R[0] = 0 /\ R[1] = Len(t) + 1
    BY <1>1
<1> HIDE DEF h, R
<1>7. Layout(h, M, R)
  <2>1. R \in [0..Len(M) -> Nat] /\ R[Len(M)] = Len(h)
      BY <1>3, <1>5, <1>6
  <2>2. \A j \in 0..Len(M) : R[j] <= Len(h)
    <3>1. \A j \in 0..1 : j = 0 \/ j = 1
        OBVIOUS
    <3> QED
        BY <1>1, <1>3, <1>5, <1>6, <3>1
  <2>3. ASSUME NEW j \in 1..Len(M)
        PROVE  /\ R[j] = R[j - 1] + Len(Txt(M[j])) + 1
               /\ h[R[j]] = LF
               /\ \A i \in 1..Len(Txt(M[j])) : h[R[j - 1] + i] = Txt(M[j])[i]
    <3>1. j = 1 /\ j - 1 = 0
        BY <1>3
    <3>2. Txt(M[j]) = t
        BY <1>3, <3>1 DEF t
    <3>3. R[j] = 0 + Len(t) + 1
        BY <1>1, <1>6, <3>1
    <3>4. \A i \in 1..Len(t) : 0 + i = i
        OBVIOUS
    <3> QED
        BY <1>5, <1>6, <3>1, <3>2, <3>3, <3>4
  <2> QED
      BY <1>5, <1>6, <2>1, <2>2, <2>3 DEF Layout
<1>8. \A j \in 1..Len(M) : M[j].no = ln.no /\ M[j].ev = ln.ev
    BY <1>3
<1> QED
    BY <1>3, <1>4, <1>7, <1>8 DEF IsPart, h, t

Glued(L, S, m, R) == [j \in 0..(Len(L) + m) |-> IF j <= Len(L) THEN S[j] ELSE S[Len(L)] + R[j - Len(L)]]

LEMMA ChainGlue ==
    ASSUME NEW L, NEW M, Chain(L), Chain(M),
           L # <<>> /\ M # <<>> => Follows(L[Len(L)], M[1])
    PROVE  /\ Chain(L \o M) /\ Len(L \o M) = Len(L) + Len(M)
           /\ \A j \in 1..Len(L) : (L \o M)[j] = L[j]
           /\ \A j \in 1..Len(M) : (L \o M)[Len(L) + j] = M[j]
<1> DEFINE N == L \o M
<1>1. L \in Seq(Line) /\ M \in Seq(Line) /\ Len(L) \in Nat /\ Len(M) \in Nat
    BY DEF Chain
<1>2. /\ N \in Seq(Line) /\ Len(N) = Len(L) + Len(M)
      /\ \A j \in 1..Len(L) : N[j] = L[j]
      /\ \A j \in 1..Len(M) : N[Len(L) + j] = M[j]
    BY <1>1
<1> HIDE DEF N
<1>3. ASSUME NEW j \in 1..Len(N)
      PROVE  LineOk(N[j]) /\ (j < Len(N) => Follows(N[j], N[j + 1]))
  <2>1. CASE j < Len(L)
    <3>1. j \in 1..Len(L) /\ j + 1 \in 1..Len(L)
        BY <1>1, <2>1
    <3> QED
        BY <1>2, <2>1, <3>1 DEF Chain
  <2>2. CASE j = Len(L)
    <3>1. j \in 1..Len(L)
        BY <1>1, <2>2
    <3>2. ASSUME j < Len(N) PROVE Follows(N[j], N[j + 1])
      <4>1. 1 \in 1..Len(M)
          BY <1>1, <1>2, <2>2, <3>2
      <4>2. L # <<>> /\ M # <<>>
          BY <1>1, <2>2, <3>1, <4>1
      <4>3. N[j + 1] = M[1] /\ N[j] = L[j]
          BY <1>2, <2>2, <3>1, <4>1
      <4> QED
          BY <2>2, <4>2, <4>3
    <3> QED
        BY <1>2, <3>1, <3>2 DEF Chain
  <2>3. CASE j > Len(L)
    <3> DEFINE k == j - Len(L)
    <3>1. k \in 1..Len(M) /\ j = Len(L) + k /\ (j < Len(N) => k < Len(M) /\ k + 1 \in 1..Len(M) /\ j + 1 = Len(L) + (k + 1))
        BY <1>1, <1>2, <2>3
    <3> HIDE DEF k
    <3> QED
        BY <1>2, <3>1 DEF Chain
  <2> QED
      BY <1>1, <2>1, <2>2, <2>3
<1> QED
    BY <1>2, <1>3 DEF Chain, N

LEMMA LayoutGlue ==
    ASSUME NEW L, NEW M, Chain(L), Chain(M), NEW g, NEW h, NEW S, NEW R,
           Layout(g, L, S), Layout(h, M, R)
    PROVE  Layout(g \o h, L \o M, Glued(L, S, Len(M), R))
<1> DEFINE N == L \o M
<1> DEFINE t == g \o h
<1> DEFINE T == Glued(L, S, Len(M), R)
<1>1. /\ L \in Seq(Line) /\ M \in Seq(Line) /\ Len(L) \in Nat /\ Len(M) \in Nat
      /\ g \in Seq(Sym) /\ h \in Seq(Sym) /\ Len(g) \in Nat /\ Len(h) \in Nat
    BY DEF Chain, Layout
<1>2. /\ N \in Seq(Line) /\ Len(N) = Len(L) + Len(M)
      /\ \A j \in 1..Len(L) : N[j] = L[j]
      /\ \A j \in 1..Len(M) : N[Len(L) + j] = M[j]
    BY <1>1
<1>3. /\ t \in Seq(Sym) /\ Len(t) = Len(g) + Len(h)
      /\ \A i \in 1..Len(g) : t[i] = g[i]
      /\ \A i \in 1..Len(h) : t[Len(g) + i] = h[i]
    BY <1>1
<1>4. /\ S \in [0..Len(L) -> Nat] /\ S[0] = 0 /\ S[Len(L)] = Len(g)
      /\ R \in [0..Len(M) -> Nat] /\ R[0] = 0 /\ R[Len(M)] = Len(h)
      /\ \A j \in 0..Len(L) : S[j] <= Len(g)
      /\ \A j \in 0..Len(M) : R[j] <= Len(h)
    BY DEF Layout
<1>5. /\ \A j \in 0..Len(L) : T[j] = S[j]
      /\ \A j \in 1..Len(M) : T[Len(L) + j] = Len(g) + R[j]
      /\ T \in [0..Len(N) -> Nat]
  <2>1. ASSUME NEW j \in 0..Len(L) PROVE T[j] = S[j]
    <3>1. j \in 0..(Len(L) + Len(M)) /\ j <= Len(L)
        BY <1>1
    <3> QED
        BY <3>1 DEF Glued
  <2>2. ASSUME NEW j \in 1..Len(M) PROVE T[Len(L) + j] = Len(g) + R[j]
    <3>1. Len(L) + j \in 0..(Len(L) + Len(M)) /\ ~(Len(L) + j <= Len(L)) /\ (Len(L) + j) - Len(L) = j
        BY <1>1
    <3> QED
        BY <1>4, <3>1 DEF Glued
  <2>3. ASSUME NEW j \in 0..(Len(L) + Len(M)) PROVE (IF j <= Len(L) THEN S[j] ELSE S[Len(L)] + R[j - Len(L)]) \in Nat
    <3>1. CASE j <= Len(L)
      <4>1. j \in 0..Len(L)
          BY <1>1, <3>1
      <4>2. S[j] \in Nat
          BY <1>4, <4>1
      <4> QED
          BY <3>1, <4>2
    <3>2. CASE ~(j <= Len(L))
      <4>1. j - Len(L) \in 0..Len(M)
          BY <1>1, <3>2
      <4>2. R[j - Len(L)] \in Nat
          BY <1>4, <4>1
      <4>3. S[Len(L)] + R[j - Len(L)] \in Nat
          BY <1>1, <1>4, <4>2
      <4> QED
          BY <3>2, <4>3
    <3> QED
        BY <3>1, <3>2
  <2>4. T \in [0..(Len(L) + Len(M)) -> Nat]
      BY <2>3 DEF Glued
  <2> QED
      BY <1>2, <2>1, <2>2, <2>4
<1>6. T[Len(L)] = Len(g) + R[0]
    BY <1>1, <1>4, <1>5
<1> HIDE DEF N, t, T
<1>7. T[0] = 0 /\ T[Len(N)] = Len(t)
  <2>1. T[0] = 0
      BY <1>1, <1>4, <1>5
  <2>2. CASE Len(M) = 0
      BY <1>1, <1>2, <1>3, <1>4, <1>5, <2>2
  <2>3. CASE Len(M) # 0
    <3>1. Len(M) \in 1..Len(M)
        BY <1>1, <2>3
    <3> QED
        BY <1>2, <1>3, <1>4, <1>5, <2>1, <3>1
  <2> QED
      BY <2>1, <2>2, <2>3
<1>8. ASSUME NEW j \in 0..Len(N) PROVE T[j] <= Len(t)
  <2>1. CASE j <= Len(L)
    <3>1. j \in 0..Len(L)
        BY <1>1, <2>1
    <3>2. S[j] \in Nat
        BY <1>4, <3>1
    <3>3. T[j] = S[j] /\ S[j] <= Len(g)
        BY <1>4, <1>5, <3>1
    <3> QED
        BY <1>1, <1>3, <3>2, <3>3
  <2>2. CASE j > Len(L)
    <3> DEFINE k == j - Len(L)
    <3>1. k \in 1..Len(M) /\ k \in 0..Len(M) /\ j = Len(L) + k
        BY <1>1, <1>2, <2>2
    <3> HIDE DEF k
    <3>2. T[j] = Len(g) + R[k] /\ R[k] <= Len(h) /\ R[k] \in Nat
        BY <1>4, <1>5, <3>1
    <3> QED
        BY <1>1, <1>3, <3>2
  <2> QED
      BY <1>1, <2>1, <2>2
<1>9. ASSUME NEW j \in 1..Len(N)
      PROVE  /\ T[j] = T[j - 1] + Len(Txt(N[j])) + 1
             /\ t[T[j]] = LF
             /\ \A i \in 1..Len(Txt(N[j])) : t[T[j - 1] + i] = Txt(N[j])[i]
  <2>1. CASE j <= Len(L)
    <3>1. j \in 1..Len(L) /\ j \in 0..Len(L) /\ j - 1 \in 0..Len(L)
        BY <1>1, <2>1
    <3>2. N[j] = L[j] /\ T[j] = S[j] /\ T[j - 1] = S[j - 1] /\ S[j] \in Nat /\ S[j - 1] \in Nat /\ S[j] <= Len(g)
        BY <1>2, <1>4, <1>5, <3>1
    <3> DEFINE x == Txt(L[j])
    <3>3. /\ S[j] = S[j - 1] + Len(x) + 1 /\ g[S[j]] = LF
          /\ \A i \in 1..Len(x) : g[S[j - 1] + i] = x[i]
        BY <3>1 DEF Layout
    <3>4. x \in Seq(Sym) /\ Len(x) \in Nat
        BY <3>1, TxtIs DEF Chain
    <3> HIDE DEF x
    <3>5. S[j] \in 1..Len(g) /\ \A i \in 1..Len(x) : S[j - 1] + i \in 1..Len(g)
      <4> DEFINE c == S[j]
      <4> DEFINE d == S[j - 1]
      <4> DEFINE l == Len(x)
      <4> DEFINE m == Len(g)
      <4>1. c \in Nat /\ d \in Nat /\ l \in Nat /\ m \in Nat /\ c <= m /\ c = d + l + 1
          BY <1>1, <3>2, <3>3, <3>4
      <4> HIDE DEF c, d, l, m
      <4>2. c \in 1..m /\ \A i \in 1..l : d + i \in 1..m
          BY <4>1
      <4> QED
          BY <4>2 DEF c, d, l, m
    <3>6. t[S[j]] = LF /\ \A i \in 1..Len(x) : t[S[j - 1] + i] = x[i]
        BY <1>3, <3>3, <3>5
    <3> QED
        BY <3>2, <3>3, <3>6 DEF x
  <2>2. CASE j > Len(L)
    <3> DEFINE k == j - Len(L)
    <3>0. k \in 1..Len(M) /\ j = Len(L) + k /\ j - 1 = Len(L) + (k - 1)
        BY <1>1, <1>2, <2>2
    <3> HIDE DEF k
    <3>1. /\ k \in 1..Len(M) /\ k \in 0..Len(M) /\ k - 1 \in 0..Len(M) /\ j = Len(L) + k
          /\ k # 1 => k - 1 \in 1..Len(M)
          /\ j - 1 = Len(L) + (k - 1)
        BY <1>1, <3>0
    <3>2. N[j] = M[k] /\ T[j] = Len(g) + R[k] /\ R[k] \in Nat /\ R[k - 1] \in Nat /\ R[k] <= Len(h)
        BY <1>2, <1>4, <1>5, <3>1
    <3>3. T[j - 1] = Len(g) + R[k - 1]
      <4>1. CASE k = 1
        <5>1. j - 1 = Len(L) /\ k - 1 = 0
            BY <1>1, <3>1, <4>1
        <5> QED
            BY <1>6, <5>1
      <4>2. CASE k # 1
          BY <1>5, <3>1, <4>2
      <4> QED
          BY <4>1, <4>2
    <3> DEFINE x == Txt(M[k])
    <3>4. /\ R[k] = R[k - 1] + Len(x) + 1 /\ h[R[k]] = LF
          /\ \A i \in 1..Len(x) : h[R[k - 1] + i] = x[i]
        BY <3>1 DEF Layout
    <3>5. x \in Seq(Sym) /\ Len(x) \in Nat
        BY <3>1, TxtIs DEF Chain
    <3> HIDE DEF x
    <3>6. R[k] \in 1..Len(h) /\ \A i \in 1..Len(x) : R[k - 1] + i \in 1..Len(h)
      <4> DEFINE c == R[k]
      <4> DEFINE d == R[k - 1]
      <4> DEFINE l == Len(x)
      <4> DEFINE m == Len(h)
      <4>1. c \in Nat /\ d \in Nat /\ l \in Nat /\ m \in Nat /\ c <= m /\ c = d + l + 1
          BY <1>1, <3>2, <3>4, <3>5
      <4> HIDE DEF c, d, l, m
      <4>2. c \in 1..m /\ \A i \in 1..l : d + i \in 1..m
          BY <4>1
      <4> QED
          BY <4>2 DEF c, d, l, m
    <3>7. t[T[j]] = LF
        BY <1>3, <3>2, <3>4, <3>6
    <3>8. ASSUME NEW i \in 1..Len(x) PROVE t[T[j - 1] + i] = x[i]
      <4>1. T[j - 1] + i = Len(g) + (R[k - 1] + i)
          BY <1>1, <3>2, <3>3
      <4>2. t[Len(g) + (R[k - 1] + i)] = h[R[k - 1] + i]
          BY <1>3, <3>6
      <4> QED
          BY <3>4, <4>1, <4>2
    <3>9. T[j] = T[j - 1] + Len(x) + 1
        BY <1>1, <3>2, <3>3, <3>4, <3>5
    <3> QED
        BY <3>2, <3>7, <3>8, <3>9 DEF x
  <2> QED
      BY <1>1, <2>1, <2>2
<1> QED
    BY <1>3, <1>5, <1>7, <1>8, <1>9 DEF Layout, N, t, T

LEMMA PartsJoin ==
    ASSUME NEW g, NEW h, NEW a, NEW z, NEW b, NEW y, IsPart(g, a, z), IsPart(h, b, y),
           Follows(z, b), a.no = b.no, a.ev = b.ev
    PROVE  IsPart(g \o h, a, y)
<1>1. PICK L, S : /\ Chain(L) /\ Layout(g, L, S) /\ L # <<>> /\ L[1] = a /\ L[Len(L)] = z
                  /\ \A j \in 1..Len(L) : L[j].no = a.no /\ L[j].ev = a.ev
    BY DEF IsPart
<1>2. PICK M, R : /\ Chain(M) /\ Layout(h, M, R) /\ M # <<>> /\ M[1] = b /\ M[Len(M)] = y
                  /\ \A j \in 1..Len(M) : M[j].no = b.no /\ M[j].ev = b.ev
    BY DEF IsPart
<1> DEFINE N == L \o M
<1>3. L \in Seq(Line) /\ M \in Seq(Line) /\ Len(L) \in Nat \ {0} /\ Len(M) \in Nat \ {0}
    BY <1>1, <1>2 DEF Chain
<1>4. /\ Chain(N) /\ Len(N) = Len(L) + Len(M)
      /\ \A j \in 1..Len(L) : N[j] = L[j]
      /\ \A j \in 1..Len(M) : N[Len(L) + j] = M[j]
    BY <1>1, <1>2, ChainGlue
<1>5. Layout(g \o h, N, Glued(L, S, Len(M), R))
    BY <1>1, <1>2, LayoutGlue
<1> HIDE DEF N
<1>6. N # <<>> /\ N[1] = a /\ N[Len(N)] = y
  <2>1. 1 \in 1..Len(L) /\ Len(M) \in 1..Len(M)
      BY <1>3
  <2>2. N # <<>>
      BY <1>3, <1>4
  <2> QED
      BY <1>1, <1>2, <1>4, <2>1, <2>2
<1>7. ASSUME NEW j \in 1..Len(N) PROVE N[j].no = a.no /\ N[j].ev = a.ev
  <2>1. CASE j <= Len(L)
    <3>1. j \in 1..Len(L)
        BY <1>3, <2>1
    <3> QED
        BY <1>1, <1>4, <3>1
  <2>2. CASE j > Len(L)
    <3>1. j - Len(L) \in 1..Len(M) /\ j = Len(L) + (j - Len(L))
        BY <1>3, <1>4, <2>2
    <3> QED
        BY <1>2, <1>4, <3>1
  <2> QED
      BY <1>3, <2>1, <2>2
<1> QED
    BY <1>4, <1>5, <1>6, <1>7 DEF IsPart
-----------------------------------------------------------------------------
(* The frames that are written. *)

LEMMA Assoc ==
    ASSUME NEW a \in Seq(Sym), NEW b \in Seq(Sym), NEW c \in Seq(Sym)
    PROVE  a \o (b \o c) = (a \o b) \o c
OBVIOUS

Ln(kind, no, ev, base, len) == [kind |-> kind, no |-> no, ev |-> ev, base |-> base, len |-> len]

\* what a frame is of: an event that JSON.stringify takes, or the error
Writable(no, ev) ==
    /\ no \in Nat \ {0} /\ ev \in {0, no}
    /\ ev # 0 => ev <= Len(script.events) /\ script.events[ev].fit /\ script.events[ev].size \in Nat \ {0}

LEMMA TotalType ==
    ASSUME NEW no, NEW ev, Writable(no, ev)
    PROVE  Total(ev) \in Nat \ {0} /\ Share(ev) \in 1..Total(ev) /\ ev \in Nat /\ no \in Nat \ {0}
<1>1. Total(ev) \in Nat \ {0}
    BY DEF Writable, Total
<1> QED
    BY <1>1 DEF Writable, Share

LEMMA LinesOk ==
    ASSUME NEW no, NEW ev, Writable(no, ev)
    PROVE  /\ LineOk(Ln("comment", no, ev, 0, 0))
           /\ LineOk(Ln("error", no, 0, 0, 0))
           /\ LineOk(Ln("blank", no, ev, Total(ev), 0))
           /\ \A b \in Nat : b + Share(ev) <= Total(ev) => LineOk(Ln("data", no, ev, b, Share(ev)))
<1> DEFINE t == Total(ev)
<1> DEFINE s == Share(ev)
<1>1. t \in Nat \ {0} /\ s \in Nat /\ ev \in Nat /\ no \in Nat \ {0} /\ ev \in {0, no} /\ 0 \in Nat
  <2>1. t \in Nat \ {0} /\ s \in 1..t /\ ev \in Nat /\ no \in Nat \ {0}
      BY TotalType
  <2> HIDE DEF t, s
  <2> QED
      BY <2>1 DEF Writable
<1>2. ev # 0 => ev <= Len(script.events) /\ script.events[ev].fit
    BY DEF Writable
<1> HIDE DEF t, s
<1>3. ASSUME NEW k \in Kind, NEW e \in Nat, NEW b \in Nat, NEW l \in Nat
      PROVE  /\ Ln(k, no, e, b, l) \in Line
             /\ Ln(k, no, e, b, l).kind = k /\ Ln(k, no, e, b, l).no = no /\ Ln(k, no, e, b, l).ev = e
             /\ Ln(k, no, e, b, l).base = b /\ Ln(k, no, e, b, l).len = l
    BY <1>1 DEF Ln, Line
<1>4. LineOk(Ln("comment", no, ev, 0, 0))
  <2> DEFINE x == Ln("comment", no, ev, 0, 0)
  <2>1. x \in Line /\ x.kind = "comment" /\ x.no = no /\ x.ev = ev /\ x.base = 0 /\ x.len = 0
      BY <1>1, <1>3 DEF Kind
  <2> HIDE DEF x
  <2>2. LineOk(x)
      BY <1>1, <1>2, <2>1 DEF LineOk
  <2> QED
      BY <2>2 DEF x
<1>5. LineOk(Ln("error", no, 0, 0, 0))
    BY <1>1, <1>2, <1>3 DEF LineOk, Kind
<1>6. LineOk(Ln("blank", no, ev, t, 0))
  <2> DEFINE x == Ln("blank", no, ev, t, 0)
  <2>1. x \in Line /\ x.kind = "blank" /\ x.no = no /\ x.ev = ev /\ x.base = t /\ x.len = 0
      BY <1>1, <1>3 DEF Kind
  <2> HIDE DEF x
  <2>2. x.base = Total(x.ev)
      BY <2>1 DEF t
  <2>3. LineOk(x)
      BY <1>1, <1>2, <2>1, <2>2 DEF LineOk
  <2> QED
      BY <2>3 DEF x
<1>7. ASSUME NEW b \in Nat, b + s <= t PROVE LineOk(Ln("data", no, ev, b, s))
  <2> DEFINE x == Ln("data", no, ev, b, s)
  <2>1. x \in Line /\ x.kind = "data" /\ x.no = no /\ x.ev = ev /\ x.base = b /\ x.len = s
      BY <1>1, <1>3 DEF Kind
  <2> HIDE DEF x
  <2>2. x.kind = "data" => x.len = Share(x.ev) /\ x.base + x.len <= Total(x.ev)
      BY <1>7, <2>1 DEF s, t
  <2>3. LineOk(x)
      BY <1>1, <1>2, <2>1, <2>2 DEF LineOk
  <2> QED
      BY <2>3 DEF x
<1> QED
    BY <1>4, <1>5, <1>6, <1>7 DEF t, s

LEMMA LnIs ==
    ASSUME NEW k, NEW no, NEW e, NEW b, NEW l
    PROVE  /\ Ln(k, no, e, b, l).kind = k /\ Ln(k, no, e, b, l).no = no /\ Ln(k, no, e, b, l).ev = e
           /\ Ln(k, no, e, b, l).base = b /\ Ln(k, no, e, b, l).len = l
BY DEF Ln

\* a line with its end
LEMMA LineText ==
    ASSUME NEW ln, LineOk(ln)
    PROVE  /\ Body(ln) \in Seq(Sym) /\ EOL \in Seq(Sym)
           /\ IsPart(Body(ln) \o EOL, ln, ln)
<1> DEFINE b == Body(ln)
<1> DEFINE r == Return
<1> DEFINE f == <<LF>>
<1>1. b \in Seq(Sym) /\ r \in Seq(Sym) /\ f \in Seq(Sym)
    BY BodyIs, ReturnIs, Symbols
<1>2. EOL = r \o f
    BY ReturnIs
<1>3. IsPart((b \o r) \o f, ln, ln)
    BY LineIsPart DEF Txt
<1> HIDE DEF b, r, f
<1>4. b \o (r \o f) = (b \o r) \o f
    BY <1>1, Assoc
<1>5. r \o f \in Seq(Sym)
    BY <1>1
<1> QED
    BY <1>1, <1>2, <1>3, <1>4, <1>5 DEF b
\* the data lines of an event or of the error
IsData(h, no, ev) ==
    \E a, z : /\ IsPart(h, a, z)
              /\ a.kind = "data" /\ a.no = no /\ a.ev = ev /\ a.base = 0
              /\ z.kind = "data" /\ z.no = no /\ z.ev = ev /\ z.base + z.len = Total(ev)

LEMMA OneDataLine ==
    ASSUME NEW no, NEW ev, Writable(no, ev), style # "pretty"
    PROVE  IsData(DataLines(Payload(ev, Total(ev))), no, ev)
<1> DEFINE n == Total(ev)
<1> DEFINE a == Ln("data", no, ev, 0, Share(ev))
<1>1. n \in Nat \ {0} /\ ev \in Nat /\ Share(ev) = n
    BY TotalType DEF Share
<1> HIDE DEF n
<1>2. 0 + Share(ev) <= n /\ 0 + Share(ev) = n
    BY <1>1
<1>3. LineOk(a)
    BY <1>2, LinesOk DEF n
<1>4. a.kind = "data" /\ a.no = no /\ a.ev = ev /\ a.base = 0 /\ a.len = Share(ev)
    BY LnIs
<1> HIDE DEF a
<1>5. Body(a) = <<DataField>> \o Payload(ev, n)
  <2>1. Body(a) = <<DataField>> \o Pieces(ev, 0, n)
      BY <1>1, <1>4 DEF Body
  <2>2. Payload(ev, n) = Pieces(ev, 0, n)
      BY <1>1, PayloadIs
  <2> QED
      BY <2>1, <2>2
<1>6. IsPart(Body(a) \o EOL, a, a)
    BY <1>3, LineText
<1>7. DataLines(Payload(ev, n)) = Body(a) \o EOL
    BY <1>5 DEF DataLines
<1>8. a.base + a.len = n
    BY <1>2, <1>4
<1> QED
    BY <1>4, <1>6, <1>7, <1>8 DEF IsData, n

LEMMA ManyDataLines ==
    ASSUME NEW no, NEW ev, Writable(no, ev), style = "pretty"
    PROVE  IsData(DataLines(Payload(ev, Total(ev))), no, ev)
<1> DEFINE n == Total(ev)
<1> DEFINE p == Payload(ev, n)
<1> DEFINE g == DataLines(p)
<1> DEFINE M == [k \in 1..n |-> Ln("data", no, ev, k - 1, 1)]
<1> DEFINE R == [k \in 0..n |-> 3 * k]
<1>1. n \in Nat \ {0} /\ ev \in Nat /\ Share(ev) = 1 /\ no \in Nat \ {0}
    BY TotalType DEF Share
<1>2. \A b \in Nat : b + 1 <= n => LineOk(Ln("data", no, ev, b, 1))
    BY <1>1, LinesOk
<1> HIDE DEF n
<1>3. p \in Seq(Sym) /\ Len(p) = n /\ \A k \in 1..n : p[k] = Piece(ev, k)
  <2>1. p = Pieces(ev, 0, n)
      BY <1>1, PayloadIs
  <2> DEFINE o == 0
  <2>2. /\ Pieces(ev, o, n) \in Seq(Sym) /\ Len(Pieces(ev, o, n)) = n
        /\ \A k \in 1..n : Pieces(ev, o, n)[k] = Piece(ev, o + k)
    <3>1. o \in Nat /\ n \in Nat /\ ev \in Nat
        BY <1>1
    <3> HIDE DEF o
    <3> QED
        BY <3>1, PiecesType
  <2>3. \A k \in 1..n : o + k = k
      OBVIOUS
  <2> HIDE DEF p
  <2> QED
      BY <2>1, <2>2, <2>3
<1> HIDE DEF p
<1>4. g = [j \in 1..(3 * n) |-> <<LF, DataField, p[(j + 2) \div 3]>>[(j % 3) + 1]]
    BY <1>3 DEF DataLines
<1>5. ASSUME NEW k \in 1..n
      PROVE  g[3 * k - 2] = DataField /\ g[3 * k - 1] = Piece(ev, k) /\ g[3 * k] = LF
  <2> DEFINE x == 3 * k - 2
  <2> DEFINE y == 3 * k - 1
  <2> DEFINE z == 3 * k
  <2>1. /\ x \in 1..(3 * n) /\ y \in 1..(3 * n) /\ z \in 1..(3 * n)
        /\ x % 3 = 1 /\ y % 3 = 2 /\ z % 3 = 0 /\ (y + 2) \div 3 = k
      BY <1>1
  <2>2. p[k] = Piece(ev, k)
      BY <1>3
  <2> HIDE DEF g, x, y, z
  <2>3. ASSUME NEW j \in 1..(3 * n)
        PROVE  /\ j % 3 = 0 => g[j] = LF
               /\ j % 3 = 1 => g[j] = DataField
               /\ j % 3 = 2 => g[j] = p[(j + 2) \div 3]
    <3>1. g[j] = <<LF, DataField, p[(j + 2) \div 3]>>[(j % 3) + 1]
        BY <1>4
    <3> QED
        BY <3>1
  <2>4. g[x] = DataField
      BY <2>1, <2>3
  <2>5. g[y] = Piece(ev, k)
    <3>1. g[y] = p[(y + 2) \div 3]
        BY <2>1, <2>3
    <3> QED
        BY <2>1, <2>2, <3>1
  <2>6. g[z] = LF
      BY <2>1, <2>3
  <2> QED
      BY <2>4, <2>5, <2>6 DEF x, y, z
<1>6. g \in Seq(Sym) /\ Len(g) = 3 * n
  <2>1. DOMAIN g = 1..(3 * n) /\ g = [j \in 1..(3 * n) |-> g[j]]
      BY <1>4
  <2> HIDE DEF g
  <2>2. ASSUME NEW j \in 1..(3 * n) PROVE g[j] \in Sym
    <3>1. PICK k \in 1..n : j \in {3 * k - 2, 3 * k - 1, 3 * k}
      <4>1. (j + 2) \div 3 \in 1..n /\ j \in {3 * ((j + 2) \div 3) - 2, 3 * ((j + 2) \div 3) - 1, 3 * ((j + 2) \div 3)}
          BY <1>1
      <4> QED
          BY <4>1
    <3>2. Piece(ev, k) \in Sym
        BY <1>1, Symbols
    <3> QED
        BY <1>5, <3>1, <3>2, Symbols
  <2>3. g \in [1..(3 * n) -> Sym]
      BY <2>1, <2>2
  <2>4. 3 * n \in Nat
      BY <1>1
  <2> QED
      BY <2>1, <2>3, <2>4
<1> HIDE DEF g
<1>7. ASSUME NEW k \in 1..n
      PROVE  /\ M[k] = Ln("data", no, ev, k - 1, 1)
             /\ LineOk(M[k]) /\ M[k] \in Line
             /\ M[k].kind = "data" /\ M[k].no = no /\ M[k].ev = ev /\ M[k].base = k - 1 /\ M[k].len = 1
  <2> DEFINE b == k - 1
  <2>1. b \in Nat /\ b + 1 <= n
      BY <1>1
  <2>2. M[k] = Ln("data", no, ev, b, 1)
      OBVIOUS
  <2> HIDE DEF b, M
  <2>3. LineOk(M[k])
      BY <1>2, <2>1, <2>2
  <2>4. M[k].kind = "data" /\ M[k].no = no /\ M[k].ev = ev /\ M[k].base = b /\ M[k].len = 1
      BY <2>2, LnIs
  <2> QED
      BY <2>2, <2>3, <2>4 DEF LineOk, b
<1>8. M \in Seq(Line) /\ Len(M) = n /\ M # <<>>
  <2>1. M \in [1..n -> Line] /\ DOMAIN M = 1..n
      BY <1>7
  <2> HIDE DEF M
  <2>2. M \in Seq(Line) /\ Len(M) = n
      BY <1>1, <2>1
  <2> QED
      BY <1>1, <2>2
<1>9. R \in [0..n -> Nat] /\ \A k \in 0..n : R[k] = 3 * k
    BY <1>1
<1> HIDE DEF M, R
<1>10. Chain(M)
  <2>1. ASSUME NEW k \in 1..n, k < n PROVE Follows(M[k], M[k + 1])
    <3>1. k + 1 \in 1..n /\ (k + 1) - 1 = (k - 1) + 1
        BY <1>1, <2>1
    <3> QED
        BY <1>7, <3>1 DEF Follows
  <2> QED
      BY <1>7, <1>8, <2>1 DEF Chain
<1>11. Layout(g, M, R)
  <2>1. R[0] = 0 /\ R[n] = 3 * n /\ \A k \in 0..n : R[k] <= 3 * n
      BY <1>1, <1>9
  <2>2. ASSUME NEW k \in 1..n
        PROVE  /\ R[k] = R[k - 1] + Len(Txt(M[k])) + 1
               /\ g[R[k]] = LF
               /\ \A i \in 1..Len(Txt(M[k])) : g[R[k - 1] + i] = Txt(M[k])[i]
    <3> DEFINE x == Txt(M[k])
    <3>1. /\ R[k] = 3 * k /\ R[k - 1] = 3 * k - 3 /\ R[k - 1] + 1 = 3 * k - 2
          /\ R[k - 1] + 2 = 3 * k - 1 /\ R[k] = R[k - 1] + 2 + 1
      <4>1. k \in 0..n /\ k - 1 \in 0..n /\ k \in Nat
          BY <1>1
      <4> QED
          BY <1>9, <4>1
    <3>2. Len(x) = 2 /\ x[1] = DataField /\ x[2] = Piece(ev, k)
      <4>1. Return = <<>>
          BY DEF Return
      <4>2. Body(M[k]) = <<DataField>> \o Pieces(ev, k - 1, 1)
          BY <1>7 DEF Body
      <4>3. /\ Pieces(ev, k - 1, 1) \in Seq(Sym) /\ Len(Pieces(ev, k - 1, 1)) = 1
            /\ Pieces(ev, k - 1, 1)[1] = Piece(ev, k)
        <5> DEFINE b == k - 1
        <5>1. b \in Nat /\ b + 1 = k
            BY <1>1
        <5> HIDE DEF b
        <5>2. /\ Pieces(ev, b, 1) \in Seq(Sym) /\ Len(Pieces(ev, b, 1)) = 1
              /\ Pieces(ev, b, 1)[1] = Piece(ev, b + 1)
          <6> DEFINE l == 1
          <6>1. l \in Nat /\ l \in 1..l
              OBVIOUS
          <6> HIDE DEF l
          <6> DEFINE e == ev
          <6>4. e \in Nat
              BY <1>1
          <6> HIDE DEF e
          <6>2. /\ Pieces(e, b, l) \in Seq(Sym) /\ Len(Pieces(e, b, l)) = l
                /\ \A i \in 1..l : Pieces(e, b, l)[i] = Piece(e, b + i)
              BY <5>1, <6>1, <6>4, PiecesType
          <6>3. Pieces(e, b, l)[l] = Piece(e, b + l)
              BY <6>1, <6>2
          <6> QED
              BY <6>2, <6>3 DEF e, l
        <5> QED
            BY <5>1, <5>2 DEF b
      <4> DEFINE q == Pieces(ev, k - 1, 1)
      <4>4. x = (<<DataField>> \o q) \o <<>>
          BY <4>1, <4>2 DEF Txt
      <4>5. DataField \in Sym
          BY Symbols
      <4> HIDE DEF q, x
      <4>6. q \in Seq(Sym) /\ Len(q) = 1 /\ q[1] = Piece(ev, k)
          BY <4>3 DEF q
      <4>7. x = <<DataField>> \o q
          BY <4>4, <4>5, <4>6
      <4>8. <<DataField>> \in Seq(Sym) /\ Len(<<DataField>>) = 1 /\ <<DataField>>[1] = DataField
          BY <4>5
      <4> DEFINE d == <<DataField>>
      <4>9. d \in Seq(Sym) /\ Len(d) = 1 /\ d[1] = DataField /\ x = d \o q
          BY <4>7, <4>8
      <4> HIDE DEF d
      <4>10. Len(x) = 2 /\ x[1] = d[1] /\ x[1 + 1] = q[1]
        <5>1. ASSUME NEW u \in Seq(Sym), NEW w \in Seq(Sym), Len(u) = 1, Len(w) = 1
              PROVE  Len(u \o w) = 2 /\ (u \o w)[1] = u[1] /\ (u \o w)[1 + 1] = w[1]
          <6>0. Len(u \o w) = Len(u) + Len(w)
              OBVIOUS
          <6>1. Len(u \o w) = 2
              BY <5>1, <6>0
          <6>2. \A i \in 1..Len(u) : (u \o w)[i] = u[i]
              OBVIOUS
          <6>3. \A i \in 1..Len(w) : (u \o w)[Len(u) + i] = w[i]
              OBVIOUS
          <6>4. 1 \in 1..Len(u) /\ 1 \in 1..Len(w)
              BY <5>1
          <6>5. (u \o w)[Len(u) + 1] = w[1]
              BY <6>3, <6>4
          <6> QED
              BY <5>1, <6>1, <6>2, <6>4, <6>5
        <5> QED
            BY <4>6, <4>9, <5>1
      <4> QED
          BY <4>6, <4>9, <4>10
    <3> HIDE DEF x
    <3>3. \A i \in 1..2 : i = 1 \/ i = 2
        OBVIOUS
    <3>4. \A i \in 1..Len(x) : g[R[k - 1] + i] = x[i]
        BY <1>5, <3>1, <3>2, <3>3
    <3> QED
        BY <1>5, <3>1, <3>2, <3>4 DEF x
  <2> QED
      BY <1>6, <1>8, <1>9, <2>1, <2>2 DEF Layout
<1>12. 1 \in 1..n /\ n \in 1..n /\ 1 - 1 = 0 /\ (n - 1) + 1 = n
    BY <1>1
<1>13. /\ M[1].kind = "data" /\ M[1].no = no /\ M[1].ev = ev /\ M[1].base = 0
       /\ M[n].kind = "data" /\ M[n].no = no /\ M[n].ev = ev /\ M[n].base + M[n].len = n
    BY <1>7, <1>12
<1>14. IsPart(g, M[1], M[n])
  <2>1. \A j \in 1..n : M[j].no = M[1].no /\ M[j].ev = M[1].ev
      BY <1>7, <1>12
  <2> QED
      BY <1>8, <1>10, <1>11, <2>1 DEF IsPart
<1> QED
    BY <1>13, <1>14 DEF IsData, g, p, n

LEMMA DataIsData ==
    ASSUME NEW no, NEW ev, Writable(no, ev)
    PROVE  IsData(DataLines(Payload(ev, Total(ev))), no, ev)
BY OneDataLine, ManyDataLines
\* data lines and the blank line, after a line or none that leads them
LEMMA Enclosed ==
    ASSUME NEW no, NEW ev, Writable(no, ev)
    PROVE  LET data == DataLines(Payload(ev, Total(ev))) IN
           /\ data \in Seq(Sym) /\ EOL \in Seq(Sym)
           /\ \E a, z : IsPart(data \o EOL, a, z) /\ z.kind = "blank"
                        /\ a.kind = "data" /\ a.no = no /\ a.ev = ev /\ a.base = 0
<1> DEFINE data == DataLines(Payload(ev, Total(ev)))
<1> DEFINE b == Ln("blank", no, ev, Total(ev), 0)
<1>1. IsData(data, no, ev)
    BY DataIsData
<1> HIDE DEF data
<1>2. PICK a, z : /\ IsPart(data, a, z)
                  /\ a.kind = "data" /\ a.no = no /\ a.ev = ev /\ a.base = 0
                  /\ z.kind = "data" /\ z.no = no /\ z.ev = ev /\ z.base + z.len = Total(ev)
    BY <1>1 DEF IsData
<1>3. LineOk(b)
    BY LinesOk
<1>4. b.kind = "blank" /\ b.no = no /\ b.ev = ev /\ b.base = Total(ev)
    BY LnIs
<1> HIDE DEF b
<1>5. EOL \in Seq(Sym) /\ IsPart(EOL, b, b)
  <2>1. Body(b) = <<>> /\ EOL \in Seq(Sym) /\ IsPart(Body(b) \o EOL, b, b)
      BY <1>3, <1>4, LineText, BodyIs
  <2>2. <<>> \o EOL = EOL
      BY <2>1
  <2> QED
      BY <2>1, <2>2
<1>6. Follows(z, b)
    BY <1>2, <1>4 DEF Follows
<1>7. IsPart(data \o EOL, a, b)
    BY <1>2, <1>4, <1>5, <1>6, PartsJoin
<1>8. data \in Seq(Sym)
    BY <1>2 DEF IsPart, Layout
<1> QED
    BY <1>2, <1>4, <1>5, <1>7, <1>8 DEF data

LEMMA Led ==
    ASSUME NEW no, NEW ev, NEW a, NEW z, NEW h, NEW l, LineOk(l), IsPart(h, a, z),
           a.kind = "data", a.no = no, a.ev = ev, a.base = 0,
           l.kind \in {"comment", "error"}, l.no = no, l.ev = ev, l.base = 0, l.len = 0
    PROVE  IsPart((Body(l) \o EOL) \o h, l, z)
<1>1. IsPart(Body(l) \o EOL, l, l)
    BY LineText
<1>2. Follows(l, a)
    BY DEF Follows
<1> QED
    BY <1>1, <1>2, PartsJoin

LEMMA EventIsFrame ==
    ASSUME NEW e \in Nat \ {0}, Writable(e, e)
    PROVE  IsFrame(formatSSEEvent(e, script.events[e].size), e, e)
<1> DEFINE n == script.events[e].size
<1> DEFINE data == DataLines(Payload(e, n))
<1>1. Total(e) = n
    BY DEF Total
<1>2. /\ data \in Seq(Sym) /\ EOL \in Seq(Sym)
      /\ \E a, z : IsPart(data \o EOL, a, z) /\ z.kind = "blank"
                   /\ a.kind = "data" /\ a.no = e /\ a.ev = e /\ a.base = 0
    BY <1>1, Enclosed
<1> HIDE DEF n, data
<1>3. PICK a, z : /\ IsPart(data \o EOL, a, z) /\ z.kind = "blank"
                  /\ a.kind = "data" /\ a.no = e /\ a.ev = e /\ a.base = 0
    BY <1>2
<1>4. CASE style # "pretty"
  <2>1. <<>> \o data = data
      BY <1>2
  <2>2. formatSSEEvent(e, n) = data \o EOL
      BY <1>4, <2>1 DEF formatSSEEvent, data
  <2>3. Opening(a)
      BY <1>3 DEF Opening
  <2> QED
      BY <1>3, <2>2, <2>3 DEF IsFrame, n
<1>5. CASE style = "pretty"
  <2> DEFINE l == Ln("comment", e, e, 0, 0)
  <2>1. LineOk(l)
      BY LinesOk
  <2>2. l.kind = "comment" /\ l.no = e /\ l.ev = e /\ l.base = 0 /\ l.len = 0
      BY LnIs
  <2> HIDE DEF l
  <2>3. Body(l) = <<CommentLine>>
      BY <2>1, <2>2, BodyIs
  <2>4. IsPart((Body(l) \o EOL) \o (data \o EOL), l, z)
      BY <1>3, <2>1, <2>2, Led
  <2>5. formatSSEEvent(e, n) = ((Body(l) \o EOL) \o data) \o EOL
      BY <1>5, <2>3 DEF formatSSEEvent, data
  <2>6. Body(l) \o EOL \in Seq(Sym)
      BY <1>2, <2>1, BodyIs
  <2> DEFINE first == Body(l) \o EOL
  <2> HIDE DEF first
  <2>7. first \o (data \o EOL) = (first \o data) \o EOL
      BY <1>2, <2>6, Assoc DEF first
  <2>8. Opening(l)
      BY <2>2 DEF Opening
  <2> QED
      BY <1>3, <2>2, <2>4, <2>5, <2>7, <2>8 DEF IsFrame, first, n
<1> QED
    BY <1>4, <1>5

\* The error is written where the next event would be.
LEMMA ErrorIsFrame ==
    ASSUME NEW e \in Nat \ {0}
    PROVE  IsFrame(formatSSEErrorEvent, e, 0)
<1> DEFINE data == DataLines(Payload(0, 1))
<1>1. Total(0) = 1 /\ Writable(e, 0)
    BY DEF Total, Writable
<1>2. /\ data \in Seq(Sym) /\ EOL \in Seq(Sym)
      /\ \E a, z : IsPart(data \o EOL, a, z) /\ z.kind = "blank"
                   /\ a.kind = "data" /\ a.no = e /\ a.ev = 0 /\ a.base = 0
    BY <1>1, Enclosed
<1> HIDE DEF data
<1>3. PICK a, z : /\ IsPart(data \o EOL, a, z) /\ z.kind = "blank"
                  /\ a.kind = "data" /\ a.no = e /\ a.ev = 0 /\ a.base = 0
    BY <1>2
<1> DEFINE l == Ln("error", e, 0, 0, 0)
<1>4. LineOk(l)
    BY <1>1, LinesOk
<1>5. l.kind = "error" /\ l.no = e /\ l.ev = 0 /\ l.base = 0 /\ l.len = 0
    BY LnIs
<1> HIDE DEF l
<1>6. Body(l) = <<EventError>>
    BY <1>4, <1>5, BodyIs
<1>7. IsPart((Body(l) \o EOL) \o (data \o EOL), l, z)
    BY <1>3, <1>4, <1>5, Led
<1>8. formatSSEErrorEvent = ((Body(l) \o EOL) \o data) \o EOL
    BY <1>6 DEF formatSSEErrorEvent, data
<1>9. Body(l) \o EOL \in Seq(Sym)
    BY <1>2, <1>4, BodyIs
<1> DEFINE first == Body(l) \o EOL
<1> HIDE DEF first
<1>10. first \o (data \o EOL) = (first \o data) \o EOL
    BY <1>2, <1>9, Assoc DEF first
<1>11. Opening(l)
    BY <1>5 DEF Opening
<1> QED
    BY <1>3, <1>5, <1>7, <1>8, <1>10, <1>11 DEF IsFrame, first
-----------------------------------------------------------------------------
(* The inductive invariant: what is buffered and on the wire is the text of *)
(* the lines that follow the p lines parsed; the parser has the events      *)
(* before line p + 1, and of its event what comes before the line; and      *)
(* while the connection is open, the lines are all that was to be written.  *)

TypeInv ==
    /\ script \in Scripts /\ pulled \in 0..Len(script.events)
    /\ {buffer, wire, eventData} \subseteq Seq(Sym) /\ received \in Seq(Nat)
    /\ open \in BOOLEAN /\ cut \in BOOLEAN

ServerInv ==
    /\ answer \in {"none", "sse", "error"}
    /\ server = "peek" => pulled = 0 /\ answer = "none" /\ generator = "suspended"
    /\ server = "first" => pulled = 1 /\ generator = "suspended"
    /\ server = "loop" => generator \in {"suspended", "returned"}
    /\ server = "failing" => generator # "returned"
    /\ answer = "error" => server = "ended" /\ generator = "threw"
    /\ answer = "sse" => script.events # <<>> \/ script.ends # "throw"

Frames(L) == IF L = <<>> THEN 0 ELSE L[Len(L)].no
Failed(L) == L # <<>> /\ L[Len(L)].ev = 0

\* whole frames
Text(L) ==
    /\ Chain(L)
    /\ L # <<>> => L[1].no = 1 /\ Opening(L[1]) /\ L[Len(L)].kind = "blank"

Yielded(L) == \A j \in 1..Len(L) : L[j].ev <= pulled

Placed(L, p) ==
    /\ p < Len(L) => LET ln == L[p + 1] IN
        /\ Len(received) + 1 = ln.no
        /\ eventData = Pieces(ln.ev, 0, ln.base)
        /\ eventType = IF ln.ev = 0 /\ ln.kind # "error" THEN "error" ELSE "message"
    /\ p = Len(L) =>
        /\ Len(received) = Frames(L) /\ ~Failed(L)
        /\ eventData = <<>> /\ eventType = "message"

Unread == buffer \o wire

Window(g, pos) ==
    /\ pos + Len(Unread) <= Len(g)
    /\ \A i \in 1..Len(Unread) : Unread[i] = g[pos + i]
    /\ open => pos + Len(Unread) = Len(g)

\* all that the server has come to
Written(L) ==
    /\ server \in {"peek", "first"} => L = <<>>
    /\ server = "loop" => Frames(L) = pulled
    /\ server \in {"loop", "failing"} => ~Failed(L)
    /\ Failed(L) => server = "ended" /\ generator # "returned"
    /\ server = "ended" => \/ Failed(L)
                           \/ answer = "error"
                           \/ generator = "returned" /\ Frames(L) = pulled

Told(g, L, S, p) ==
    /\ p \in 0..Len(L)
    /\ Text(L) /\ Yielded(L) /\ Layout(g, L, S)
    /\ Placed(L, p)
    /\ Window(g, S[p])
    /\ open => Written(L)

TextInv == \E g, L, S, p : Told(g, L, S, p)

Reading ==
    /\ client \in {"waiting", "reading"} => TextInv /\ open = ~cut
    /\ client = "reading" => answer = "sse"

StreamInv == TypeInv /\ ServerInv /\ EventsInOrder /\ Reading

LEMMA ScriptTypes ==
    ASSUME NEW s \in Scripts
    PROVE  /\ Len(s.events) \in Nat
           /\ \A i \in 1..Len(s.events) : s.events[i].size \in Nat \ {0}
<1>1. s \in [events : Seq([size : Nat \ {0}, fit : BOOLEAN]), ends : {"return", "throw"}]
    BY StreamAssumption
<1>2. s.events \in Seq([size : Nat \ {0}, fit : BOOLEAN])
    BY <1>1
<1>3. \A i \in 1..Len(s.events) : s.events[i] \in [size : Nat \ {0}, fit : BOOLEAN]
  <2>1. ASSUME NEW S, NEW es \in Seq(S) PROVE \A i \in 1..Len(es) : es[i] \in S
      OBVIOUS
  <2> QED
      BY <1>2, <2>1
<1> QED
    BY <1>2, <1>3

LEMMA NoPieces ==
    ASSUME NEW ev \in Nat
    PROVE  Pieces(ev, 0, 0) = <<>>
<1> DEFINE o == 0
<1>1. o \in Nat /\ o = 0
    OBVIOUS
<1> HIDE DEF o
<1>2. Pieces(ev, o, o) \in Seq(Sym) /\ Len(Pieces(ev, o, o)) = o
    BY <1>1, PiecesType
<1>3. Pieces(ev, o, o) = <<>>
    BY <1>1, <1>2
<1> QED
    BY <1>3 DEF o

LEMMA LinesType ==
    ASSUME NEW L, Chain(L)
    PROVE  /\ L \in Seq(Line) /\ Len(L) \in Nat /\ Frames(L) \in Nat
           /\ L # <<>> => Len(L) \in 1..Len(L) /\ 1 \in 1..Len(L)
<1>1. L \in Seq(Line) /\ Len(L) \in Nat /\ (L # <<>> => Len(L) \in 1..Len(L) /\ 1 \in 1..Len(L))
    BY DEF Chain
<1>2. ASSUME L # <<>> PROVE L[Len(L)].no \in Nat
  <2>1. L[Len(L)] \in Line
      BY <1>1, <1>2
  <2> QED
      BY <2>1 DEF Line
<1> QED
    BY <1>1, <1>2 DEF Frames

LEMMA InitStream == Init => StreamInv
<1>1. SUFFICES ASSUME Init PROVE StreamInv
    OBVIOUS
<1>2. TypeInv
  <2>1. <<>> \in Seq(Sym) /\ <<>> \in Seq(Nat) /\ TRUE \in BOOLEAN /\ FALSE \in BOOLEAN
      OBVIOUS
  <2>2. script \in Scripts /\ pulled = 0 /\ buffer = <<>> /\ wire = <<>> /\ eventData = <<>> /\ received = <<>>
        /\ open = TRUE /\ cut = FALSE
      BY <1>1 DEF Init
  <2>3. 0 \in 0..Len(script.events)
      BY <2>2, ScriptTypes
  <2> QED
      BY <2>1, <2>2, <2>3 DEF TypeInv
<1>5. ServerInv
    BY <1>1 DEF Init, ServerInv
<1>3. EventsInOrder
  <2>1. Len(received) = 0 /\ received = [i \in 1..0 |-> i] /\ pulled = 0
      BY <1>1 DEF Init
  <2> QED
      BY <2>1 DEF EventsInOrder
<1>4. TextInv
  <2> DEFINE L == <<>>
  <2> DEFINE S == [j \in 0..0 |-> 0]
  <2>1. L \in Seq(Line) /\ Len(L) = 0 /\ 1..Len(L) = {} /\ <<>> \in Seq(Sym)
      OBVIOUS
  <2>2. S \in [0..0 -> Nat] /\ S[0] = 0
      OBVIOUS
  <2>3. L = <<>>
      OBVIOUS
  <2> HIDE DEF L, S
  <2>4. Text(L) /\ Yielded(L) /\ Frames(L) = 0 /\ ~Failed(L)
      BY <2>1, <2>3 DEF Text, Yielded, Chain, Frames, Failed
  <2>5. Layout(<<>>, L, S)
      BY <2>1, <2>2 DEF Layout
  <2>6. Unread = <<>> /\ Len(Unread) = 0
      BY <1>1 DEF Init, Unread
  <2>7. Placed(L, 0) /\ Window(<<>>, S[0]) /\ Written(L)
      BY <1>1, <2>1, <2>2, <2>3, <2>4, <2>6 DEF Init, Placed, Window, Written
  <2>8. Told(<<>>, L, S, 0)
      BY <2>1, <2>4, <2>5, <2>7 DEF Told
  <2> QED
      BY <2>8 DEF TextInv
<1> QED
    BY <1>1, <1>2, <1>3, <1>4, <1>5 DEF StreamInv, Reading, Init

\* the text depends on the script and the style only
LEMMA TextFixed ==
    ASSUME UNCHANGED <<script, style>>, NEW g, NEW L, NEW S, Text(L), Layout(g, L, S)
    PROVE  Text(L)' /\ Layout(g, L, S)'
<1>1. \A ln : Txt(ln)' = Txt(ln)
    BY DEF Txt, Body, Return
<1>2. \A ln : LineOk(ln)' = LineOk(ln)
    BY DEF LineOk, Share, Total
<1>3. Text(L)'
    BY <1>2 DEF Text, Chain
<1>4. Layout(g, L, S)'
    BY <1>1 DEF Layout
<1> QED
    BY <1>3, <1>4

\* Nothing is written or parsed.
LEMMA TextStays ==
    ASSUME TextInv, Unread' = Unread, UNCHANGED <<script, style, eventType, eventData, received>>,
           pulled \in Nat, pulled' \in Nat, pulled <= pulled',
           open' => open, \A L : Text(L) /\ open' /\ Written(L) => Written(L)'
    PROVE  TextInv'
<1>1. PICK g, L, S, p : Told(g, L, S, p)
    BY DEF TextInv
<1>2. Text(L)' /\ Layout(g, L, S)'
    BY <1>1, TextFixed DEF Told
<1>3. Yielded(L)'
  <2>1. ASSUME NEW j \in 1..Len(L) PROVE L[j].ev <= pulled'
    <3>1. L[j].ev \in Nat /\ L[j].ev <= pulled
        BY <1>1 DEF Told, Text, Yielded, Chain, LineOk, Line
    <3> QED
        BY <3>1
  <2> QED
      BY <2>1 DEF Yielded
<1>4. Placed(L, p)'
    BY <1>1 DEF Told, Placed
<1>5. Window(g, S[p])'
    BY <1>1 DEF Told, Window
<1>6. Told(g, L, S, p)'
    BY <1>1, <1>2, <1>3, <1>4, <1>5 DEF Told
<1> QED
    BY <1>6 DEF TextInv
LEMMA WindowGrows ==
    ASSUME NEW g \in Seq(Sym), NEW h \in Seq(Sym), NEW pos \in Nat, Window(g, pos), open,
           Unread \in Seq(Sym), Unread' = Unread \o h
    PROVE  Window(g \o h, pos)'
<1> DEFINE t == g \o h
<1> DEFINE u == Unread
<1> DEFINE v == Unread'
<1> DEFINE l == Len(u)
<1> DEFINE m == Len(g)
<1> DEFINE n == Len(h)
<1>1. pos + l = m /\ l \in Nat /\ m \in Nat /\ n \in Nat /\ \A i \in 1..l : u[i] = g[pos + i]
    BY DEF Window
<1>2. Len(v) = l + n /\ (\A i \in 1..l : v[i] = u[i]) /\ \A i \in 1..n : v[l + i] = h[i]
    OBVIOUS
<1>3. Len(t) = m + n /\ (\A i \in 1..m : t[i] = g[i]) /\ \A i \in 1..n : t[m + i] = h[i]
    OBVIOUS
<1> HIDE DEF t, u, v, l, m, n
<1>4. pos + Len(v) = Len(t) /\ pos + Len(v) <= Len(t)
    BY <1>1, <1>2, <1>3
<1>5. ASSUME NEW i \in 1..Len(v) PROVE v[i] = t[pos + i]
  <2>1. CASE i <= l
    <3>1. i \in 1..l /\ pos + i \in 1..m
        BY <1>1, <1>2, <2>1
    <3> QED
        BY <1>1, <1>2, <1>3, <3>1
  <2>2. CASE i > l
    <3> DEFINE q == i - l
    <3>1. q \in 1..n /\ i = l + q /\ pos + i = m + q
        BY <1>1, <1>2, <2>2
    <3> HIDE DEF q
    <3> QED
        BY <1>2, <1>3, <3>1
  <2> QED
      BY <1>1, <1>2, <2>1, <2>2
<1> QED
    BY <1>4, <1>5 DEF Window, t, v

FrameLines(M, no, ev) ==
    /\ Chain(M) /\ M # <<>> /\ Opening(M[1]) /\ M[Len(M)].kind = "blank"
    /\ M[1].no = no
    /\ \A j \in 1..Len(M) : M[j].no = no /\ M[j].ev = ev

\* lines of a frame that is not an error's, and those of the next
LEMMA FrameFollows ==
    ASSUME NEW L, Text(L), ~Failed(L), NEW M, NEW e, FrameLines(M, Frames(L) + 1, e)
    PROVE  /\ Text(L \o M) /\ Frames(L \o M) = Frames(L) + 1 /\ (Failed(L \o M) <=> e = 0)
           /\ Len(L \o M) = Len(L) + Len(M)
           /\ \A j \in 1..Len(L) : (L \o M)[j] = L[j]
           /\ \A j \in 1..Len(M) : (L \o M)[Len(L) + j] = M[j]
<1> DEFINE N == L \o M
<1>0. /\ Chain(M) /\ M # <<>> /\ Opening(M[1]) /\ M[Len(M)].kind = "blank"
      /\ M[1].no = Frames(L) + 1
      /\ \A j \in 1..Len(M) : M[j].no = Frames(L) + 1 /\ M[j].ev = e
    BY DEF FrameLines
<1>1. /\ Len(L) \in Nat /\ (L # <<>> => Len(L) \in 1..Len(L) /\ 1 \in 1..Len(L))
      /\ Len(M) \in Nat /\ Len(M) \in 1..Len(M) /\ 1 \in 1..Len(M)
      /\ (L = <<>> <=> Len(L) = 0)
  <2>1. L \in Seq(Line) /\ M \in Seq(Line)
      BY <1>0 DEF Text, Chain
  <2>2. (L = <<>> <=> Len(L) = 0)
      BY <2>1
  <2> QED
      BY <1>0, <2>2, LinesType DEF Text
<1>2. L # <<>> => Follows(L[Len(L)], M[1])
    BY <1>0, <1>1 DEF Follows, Text, Frames, Failed
<1>3. /\ Chain(N) /\ Len(N) = Len(L) + Len(M)
      /\ \A j \in 1..Len(L) : N[j] = L[j]
      /\ \A j \in 1..Len(M) : N[Len(L) + j] = M[j]
    BY <1>0, <1>2, ChainGlue DEF Text
<1> HIDE DEF N
<1>4. N # <<>> /\ N[Len(N)] = M[Len(M)]
  <2>1. Len(N) # 0
      BY <1>1, <1>3
  <2> QED
      BY <1>1, <1>3, <2>1
<1>5. N[1].no = 1 /\ Opening(N[1])
  <2>1. CASE L = <<>>
    <3>1. N[1] = M[1] /\ Frames(L) = 0
        BY <1>1, <1>3, <2>1 DEF Frames
    <3> QED
        BY <1>0, <3>1
  <2>2. CASE L # <<>>
    <3>1. N[1] = L[1]
        BY <1>1, <1>3, <2>2
    <3> QED
        BY <2>2, <3>1 DEF Text
  <2> QED
      BY <2>1, <2>2
<1>7. Text(N)
    BY <1>0, <1>3, <1>4, <1>5 DEF Text
<1>8. Frames(N) = Frames(L) + 1 /\ (Failed(N) <=> e = 0)
    BY <1>0, <1>1, <1>4 DEF Frames, Failed
<1> QED
    BY <1>3, <1>7, <1>8 DEF N

\* A frame is written, or dropped when nobody reads.
LEMMA WriteKeeps ==
    ASSUME TypeInv, TextInv, NEW h, NEW ev \in Nat, Write(h),
           UNCHANGED <<script, style, open, buffer, eventType, eventData, received>>,
           pulled' \in Nat, pulled <= pulled', ev <= pulled',
           \A L : Text(L) /\ open /\ Written(L) =>
               /\ ~Failed(L)
               /\ IsFrame(h, Frames(L) + 1, ev)
               /\ \A N : Frames(N) = Frames(L) + 1 /\ (Failed(N) <=> ev = 0) => Written(N)'
    PROVE  TextInv'
<1>0. pulled \in Nat
    BY ScriptTypes DEF TypeInv
<1>1. CASE ~open
  <2>1. Unread' = Unread
      BY <1>1 DEF Write, Unread
  <2> QED
      BY <1>0, <1>1, <2>1, TextStays
<1>2. CASE open
  <2>1. PICK g, L, S, p : Told(g, L, S, p)
      BY DEF TextInv
  <2>2. Text(L) /\ Yielded(L) /\ Layout(g, L, S) /\ Placed(L, p) /\ Window(g, S[p]) /\ Written(L) /\ p \in 0..Len(L)
      BY <1>2, <2>1 DEF Told
  <2>3. ~Failed(L) /\ IsFrame(h, Frames(L) + 1, ev)
      BY <1>2, <2>2
  <2>4. PICK M, R : /\ Chain(M) /\ Layout(h, M, R) /\ M # <<>>
                    /\ Opening(M[1]) /\ M[1].no = Frames(L) + 1 /\ M[1].ev = ev
                    /\ M[Len(M)].kind = "blank"
                    /\ \A j \in 1..Len(M) : M[j].no = M[1].no /\ M[j].ev = ev
      BY <2>3 DEF IsFrame, IsPart
  <2> DEFINE N == L \o M
  <2> DEFINE t == g \o h
  <2> DEFINE T == Glued(L, S, Len(M), R)
  <2>5. Chain(L) /\ Chain(M) /\ Layout(t, N, T)
      BY <2>2, <2>4, LayoutGlue DEF Text
  <2>6. /\ Len(L) \in Nat /\ Len(M) \in Nat /\ 1 \in 1..Len(M) /\ Frames(L) \in Nat
        /\ g \in Seq(Sym) /\ h \in Seq(Sym)
        /\ S \in [0..Len(L) -> Nat]
      BY <2>2, <2>4, <2>5, LinesType DEF Layout
  <2>9. /\ Text(N) /\ Frames(N) = Frames(L) + 1 /\ (Failed(N) <=> ev = 0)
        /\ Len(N) = Len(L) + Len(M)
        /\ \A j \in 1..Len(L) : N[j] = L[j]
        /\ \A j \in 1..Len(M) : N[Len(L) + j] = M[j]
    <3>1. Text(L) /\ ~Failed(L)
        BY <2>2, <2>3
    <3>2. FrameLines(M, Frames(L) + 1, ev)
        BY <2>4 DEF FrameLines
    <3>4. /\ Text(L \o M) /\ Frames(L \o M) = Frames(L) + 1 /\ (Failed(L \o M) <=> ev = 0)
          /\ Len(L \o M) = Len(L) + Len(M)
          /\ \A j \in 1..Len(L) : (L \o M)[j] = L[j]
          /\ \A j \in 1..Len(M) : (L \o M)[Len(L) + j] = M[j]
        BY <3>1, <3>2, FrameFollows
    <3> QED
        BY <3>4
  <2>7. Text(N)' /\ Layout(t, N, T)'
      BY <2>5, <2>9, TextFixed
  <2>8. Yielded(N)'
    <3>1. ASSUME NEW j \in 1..Len(N) PROVE N[j].ev <= pulled'
      <4>1. CASE j <= Len(L)
        <5>1. j \in 1..Len(L)
            BY <2>6, <4>1
        <5>2. L[j].ev \in Nat /\ L[j].ev <= pulled
            BY <2>2, <5>1 DEF Text, Yielded, Chain, LineOk, Line
        <5> QED
            BY <1>0, <2>9, <5>1, <5>2
      <4>2. CASE j > Len(L)
        <5>1. j - Len(L) \in 1..Len(M) /\ j = Len(L) + (j - Len(L))
            BY <2>6, <2>9, <4>2
        <5>2. N[j].ev = ev
            BY <2>4, <2>9, <5>1
        <5> QED
            BY <5>2
      <4> QED
          BY <2>6, <4>1, <4>2
    <3> QED
        BY <3>1 DEF Yielded
  <2>10. T[p] = S[p] /\ S[p] \in Nat
    <3>1. p \in 0..(Len(L) + Len(M)) /\ p <= Len(L)
        BY <2>2, <2>6
    <3> QED
        BY <2>2, <2>6, <3>1 DEF Glued
  <2> HIDE DEF N, T
  <2>11. Window(t, T[p])'
    <3>1. Unread \in Seq(Sym) /\ Unread' = Unread \o h
      <4>1. buffer \in Seq(Sym) /\ wire \in Seq(Sym)
          BY DEF TypeInv
      <4>2. Unread' = buffer \o (wire \o h)
          BY <1>2 DEF Write, Unread
      <4>3. buffer \o wire \in Seq(Sym)
          BY <4>1
      <4>5. h \in Seq(Sym)
          BY <2>6
      <4>4. buffer \o (wire \o h) = (buffer \o wire) \o h
          BY <4>1, <4>5, Assoc, Zenon
      <4> QED
          BY <4>2, <4>3, <4>4 DEF Unread
    <3>2. Window(g, S[p])
        BY <2>2
    <3> DEFINE pos == S[p]
    <3> HIDE DEF pos
    <3>3. Window(g \o h, pos)'
        BY <1>2, <2>6, <2>10, <3>1, <3>2, WindowGrows DEF pos
    <3> QED
        BY <2>10, <3>3 DEF pos
  <2>12. Placed(N, p)'
    <3>1. CASE p < Len(L)
      <4>1. p + 1 \in 1..Len(L) /\ p < Len(N) /\ p # Len(N)
          BY <2>2, <2>6, <2>9, <3>1
      <4>2. N[p + 1] = L[p + 1]
          BY <2>9, <4>1
      <4> QED
          BY <2>2, <3>1, <4>1, <4>2 DEF Placed
    <3>2. CASE p = Len(L)
      <4>1. N[p + 1] = M[1] /\ p # Len(N)
          BY <2>6, <2>9, <3>2
      <4>2. M[1].base = 0 /\ (M[1].ev = 0 => M[1].kind = "error")
          BY <2>4 DEF Opening
      <4>3. Pieces(ev, 0, 0) = <<>>
          BY NoPieces
      <4>4. Len(received) = Frames(L) /\ eventData = <<>> /\ eventType = "message"
          BY <2>2, <3>2 DEF Placed
      <4> QED
          BY <2>4, <4>1, <4>2, <4>3, <4>4 DEF Placed
    <3> QED
        BY <2>2, <2>6, <3>1, <3>2
  <2>13. Written(N)'
      BY <1>2, <2>2, <2>9
  <2>14. p \in 0..Len(N)
      BY <2>2, <2>6, <2>9
  <2>15. Told(t, N, T, p)'
      BY <2>7, <2>8, <2>11, <2>12, <2>13, <2>14 DEF Told
  <2> QED
      BY <2>15 DEF TextInv
<1> QED
    BY <1>1, <1>2
-----------------------------------------------------------------------------
(* The server *)

\* the types, the order and the text, when the client does nothing
LEMMA ServerKeeps ==
    ASSUME StreamInv, UNCHANGED <<script, style, open, cut, clientVars>>,
           pulled' \in pulled..Len(script.events), wire' \in Seq(Sym),
           ServerInv', client = "reading" => answer' = "sse",
           TextInv => TextInv'
    PROVE  StreamInv'
<1>1. pulled \in Nat /\ pulled' \in Nat /\ pulled' >= pulled /\ Len(script.events) \in Nat
    BY ScriptTypes DEF StreamInv, TypeInv
<1>2. TypeInv'
    BY <1>1 DEF StreamInv, TypeInv, clientVars
<1>3. EventsInOrder'
  <2>1. received \in Seq(Nat)
      BY DEF StreamInv, TypeInv
  <2>2. Len(received) \in Nat /\ Len(received) <= pulled
      BY <2>1 DEF StreamInv, EventsInOrder
  <2>3. Len(received) <= pulled'
      BY <1>1, <2>2
  <2>4. received' = received
      BY DEF clientVars
  <2> QED
      BY <2>3, <2>4 DEF StreamInv, EventsInOrder
<1>4. Reading'
    BY DEF StreamInv, Reading, clientVars
<1> QED
    BY <1>2, <1>3, <1>4 DEF StreamInv

LEMMA FrameTypes == \A h, e, ev : IsFrame(h, e, ev) => h \in Seq(Sym)
BY DEF IsFrame, IsPart, Layout

LEMMA WriteTypes ==
    ASSUME wire \in Seq(Sym), NEW h \in Seq(Sym), Write(h)
    PROVE  wire' \in Seq(Sym)
BY DEF Write

LEMMA PeekKeeps == StreamInv /\ Peek => StreamInv'
<1>1. SUFFICES ASSUME StreamInv, Peek PROVE StreamInv'
    OBVIOUS
<1>2. /\ pulled = 0 /\ generator = "suspended" /\ answer = "none"
      /\ Len(script.events) \in Nat /\ wire \in Seq(Sym)
    BY <1>1, ScriptTypes DEF StreamInv, TypeInv, ServerInv, Peek
<1>3. UNCHANGED <<script, style, open, cut, wire, clientVars>> /\ server = "peek"
    BY <1>1 DEF Peek
<1>4. \/ pulled' = 1 /\ server' = "first" /\ answer' = "sse" /\ UNCHANGED generator /\ 1 <= Len(script.events)
      \/ /\ pulled' = 0 /\ generator' = "threw" /\ answer' = "error" /\ server' = "ended"
      \/ /\ pulled' = 0 /\ generator' = "returned" /\ answer' = "sse" /\ server' = "loop"
         /\ script.ends # "throw"
    BY <1>1, <1>2 DEF Peek, More
<1>5. ServerInv'
  <2>1. 1 <= Len(script.events) => script.events # <<>>
      OBVIOUS
  <2>2. script' = script
      BY <1>3
  <2> QED
      BY <1>2, <1>3, <1>4, <2>1, <2>2 DEF ServerInv
<1>6. TextInv => TextInv'
  <2>1. ASSUME NEW L, Written(L) PROVE Written(L)'
    <3>1. L = <<>> /\ Frames(L) = 0 /\ ~Failed(L)
        BY <1>3, <2>1 DEF Written, Frames, Failed
    <3> QED
        BY <1>4, <3>1 DEF Written
  <2>2. pulled' \in Nat /\ pulled <= pulled' /\ Unread' = Unread
      BY <1>2, <1>3, <1>4 DEF Unread, clientVars
  <2> QED
      BY <1>2, <1>3, <2>1, <2>2, TextStays DEF clientVars
<1>7. pulled' \in pulled..Len(script.events) /\ wire' \in Seq(Sym)
    BY <1>2, <1>3, <1>4
<1>8. client # "reading"
    BY <1>1, <1>2 DEF StreamInv, Reading
<1> QED
    BY <1>1, <1>3, <1>5, <1>6, <1>7, <1>8, ServerKeeps

\* an event is written, or nothing is
LEMMA EventKeeps ==
    ASSUME StreamInv, UNCHANGED <<script, style, open, cut, clientVars>>,
           pulled' \in Nat \ {0}, pulled' \in pulled..Len(script.events),
           \A L : Text(L) /\ Written(L) => Frames(L) + 1 = pulled' /\ ~Failed(L),
           IF script.events[pulled'].fit
           THEN Write(formatSSEEvent(pulled', script.events[pulled'].size)) /\ server' = "loop"
           ELSE server' = "failing" /\ UNCHANGED wire
    PROVE  (TextInv => TextInv') /\ wire' \in Seq(Sym)
<1>0. pulled \in Nat /\ pulled <= pulled' /\ wire \in Seq(Sym) /\ Len(script.events) \in Nat
    BY ScriptTypes DEF StreamInv, TypeInv
<1>1. CASE script.events[pulled'].fit
  <2> DEFINE e == pulled'
  <2> DEFINE h == formatSSEEvent(e, script.events[e].size)
  <2>1. Write(h) /\ server' = "loop"
      BY <1>1
  <2>2. Writable(e, e)
    <3>1. script.events[e].size \in Nat \ {0} /\ e <= Len(script.events)
      <4>1. e \in 1..Len(script.events)
          BY <1>0
      <4> QED
          BY <4>1, ScriptTypes DEF StreamInv, TypeInv
    <3> QED
        BY <1>1, <3>1 DEF Writable
  <2>3. IsFrame(h, e, e)
      BY <2>2, EventIsFrame
  <2> HIDE DEF h
  <2>4. wire' \in Seq(Sym)
      BY <1>0, <2>1, <2>3, FrameTypes, WriteTypes
  <2>5. \A L : Text(L) /\ open /\ Written(L) =>
               /\ ~Failed(L)
               /\ IsFrame(h, Frames(L) + 1, e)
               /\ \A N : Frames(N) = Frames(L) + 1 /\ (Failed(N) <=> e = 0) => Written(N)'
      BY <2>1, <2>3 DEF Written
  <2>6. TextInv => TextInv'
      BY <1>0, <2>1, <2>5, WriteKeeps DEF StreamInv, clientVars
  <2> QED
      BY <2>4, <2>6
<1>2. CASE ~script.events[pulled'].fit
  <2>1. UNCHANGED wire /\ server' = "failing"
      BY <1>2
  <2>2. Unread' = Unread
      BY <2>1 DEF Unread, clientVars
  <2>3. \A L : Text(L) /\ open' /\ Written(L) => Written(L)'
      BY <2>1 DEF Written
  <2>4. TextInv => TextInv'
      BY <1>0, <2>2, <2>3, TextStays DEF clientVars
  <2> QED
      BY <1>0, <2>1, <2>4
<1> QED
    BY <1>1, <1>2

LEMMA WriteFirstKeeps == StreamInv /\ WriteFirst => StreamInv'
<1>1. SUFFICES ASSUME StreamInv, WriteFirst PROVE StreamInv'
    OBVIOUS
<1>2. /\ pulled = 1 /\ pulled' = 1 /\ Len(script.events) \in Nat /\ 1 <= Len(script.events)
      /\ generator = "suspended" /\ UNCHANGED <<generator, answer>>
    BY <1>1, ScriptTypes DEF StreamInv, TypeInv, ServerInv, WriteFirst
<1>3. UNCHANGED <<script, style, open, cut, clientVars>> /\ server = "first" /\ server' \in {"loop", "failing"}
    BY <1>1 DEF WriteFirst
<1>4. ServerInv'
    BY <1>1, <1>2, <1>3 DEF StreamInv, ServerInv
<1>5. \A L : Text(L) /\ Written(L) => Frames(L) + 1 = pulled' /\ ~Failed(L)
    BY <1>2, <1>3 DEF Written, Frames, Failed
<1>6. IF script.events[pulled'].fit
      THEN Write(formatSSEEvent(pulled', script.events[pulled'].size)) /\ server' = "loop"
      ELSE server' = "failing" /\ UNCHANGED wire
    BY <1>1, <1>2 DEF WriteFirst
<1>7. pulled' \in Nat \ {0} /\ pulled' \in pulled..Len(script.events)
    BY <1>2
<1>8. (TextInv => TextInv') /\ wire' \in Seq(Sym)
    BY <1>1, <1>3, <1>5, <1>6, <1>7, EventKeeps
<1>9. client = "reading" => answer' = "sse"
    BY <1>1, <1>2 DEF StreamInv, Reading
<1> QED
    BY <1>1, <1>3, <1>4, <1>7, <1>8, <1>9, ServerKeeps

LEMMA PullNextKeeps == StreamInv /\ PullNext => StreamInv'
<1>1. SUFFICES ASSUME StreamInv, PullNext PROVE StreamInv'
    OBVIOUS
<1>2. /\ pulled \in Nat /\ pulled' = pulled + 1 /\ Len(script.events) \in Nat
      /\ pulled + 1 <= Len(script.events) /\ UNCHANGED answer
    BY <1>1, ScriptTypes DEF StreamInv, TypeInv, PullNext, More
<1>3. /\ UNCHANGED <<script, style, open, cut, clientVars>> /\ server = "loop"
      /\ \/ server' = "loop" /\ generator' = generator
         \/ server' = "failing" /\ generator' = "closed"
    BY <1>1 DEF PullNext
<1>4. ServerInv'
    BY <1>1, <1>2, <1>3 DEF StreamInv, ServerInv
<1>5. \A L : Text(L) /\ Written(L) => Frames(L) + 1 = pulled' /\ ~Failed(L)
    BY <1>2, <1>3 DEF Written
<1>6. IF script.events[pulled'].fit
      THEN Write(formatSSEEvent(pulled', script.events[pulled'].size)) /\ server' = "loop"
      ELSE server' = "failing" /\ UNCHANGED wire
    BY <1>1, <1>2, <1>3 DEF PullNext
<1>7. pulled' \in Nat \ {0} /\ pulled' \in pulled..Len(script.events)
    BY <1>2
<1>8. (TextInv => TextInv') /\ wire' \in Seq(Sym)
    BY <1>1, <1>3, <1>5, <1>6, <1>7, EventKeeps
<1>9. client = "reading" => answer' = "sse"
    BY <1>1, <1>2 DEF StreamInv, Reading
<1> QED
    BY <1>1, <1>3, <1>4, <1>7, <1>8, <1>9, ServerKeeps

LEMMA PullLastKeeps == StreamInv /\ PullLast => StreamInv'
<1>1. SUFFICES ASSUME StreamInv, PullLast PROVE StreamInv'
    OBVIOUS
<1>2. /\ pulled \in 0..Len(script.events) /\ pulled' = pulled /\ Len(script.events) \in Nat
      /\ wire \in Seq(Sym) /\ UNCHANGED answer
    BY <1>1, ScriptTypes DEF StreamInv, TypeInv, PullLast
<1>3. UNCHANGED <<script, style, open, cut, wire, clientVars>> /\ server = "loop"
    BY <1>1 DEF PullLast
<1>4. \/ server' = "failing" /\ generator' = "threw"
      \/ server' = "ended" /\ generator' = "returned"
    BY <1>1 DEF StreamInv, ServerInv, PullLast
<1>5. ServerInv'
    BY <1>1, <1>2, <1>3, <1>4 DEF StreamInv, ServerInv
<1>6. TextInv => TextInv'
  <2>1. \A L : Text(L) /\ open' /\ Written(L) => Written(L)'
      BY <1>2, <1>3, <1>4 DEF Written
  <2>2. Unread' = Unread /\ pulled \in Nat /\ pulled <= pulled'
      BY <1>2, <1>3 DEF Unread, clientVars
  <2> QED
      BY <1>2, <1>3, <2>1, <2>2, TextStays DEF clientVars
<1>7. pulled' \in pulled..Len(script.events)
    BY <1>2
<1>8. client = "reading" => answer' = "sse"
    BY <1>1, <1>2 DEF StreamInv, Reading
<1> QED
    BY <1>1, <1>2, <1>3, <1>5, <1>6, <1>7, <1>8, ServerKeeps

LEMMA WriteErrorKeeps == StreamInv /\ WriteError => StreamInv'
<1>1. SUFFICES ASSUME StreamInv, WriteError PROVE StreamInv'
    OBVIOUS
<1>2. /\ pulled \in 0..Len(script.events) /\ pulled' = pulled /\ Len(script.events) \in Nat
      /\ wire \in Seq(Sym) /\ server' = "ended" /\ Write(formatSSEErrorEvent)
      /\ generator # "returned" /\ UNCHANGED <<generator, answer>>
    BY <1>1, ScriptTypes DEF StreamInv, TypeInv, ServerInv, WriteError
<1>3. UNCHANGED <<script, style, open, cut, clientVars>> /\ server = "failing"
    BY <1>1 DEF WriteError
<1>4. \A e \in Nat \ {0} : IsFrame(formatSSEErrorEvent, e, 0)
    BY ErrorIsFrame
<1>5. wire' \in Seq(Sym)
  <2>1. formatSSEErrorEvent \in Seq(Sym)
    <3>1. 1 \in Nat \ {0}
        OBVIOUS
    <3> QED
        BY <1>4, <3>1, FrameTypes
  <2> QED
      BY <1>2, <2>1, WriteTypes
<1>6. ServerInv'
    BY <1>1, <1>2, <1>3 DEF StreamInv, ServerInv
<1>7. TextInv => TextInv'
  <2> DEFINE h == formatSSEErrorEvent
  <2> DEFINE ev == 0
  <2>1. ASSUME NEW L, Text(L), Written(L)
        PROVE  /\ ~Failed(L) /\ IsFrame(h, Frames(L) + 1, ev)
               /\ \A N : Frames(N) = Frames(L) + 1 /\ (Failed(N) <=> ev = 0) => Written(N)'
    <3>1. ~Failed(L)
        BY <1>3, <2>1 DEF Written
    <3>2. Frames(L) + 1 \in Nat \ {0}
        BY <2>1, LinesType DEF Text
    <3> QED
        BY <1>2, <1>4, <3>1, <3>2 DEF Written
  <2>2. ev \in Nat /\ pulled' \in Nat /\ pulled <= pulled' /\ ev <= pulled'
      BY <1>2
  <2> HIDE DEF h, ev
  <2>3. Write(h)
      BY <1>2 DEF h
  <2> QED
      BY <1>1, <1>3, <2>1, <2>2, <2>3, WriteKeeps DEF StreamInv, clientVars
<1>8. pulled' \in pulled..Len(script.events)
    BY <1>2
<1>9. client = "reading" => answer' = "sse"
    BY <1>1, <1>2 DEF StreamInv, Reading
<1> QED
    BY <1>1, <1>3, <1>5, <1>6, <1>7, <1>8, <1>9, ServerKeeps
-----------------------------------------------------------------------------
(* The network, and a client that is not parsing *)

\* less is unread, and the connection is closed
LEMMA WindowCut ==
    ASSUME NEW g \in Seq(Sym), NEW pos \in Nat, Window(g, pos), buffer \in Seq(Sym), wire \in Seq(Sym),
           NEW m \in 0..Len(wire), wire' = SubSeq(wire, 1, m), buffer' = buffer, open' = FALSE
    PROVE  Window(g, pos)'
<1>1. Len(wire) \in Nat /\ Len(buffer) \in Nat /\ Len(g) \in Nat
    OBVIOUS
<1>2. wire' \in Seq(Sym) /\ Len(wire') = m /\ \A i \in 1..m : wire'[i] = wire[i]
    BY <1>1
<1>3. Unread' = buffer \o wire'
    BY DEF Unread
<1>4. Len(Unread') = Len(buffer) + m /\ Len(Unread) = Len(buffer) + Len(wire)
    BY <1>1, <1>2, <1>3 DEF Unread
<1>5. Len(Unread') <= Len(Unread)
    BY <1>1, <1>4
<1>6. ASSUME NEW i \in 1..Len(Unread') PROVE i \in 1..Len(Unread) /\ Unread'[i] = Unread[i]
  <2>1. i \in 1..Len(Unread)
      BY <1>1, <1>4
  <2>2. CASE i <= Len(buffer)
      BY <1>1, <1>2, <1>3, <1>4, <2>2 DEF Unread
  <2>3. CASE i > Len(buffer)
    <3>1. i - Len(buffer) \in 1..m
        BY <1>1, <1>4, <2>3
    <3>2. Unread'[i] = wire'[i - Len(buffer)] /\ Unread[i] = wire[i - Len(buffer)]
        BY <1>1, <1>2, <1>3, <1>4, <2>1, <2>3 DEF Unread
    <3> QED
        BY <1>2, <2>1, <3>1, <3>2
  <2> QED
      BY <1>1, <2>1, <2>2, <2>3
<1>7. pos + Len(Unread) <= Len(g) /\ \A i \in 1..Len(Unread) : Unread[i] = g[pos + i]
    BY DEF Window
<1>8. pos + Len(Unread') <= Len(g)
    BY <1>1, <1>4, <1>5, <1>7
<1>9. \A i \in 1..Len(Unread') : Unread'[i] = g[pos + i]
    BY <1>6, <1>7
<1> QED
    BY <1>8, <1>9 DEF Window

LEMMA CutKeeps == StreamInv /\ Cut => StreamInv'
<1>1. SUFFICES ASSUME StreamInv, Cut PROVE StreamInv'
    OBVIOUS
<1>2. PICK m \in 0..Len(wire) : wire' = SubSeq(wire, 1, m)
    BY <1>1 DEF Cut
<1>3. buffer \in Seq(Sym) /\ wire \in Seq(Sym)
    BY <1>1 DEF StreamInv, TypeInv
<1>4. UNCHANGED <<script, style, serverVars, clientVars>> /\ open' = FALSE /\ cut' = TRUE
    BY <1>1 DEF Cut
<1>5. wire' \in Seq(Sym)
    BY <1>2, <1>3
<1>6. TypeInv' /\ EventsInOrder' /\ ServerInv'
    BY <1>1, <1>4, <1>5 DEF StreamInv, TypeInv, EventsInOrder, ServerInv, clientVars, serverVars
<1>7. ASSUME TextInv PROVE TextInv'
  <2>1. PICK g, L, S, p : Told(g, L, S, p)
      BY <1>7 DEF TextInv
  <2>2. Text(L)' /\ Layout(g, L, S)'
      BY <1>4, <2>1, TextFixed DEF Told
  <2>3. Yielded(L)' /\ Placed(L, p)'
      BY <1>4, <2>1 DEF Told, Yielded, Placed, clientVars, serverVars
  <2>4. S[p] \in Nat /\ g \in Seq(Sym)
      BY <2>1 DEF Told, Layout
  <2> DEFINE pos == S[p]
  <2>5. Window(g, pos) /\ buffer' = buffer
      BY <1>4, <2>1 DEF Told, clientVars
  <2> HIDE DEF pos
  <2>6. Window(g, pos)'
      BY <1>2, <1>3, <1>4, <2>4, <2>5, WindowCut DEF pos
  <2>7. Told(g, L, S, p)'
      BY <1>4, <2>1, <2>2, <2>3, <2>6 DEF Told, pos
  <2> QED
      BY <2>7 DEF TextInv
<1>8. Reading'
    BY <1>1, <1>4, <1>7 DEF StreamInv, Reading, clientVars, serverVars
<1> QED
    BY <1>6, <1>8 DEF StreamInv

LEMMA ConnectKeeps == StreamInv /\ Connect => StreamInv'
<1>1. SUFFICES ASSUME StreamInv, Connect PROVE StreamInv'
    OBVIOUS
<1>2. /\ UNCHANGED <<script, style, cut, serverVars, wire, open, buffer, eventType, eventData, received>>
      /\ client = "waiting" /\ client' = IF answer = "sse" THEN "reading" ELSE "threw"
    BY <1>1 DEF Connect
<1>3. TypeInv' /\ EventsInOrder' /\ ServerInv'
    BY <1>1, <1>2 DEF StreamInv, TypeInv, EventsInOrder, ServerInv, serverVars
<1>4. TextInv'
  <2>1. pulled \in Nat /\ pulled' = pulled /\ pulled <= pulled
      BY <1>1, <1>2, ScriptTypes DEF StreamInv, TypeInv, serverVars
  <2>2. \A L : Text(L) /\ open' /\ Written(L) => Written(L)'
      BY <1>2 DEF Written, serverVars
  <2> QED
      BY <1>1, <1>2, <2>1, <2>2, TextStays DEF StreamInv, Reading, Unread
<1>5. Reading'
    BY <1>1, <1>2, <1>4 DEF StreamInv, Reading, serverVars
<1> QED
    BY <1>3, <1>5 DEF StreamInv

LEMMA ReadChunkKeeps ==
    ASSUME StreamInv, NEW m \in 1..MaxChunk, ReadChunk(m)
    PROVE  StreamInv'
<1>1. /\ UNCHANGED <<script, style, cut, serverVars, open, client, eventType, eventData, received>>
      /\ client = "reading" /\ m \in 1..Len(wire)
      /\ buffer' = buffer \o SubSeq(wire, 1, m) /\ wire' = SubSeq(wire, m + 1, Len(wire))
    BY DEF ReadChunk
<1>2. buffer \in Seq(Sym) /\ wire \in Seq(Sym) /\ Len(wire) \in Nat
    BY DEF StreamInv, TypeInv
<1>3. SubSeq(wire, 1, m) \in Seq(Sym) /\ SubSeq(wire, m + 1, Len(wire)) \in Seq(Sym)
    BY <1>1, <1>2
<1>4. TypeInv' /\ EventsInOrder' /\ ServerInv'
    BY <1>1, <1>2, <1>3 DEF StreamInv, TypeInv, EventsInOrder, ServerInv, serverVars
<1>5. SubSeq(wire, 1, m) \o SubSeq(wire, m + 1, Len(wire)) = wire
    BY <1>1, <1>2
<1> DEFINE x == SubSeq(wire, 1, m)
<1> DEFINE y == SubSeq(wire, m + 1, Len(wire))
<1>6. Unread' = Unread
  <2>1. Unread' = (buffer \o x) \o y
      BY <1>1 DEF Unread
  <2>2. Unread = buffer \o (x \o y)
      BY <1>5 DEF Unread
  <2>3. x \in Seq(Sym) /\ y \in Seq(Sym)
      BY <1>3
  <2> HIDE DEF x, y
  <2>4. (buffer \o x) \o y = buffer \o (x \o y)
      BY <1>2, <2>3
  <2> QED
      BY <2>1, <2>2, <2>4
<1>7. TextInv'
  <2>1. pulled \in Nat /\ pulled' = pulled /\ pulled <= pulled
      BY <1>1, ScriptTypes DEF StreamInv, TypeInv, serverVars
  <2>2. \A L : Text(L) /\ open' /\ Written(L) => Written(L)'
      BY <1>1 DEF Written, serverVars
  <2> QED
      BY <1>1, <1>6, <2>1, <2>2, TextStays DEF StreamInv, Reading
<1>8. Reading'
    BY <1>1, <1>7 DEF StreamInv, Reading, serverVars
<1> QED
    BY <1>4, <1>8 DEF StreamInv

\* a client that stops reading leaves the order as it is
LEMMA RefuseKeeps == StreamInv /\ (RefuseBuffer \/ RefuseLine \/ Leave) => StreamInv'
<1>1. SUFFICES ASSUME StreamInv, RefuseBuffer \/ RefuseLine \/ Leave PROVE StreamInv'
    OBVIOUS
<1>2. /\ UNCHANGED <<script, style, cut, serverVars, buffer, eventType, eventData, received>>
      /\ client' \in {"toolarge", "left"} /\ wire' \in {wire, <<>>} /\ open' = FALSE
    BY <1>1 DEF RefuseBuffer, RefuseLine, Leave
<1>3. wire' \in Seq(Sym)
  <2>1. wire \in Seq(Sym) /\ <<>> \in Seq(Sym)
      BY <1>1 DEF StreamInv, TypeInv
  <2> QED
      BY <1>2, <2>1
<1>4. TypeInv' /\ EventsInOrder' /\ ServerInv'
    BY <1>1, <1>2, <1>3 DEF StreamInv, TypeInv, EventsInOrder, ServerInv, serverVars
<1> QED
    BY <1>2, <1>4 DEF StreamInv, Reading
-----------------------------------------------------------------------------
(* The parser *)

LEMMA BufferIs ==
    ASSUME TypeInv, NEW g, NEW L, NEW S, NEW p, Told(g, L, S, p)
    PROVE  /\ buffer \in Seq(Sym) /\ Len(buffer) \in Nat /\ Len(g) \in Nat /\ S[p] \in Nat
           /\ Len(L) \in Nat /\ p \in 0..Len(L) /\ S[Len(L)] = Len(g)
           /\ S[p] + Len(buffer) <= Len(g)
           /\ \A i \in 1..Len(buffer) : buffer[i] = g[S[p] + i]
           /\ wire = <<>> /\ open => S[p] + Len(buffer) = Len(g)
<1>1. buffer \in Seq(Sym) /\ wire \in Seq(Sym)
    BY DEF TypeInv
<1>2. /\ Len(g) \in Nat /\ S[p] \in Nat /\ p \in 0..Len(L) /\ S[Len(L)] = Len(g)
      /\ S[p] + Len(Unread) <= Len(g)
      /\ \A i \in 1..Len(Unread) : Unread[i] = g[S[p] + i]
      /\ open => S[p] + Len(Unread) = Len(g)
  <2>1. p \in 0..Len(L) /\ Layout(g, L, S) /\ Window(g, S[p])
      BY DEF Told
  <2>2. Len(g) \in Nat /\ S[Len(L)] = Len(g) /\ S[p] \in Nat
      BY <2>1 DEF Layout
  <2> QED
      BY <2>1, <2>2 DEF Window
<1>3. Len(L) \in Nat
    BY LinesType DEF Told, Text
<1>4. /\ Len(Unread) = Len(buffer) + Len(wire) /\ Len(buffer) \in Nat /\ Len(wire) \in Nat
      /\ \A i \in 1..Len(buffer) : i \in 1..Len(Unread) /\ Unread[i] = buffer[i]
  <2>1. Len(Unread) = Len(buffer) + Len(wire) /\ Len(buffer) \in Nat /\ Len(wire) \in Nat
      BY <1>1 DEF Unread
  <2>2. \A i \in 1..Len(buffer) : Unread[i] = buffer[i]
      BY <1>1 DEF Unread
  <2>3. \A i \in 1..Len(buffer) : i \in 1..Len(Unread)
      BY <2>1
  <2> QED
      BY <2>1, <2>2, <2>3
<1>5. S[p] + Len(buffer) <= Len(g)
    BY <1>2, <1>4
<1>6. \A i \in 1..Len(buffer) : buffer[i] = g[S[p] + i]
    BY <1>2, <1>4
<1>7. wire = <<>> /\ open => S[p] + Len(buffer) = Len(g)
  <2>1. wire = <<>> => Len(wire) = 0
      OBVIOUS
  <2> QED
      BY <1>2, <1>4, <2>1
<1> QED
    BY <1>1, <1>2, <1>3, <1>4, <1>5, <1>6, <1>7

\* nothing is left
LEMMA AtEnd ==
    ASSUME TypeInv, NEW g, NEW L, NEW S, Told(g, L, S, Len(L))
    PROVE  buffer = <<>> /\ LineEnds = {}
<1>1. buffer \in Seq(Sym) /\ Len(buffer) = 0
    BY BufferIs
<1> QED
    BY <1>1 DEF LineEnds

\* the line that comes next, as far as it has been read
LEMMA LineAhead ==
    ASSUME TypeInv, NEW g, NEW L, NEW S, NEW p, Told(g, L, S, p), p < Len(L)
    PROVE  LET t == Txt(L[p + 1]) IN
           /\ p + 1 \in 1..Len(L) /\ LineOk(L[p + 1]) /\ t \in Seq(Sym)
           /\ S[p + 1] = S[p] + Len(t) + 1
           /\ LineEnds = {} => Len(buffer) <= Len(t) /\ ~(wire = <<>> /\ open)
           /\ LineEnds # {} => FirstLine = t /\ Len(t) + 1 <= Len(buffer)
<1> DEFINE t == Txt(L[p + 1])
<1> DEFINE n == Len(t)
<1> DEFINE b == S[p]
<1>1. /\ buffer \in Seq(Sym) /\ Len(buffer) \in Nat /\ Len(g) \in Nat /\ b \in Nat
      /\ Len(L) \in Nat /\ p \in 0..Len(L)
      /\ b + Len(buffer) <= Len(g)
      /\ \A i \in 1..Len(buffer) : buffer[i] = g[b + i]
      /\ wire = <<>> /\ open => b + Len(buffer) = Len(g)
    BY BufferIs
<1>2. p + 1 \in 1..Len(L) /\ p + 1 \in 0..Len(L) /\ (p + 1) - 1 = p
    BY <1>1
<1>3. LineOk(L[p + 1])
    BY <1>2 DEF Told, Text, Chain
<1>4. t \in Seq(Sym) /\ n \in Nat /\ \A i \in 1..n : t[i] # LF
    BY <1>3, TxtIs
<1>5. S[p + 1] = b + n + 1 /\ g[S[p + 1]] = LF /\ \A i \in 1..n : g[b + i] = t[i]
    BY <1>2 DEF Told, Layout
<1>6. S[p + 1] <= Len(g)
    BY <1>2 DEF Told, Layout
<1> HIDE DEF t, b
<1>7. \A i \in 1..Len(buffer) : i <= n => buffer[i] = t[i] /\ buffer[i] # LF
  <2>1. SUFFICES ASSUME NEW i \in 1..Len(buffer), i <= n PROVE buffer[i] = t[i] /\ t[i] # LF
      OBVIOUS
  <2>2. i \in 1..n
      BY <1>4, <2>1
  <2> QED
      BY <1>1, <1>4, <1>5, <2>2
<1>8. n + 1 \in 1..Len(buffer) => buffer[n + 1] = LF
  <2>1. b + (n + 1) = S[p + 1]
      BY <1>1, <1>4, <1>5
  <2> QED
      BY <1>1, <1>5, <2>1
<1>9. ASSUME LineEnds = {} PROVE Len(buffer) <= n /\ ~(wire = <<>> /\ open)
  <2>1. ~(n + 1 \in 1..Len(buffer))
      BY <1>8, <1>9 DEF LineEnds
  <2>2. Len(buffer) <= n
      BY <1>1, <1>4, <2>1
  <2>3. b + Len(buffer) # Len(g)
      BY <1>1, <1>4, <1>5, <1>6, <2>2
  <2> QED
      BY <1>1, <2>2, <2>3
<1>10. ASSUME LineEnds # {} PROVE FirstLine = t /\ n + 1 <= Len(buffer)
  <2>1. PICK k \in 1..Len(buffer) : buffer[k] = LF
      BY <1>10 DEF LineEnds
  <2>2. k >= n + 1
      BY <1>1, <1>4, <1>7, <2>1
  <2>3. n + 1 \in 1..Len(buffer) /\ n + 1 <= Len(buffer)
      BY <1>1, <1>4, <2>2
  <2>4. n + 1 \in LineEnds /\ \A j \in LineEnds : n + 1 <= j
    <3>1. n + 1 \in LineEnds
        BY <1>1, <1>8, <2>3 DEF LineEnds
    <3>2. ASSUME NEW j \in LineEnds PROVE n + 1 <= j
      <4>1. j \in 1..Len(buffer) /\ buffer[j] = LF
          BY <1>1 DEF LineEnds
      <4>2. ~(j <= n)
          BY <1>7, <4>1
      <4>3. j \in Nat
          BY <1>1, <4>1
      <4> QED
          BY <1>4, <4>2, <4>3
    <3> QED
        BY <3>1, <3>2
  <2> DEFINE c == CHOOSE i \in LineEnds : \A j \in LineEnds : i <= j
  <2>5. c \in LineEnds /\ \A j \in LineEnds : c <= j
      BY <2>4
  <2>6. FirstLine = SubSeq(buffer, 1, c - 1)
      BY DEF FirstLine
  <2> HIDE DEF c
  <2>7. c = n + 1
    <3>1. c \in 1..Len(buffer)
        BY <1>1, <2>5 DEF LineEnds
    <3>2. c <= n + 1 /\ n + 1 <= c
        BY <2>4, <2>5
    <3> QED
        BY <1>4, <3>1, <3>2
  <2>8. FirstLine = SubSeq(buffer, 1, n)
      BY <1>4, <2>6, <2>7
  <2>9. SubSeq(buffer, 1, n) \in Seq(Sym) /\ Len(SubSeq(buffer, 1, n)) = n
        /\ \A i \in 1..n : SubSeq(buffer, 1, n)[i] = buffer[i]
      BY <1>1, <1>4, <2>3
  <2>10. \A i \in 1..n : buffer[i] = t[i]
    <3>1. \A i \in 1..n : i \in 1..Len(buffer) /\ i <= n
        BY <1>1, <1>4, <2>3
    <3> QED
        BY <1>7, <3>1
  <2> DEFINE f == SubSeq(buffer, 1, n)
  <2> HIDE DEF f
  <2>11. f = t
    <3>1. f \in Seq(Sym) /\ Len(f) = n /\ \A i \in 1..n : f[i] = t[i]
        BY <2>9, <2>10 DEF f
    <3> QED
        BY <1>4, <3>1
  <2> QED
      BY <2>3, <2>8, <2>11 DEF f
<1> QED
    BY <1>2, <1>3, <1>4, <1>5, <1>9, <1>10 DEF t, b

\* what the parser makes of line ln
Effect(ln) ==
    /\ ln.kind = "comment" => UNCHANGED <<client, received, eventData, eventType>>
    /\ ln.kind = "error" => eventType' = "error" /\ UNCHANGED <<client, received, eventData>>
    /\ ln.kind = "data" =>
        /\ eventData' = Pieces(ln.ev, 0, ln.base + ln.len)
        /\ client' = IF ln.base + ln.len > MaxEventSize THEN "toolarge" ELSE client
        /\ UNCHANGED <<received, eventType>>
    /\ ln.kind = "blank" =>
        /\ eventData' = <<>> /\ eventType' = "message"
        /\ IF ln.ev = 0
           THEN client' = "threw" /\ UNCHANGED received
           ELSE client' = client /\ received' = Append(received, ln.ev) /\ ln.ev \in 1..pulled

\* the data of an event's lines are the event's
LEMMA WholeEvent ==
    ASSUME TypeInv, NEW e \in 1..pulled
    PROVE  /\ Total(e) \in Nat \ {0} /\ Total(e) = script.events[e].size
           /\ Whole(Pieces(e, 0, Total(e)))
<1>1. pulled \in Nat /\ e \in 1..Len(script.events) /\ e # 0 /\ e \in Nat
    BY ScriptTypes DEF TypeInv
<1>2. Total(e) = script.events[e].size
    BY <1>1 DEF Total
<1>3. Total(e) \in Nat \ {0}
    BY <1>1, <1>2, ScriptTypes DEF TypeInv
<1>4. Payload(e, Total(e)) = Pieces(e, 0, Total(e))
    BY <1>3, PayloadIs
<1> QED
    BY <1>2, <1>3, <1>4 DEF Whole

LEMMA FirstPiece ==
    ASSUME NEW ev \in Nat, NEW n \in Nat \ {0}
    PROVE  Pieces(ev, 0, n) # <<>> /\ Pieces(ev, 0, n)[1].v[1] = ev
<1> DEFINE o == 0
<1>1. o \in Nat /\ n \in Nat /\ 1 \in 1..n /\ o + 1 = 1 /\ 1 \in Nat
    OBVIOUS
<1> HIDE DEF o
<1>2. /\ Pieces(ev, o, n) \in Seq(Sym) /\ Len(Pieces(ev, o, n)) = n
      /\ \A k \in 1..n : Pieces(ev, o, n)[k] = Piece(ev, o + k)
    BY <1>1, PiecesType
<1>3. Pieces(ev, o, n)[1] = Piece(ev, 1)
    BY <1>1, <1>2
<1>4. Piece(ev, 1).v[1] = ev
    BY DEF Piece, Symbol
<1>5. Pieces(ev, o, n) # <<>>
    BY <1>2
<1> QED
    BY <1>3, <1>4, <1>5 DEF o

LEMMA ParseIs ==
    ASSUME TypeInv, NEW g, NEW L, NEW S, NEW p, Told(g, L, S, p), ParseLine
    PROVE  /\ p < Len(L) /\ p + 1 \in 1..Len(L) /\ LineOk(L[p + 1])
           /\ S[p + 1] = S[p] + Len(FirstLine) + 1 /\ Len(FirstLine) \in Nat
           /\ Len(FirstLine) + 1 <= Len(buffer)
           /\ Effect(L[p + 1])
<1>1. LineEnds # {}
    BY DEF ParseLine
<1>2. p < Len(L)
  <2>1. p \in 0..Len(L) /\ Len(L) \in Nat
      BY BufferIs
  <2>2. p # Len(L)
      BY <1>1, AtEnd
  <2> QED
      BY <2>1, <2>2
<1> DEFINE ln == L[p + 1]
<1> DEFINE line == Stripped(FirstLine)
<1> DEFINE b == Body(ln)
<1>3. /\ p + 1 \in 1..Len(L) /\ LineOk(ln) /\ Txt(ln) \in Seq(Sym)
      /\ S[p + 1] = S[p] + Len(Txt(ln)) + 1
      /\ FirstLine = Txt(ln) /\ Len(Txt(ln)) + 1 <= Len(buffer)
    BY <1>1, <1>2, LineAhead
<1>4. line = b
    BY <1>3, TxtIs
<1>5. /\ b \in Seq(Sym)
      /\ ln.kind = "blank" => b = <<>>
      /\ ln.kind = "comment" => b # <<>> /\ b[1] = CommentLine
      /\ ln.kind = "error" => b # <<>> /\ b[1] = EventError
      /\ ln.kind = "data" => b # <<>> /\ b[1] = DataField /\ Tail(b) = Pieces(ln.ev, ln.base, ln.len)
  <2>0. ln.kind = "data" => ln.len \in Nat
      BY <1>3 DEF LineOk, Line
  <2>1. /\ b \in Seq(Sym)
        /\ ln.kind = "blank" => b = <<>>
        /\ ln.kind = "comment" => b = <<CommentLine>>
        /\ ln.kind = "error" => b = <<EventError>>
        /\ ln.kind = "data" => /\ b[1] = DataField /\ Len(b) = 1 + ln.len
                               /\ Tail(b) = Pieces(ln.ev, ln.base, ln.len)
        /\ ln.kind \in {"comment", "error"} => Len(b) = 1
      BY <1>3, BodyIs
  <2> HIDE DEF b, ln
  <2>2. ln.kind \in {"comment", "error", "data"} => Len(b) # 0
      BY <2>0, <2>1
  <2>3. Len(b) # 0 => b # <<>>
      BY <2>1
  <2> QED
      BY <2>1, <2>2, <2>3
<1>6. /\ Len(received) + 1 = ln.no
      /\ eventData = Pieces(ln.ev, 0, ln.base)
      /\ eventType = IF ln.ev = 0 /\ ln.kind # "error" THEN "error" ELSE "message"
    BY <1>2 DEF Told, Placed
<1>7. \/ line = <<>> /\ eventData # <<>> /\ Consume(eventType, eventData) /\ eventData' = <<>> /\ eventType' = "message"
      \/ line = <<>> /\ eventData = <<>>
      \/ line # <<>> /\ line[1] = CommentLine /\ UNCHANGED <<client, received, eventData, eventType>>
      \/ line # <<>> /\ line[1] = EventError /\ eventType' = "error" /\ UNCHANGED <<client, received, eventData>>
      \/ /\ line # <<>> /\ line[1] = DataField
         /\ eventData' = eventData \o Tail(line)
         /\ client' = IF Len(eventData') > MaxEventSize THEN "toolarge" ELSE client
         /\ UNCHANGED <<received, eventType>>
    BY DEF ParseLine, Extended
<1>8. /\ ln.kind \in Kind /\ ln.ev \in Nat /\ ln.base \in Nat /\ ln.len \in Nat /\ ln.no \in Nat
      /\ ln.ev \in {0, ln.no} /\ ln.ev <= pulled
      /\ ln.kind = "blank" => ln.base = Total(ln.ev)
  <2>1. ln.ev <= pulled
      BY <1>3 DEF Told, Yielded
  <2> QED
      BY <1>3, <2>1 DEF LineOk, Line
<1> HIDE DEF ln, line, b
<1>9. Effect(ln)
  <2>1. CASE ln.kind = "comment"
      BY <1>4, <1>5, <1>7, <2>1, Symbols DEF Effect
  <2>2. CASE ln.kind = "error"
      BY <1>4, <1>5, <1>7, <2>2, Symbols DEF Effect
  <2>3. CASE ln.kind = "data"
    <3>1. /\ eventData' = eventData \o Tail(line)
          /\ client' = IF Len(eventData') > MaxEventSize THEN "toolarge" ELSE client
          /\ UNCHANGED <<received, eventType>>
        BY <1>4, <1>5, <1>7, <2>3, Symbols
    <3> DEFINE ev == ln.ev
    <3> DEFINE c == ln.base
    <3> DEFINE n == ln.len
    <3>2. ev \in Nat /\ c \in Nat /\ n \in Nat
        BY <1>8
    <3>3. eventData' = Pieces(ev, 0, c) \o Pieces(ev, c, n)
        BY <1>4, <1>5, <1>6, <2>3, <3>1
    <3> HIDE DEF ev, c, n
    <3>4. eventData' = Pieces(ev, 0, c + n)
        BY <3>2, <3>3, PiecesJoin
    <3>5. Len(Pieces(ev, 0, c + n)) = c + n
      <4> DEFINE m == c + n
      <4> DEFINE o == 0
      <4>1. m \in Nat /\ o \in Nat
          BY <3>2
      <4> HIDE DEF m, o
      <4>2. Len(Pieces(ev, o, m)) = m
          BY <3>2, <4>1, PiecesType
      <4> QED
          BY <4>2 DEF m, o
    <3> QED
        BY <2>3, <3>1, <3>4, <3>5 DEF Effect, ev, c, n
  <2>4. CASE ln.kind = "blank"
    <3> DEFINE ev == ln.ev
    <3>1. line = <<>> /\ eventData = Pieces(ev, 0, Total(ev))
        BY <1>4, <1>5, <1>6, <1>8, <2>4
    <3>2. CASE ev = 0
      <4>1. Total(ev) = 1 /\ eventType = "error"
          BY <1>6, <2>4, <3>2 DEF Total
      <4>2. eventData # <<>>
        <5> DEFINE n == Total(ev)
        <5>1. n \in Nat \ {0} /\ ev \in Nat
            BY <1>8, <4>1
        <5> HIDE DEF n, ev
        <5> QED
            BY <3>1, <5>1, FirstPiece DEF n
      <4>3. Consume(eventType, eventData) /\ eventData' = <<>> /\ eventType' = "message"
          BY <1>7, <3>1, <4>2
      <4>4. client' = "threw" /\ UNCHANGED received
          BY <4>1, <4>3 DEF Consume
      <4> QED
          BY <2>4, <3>2, <4>3, <4>4 DEF Effect
    <3>3. CASE ev # 0
      <4>1. ev \in 1..pulled
        <5>1. pulled \in Nat
            BY ScriptTypes DEF TypeInv
        <5> QED
            BY <1>8, <3>3, <5>1
      <4>2. Total(ev) \in Nat \ {0} /\ Whole(eventData)
          BY <3>1, <4>1, WholeEvent
      <4>3. eventData # <<>> /\ eventData[1].v[1] = ev
        <5> DEFINE n == Total(ev)
        <5>1. n \in Nat \ {0} /\ ev \in Nat
            BY <1>8, <4>2
        <5> HIDE DEF n, ev
        <5> QED
            BY <3>1, <5>1, FirstPiece DEF n
      <4>4. eventType = "message"
          BY <1>6, <3>3
      <4>5. Consume(eventType, eventData) /\ eventData' = <<>> /\ eventType' = "message"
          BY <1>7, <3>1, <4>3
      <4>6. client' = client /\ received' = Append(received, ev)
          BY <4>2, <4>3, <4>4, <4>5 DEF Consume
      <4> QED
          BY <2>4, <3>3, <4>1, <4>5, <4>6 DEF Effect
    <3> QED
        BY <3>2, <3>3
  <2> QED
      BY <1>8, <2>1, <2>2, <2>3, <2>4 DEF Kind
<1>10. Len(FirstLine) \in Nat
    BY <1>3
<1> QED
    BY <1>2, <1>3, <1>9, <1>10 DEF ln

\* an event is received in its place
LEMMA OneMore ==
    ASSUME EventsInOrder, received \in Seq(Nat), pulled \in Nat,
           Len(received) + 1 \in 1..pulled, received' = Append(received, Len(received) + 1),
           pulled' = pulled
    PROVE  EventsInOrder' /\ received' \in Seq(Nat) /\ Len(received') = Len(received) + 1
<1> DEFINE n == Len(received)
<1>1. n \in Nat /\ Len(received') = n + 1 /\ received' \in Seq(Nat)
    OBVIOUS
<1>2. \A i \in 1..n : received[i] = i
    BY DEF EventsInOrder
<1>3. \A i \in 1..(n + 1) : received'[i] = i
    BY <1>1, <1>2
<1>4. received' = [i \in 1..(n + 1) |-> received'[i]]
    BY <1>1
<1>5. received' = [i \in 1..(n + 1) |-> i]
    BY <1>3, <1>4
<1> QED
    BY <1>1, <1>5 DEF EventsInOrder

\* the parser is at the line that follows
LEMMA PlacedNext ==
    ASSUME NEW L, NEW p \in Nat, Text(L), p < Len(L), Placed(L, p), received \in Seq(Nat),
           Effect(L[p + 1]), client' = "reading"
    PROVE  Placed(L, p + 1)'
<1> DEFINE ln == L[p + 1]
<1>1. Len(L) \in Nat /\ p + 1 \in 1..Len(L) /\ LineOk(ln)
  <2>1. Len(L) \in Nat
      BY LinesType DEF Text
  <2>2. p + 1 \in 1..Len(L)
      BY <2>1
  <2> QED
      BY <2>1, <2>2 DEF Text, Chain
<1>2. /\ ln.kind \in Kind /\ ln.ev \in Nat /\ ln.base \in Nat /\ ln.len \in Nat /\ ln.no \in Nat
      /\ ln.ev \in {0, ln.no}
      /\ ln.kind \in {"comment", "error"} => ln.base = 0 /\ ln.len = 0
      /\ ln.kind = "error" => ln.ev = 0
    BY <1>1 DEF LineOk, Line
<1>3. /\ Len(received) + 1 = ln.no
      /\ eventData = Pieces(ln.ev, 0, ln.base)
      /\ eventType = IF ln.ev = 0 /\ ln.kind # "error" THEN "error" ELSE "message"
    BY DEF Placed
<1>4. Effect(ln)
    OBVIOUS
<1>5. p + 1 < Len(L) => Follows(ln, L[p + 2])
  <2>1. (p + 1) + 1 = p + 2
      OBVIOUS
  <2> QED
      BY <1>1, <2>1 DEF Text, Chain
<1>6. p + 1 = Len(L) => ln.kind = "blank" /\ Frames(L) = ln.no /\ (Failed(L) <=> ln.ev = 0)
  <2>1. p + 1 = Len(L) => L # <<>>
      BY <1>1
  <2> QED
      BY <2>1 DEF Text, Frames, Failed
<1> DEFINE nx == L[p + 2]
<1> HIDE DEF ln, nx
<1>7. CASE ln.kind = "blank"
  <2>1. eventData' = <<>> /\ eventType' = "message"
      BY <1>4, <1>7 DEF Effect
  <2>2. ln.ev # 0 /\ received' = Append(received, ln.ev)
      BY <1>4, <1>7 DEF Effect
  <2>3. Len(received') = ln.no
      BY <1>2, <1>3, <2>2
  <2>4. CASE p + 1 = Len(L)
      BY <1>6, <2>1, <2>2, <2>3, <2>4 DEF Placed
  <2>5. CASE p + 1 < Len(L)
    <3>1. nx.no = ln.no + 1 /\ nx.base = 0 /\ (nx.ev = 0 => nx.kind = "error")
        BY <1>5, <1>7, <2>5 DEF Follows, Opening, nx
    <3>2. Pieces(nx.ev, 0, nx.base) = <<>>
      <4>1. nx.ev \in Nat
        <5>1. p + 2 \in 1..Len(L)
            BY <1>1, <2>5
        <5> QED
            BY <5>1 DEF Text, Chain, LineOk, Line, nx
      <4> QED
          BY <3>1, <4>1, NoPieces
    <3>3. /\ Len(received') + 1 = nx.no
          /\ eventData' = Pieces(nx.ev, 0, nx.base)
          /\ eventType' = IF nx.ev = 0 /\ nx.kind # "error" THEN "error" ELSE "message"
        BY <2>1, <2>3, <3>1, <3>2
    <3>4. (p + 1) + 1 = p + 2
        OBVIOUS
    <3> QED
        BY <2>5, <3>3, <3>4 DEF Placed, nx
  <2> QED
      BY <1>1, <2>4, <2>5
<1>8. CASE ln.kind # "blank"
  <2>1. p + 1 < Len(L)
      BY <1>1, <1>6, <1>8
  <2>2. nx.no = ln.no /\ nx.ev = ln.ev /\ nx.base = ln.base + ln.len /\ nx.kind \in {"data", "blank"}
      BY <1>5, <1>8, <2>1 DEF Follows, nx
  <2>3. received' = received
      BY <1>2, <1>4, <1>8 DEF Effect, Kind
  <2>4. eventData' = Pieces(ln.ev, 0, ln.base + ln.len)
    <3>1. CASE ln.kind = "data"
        BY <1>4, <3>1 DEF Effect
    <3>2. CASE ln.kind \in {"comment", "error"}
      <4>1. eventData' = eventData /\ ln.base + ln.len = ln.base
          BY <1>2, <1>4, <3>2 DEF Effect
      <4> QED
          BY <1>3, <4>1
    <3> QED
        BY <1>2, <1>8, <3>1, <3>2 DEF Kind
  <2>5. eventType' = IF ln.ev = 0 THEN "error" ELSE "message"
    <3>1. CASE ln.kind = "error"
        BY <1>2, <1>4, <3>1 DEF Effect
    <3>2. CASE ln.kind # "error"
        BY <1>2, <1>3, <1>4, <1>8, <3>2 DEF Effect, Kind
    <3> QED
        BY <3>1, <3>2
  <2>6. (p + 1) + 1 = p + 2
      OBVIOUS
  <2>7. /\ Len(received') + 1 = nx.no
        /\ eventData' = Pieces(nx.ev, 0, nx.base)
        /\ eventType' = IF nx.ev = 0 /\ nx.kind # "error" THEN "error" ELSE "message"
      BY <1>3, <2>2, <2>3, <2>4, <2>5
  <2> QED
      BY <2>1, <2>6, <2>7 DEF Placed, nx
<1> QED
    BY <1>7, <1>8

\* l symbols of the buffer are taken
LEMMA WindowMoves ==
    ASSUME NEW g, Len(g) \in Nat, NEW pos \in Nat, Window(g, pos), buffer \in Seq(Sym), wire \in Seq(Sym),
           NEW l \in Nat \ {0}, l <= Len(buffer), buffer' = SubSeq(buffer, l + 1, Len(buffer)),
           wire' = wire, open' => open
    PROVE  Window(g, pos + l)' /\ buffer' \in Seq(Sym)
<1> DEFINE m == pos + l
<1>1. buffer' \in Seq(Sym) /\ Len(buffer') = Len(buffer) - l /\ \A j \in 1..Len(buffer') : buffer'[j] = buffer[l + j]
    OBVIOUS
<1>2. /\ Len(Unread) = Len(buffer) + Len(wire) /\ Len(Unread') = Len(buffer') + Len(wire)
      /\ Len(buffer) \in Nat /\ Len(wire) \in Nat /\ Len(buffer') \in Nat
    BY <1>1 DEF Unread
<1>3. m \in Nat /\ m = pos + l
    OBVIOUS
<1> HIDE DEF m
<1>9. ASSUME NEW a \in Nat, NEW b \in Nat, NEW w \in Nat, b = a - l, NEW i \in 1..(b + w)
      PROVE  /\ i <= b => i \in 1..b /\ l + i \in 1..a
             /\ i > b => i - b \in 1..w /\ (l + i) - a = i - b /\ l + i > a
    BY <1>9
<1>4. Len(Unread') = Len(Unread) - l /\ m + Len(Unread') = pos + Len(Unread)
    BY <1>1, <1>2, <1>3
<1>5. ASSUME NEW i \in 1..Len(Unread')
      PROVE  l + i \in 1..Len(Unread) /\ Unread'[i] = Unread[l + i]
  <2>1. l + i \in 1..Len(Unread)
      BY <1>2, <1>4
  <2>2. CASE i <= Len(buffer')
    <3>1. i \in 1..Len(buffer') /\ l + i \in 1..Len(buffer)
        BY <1>1, <1>2, <1>9, <2>2
    <3>2. Unread'[i] = buffer'[i] /\ Unread[l + i] = buffer[l + i]
        BY <1>1, <3>1 DEF Unread
    <3> QED
        BY <1>1, <2>1, <3>1, <3>2
  <2>3. CASE i > Len(buffer')
    <3>1. i - Len(buffer') \in 1..Len(wire) /\ (l + i) - Len(buffer) = i - Len(buffer') /\ l + i > Len(buffer)
        BY <1>1, <1>2, <1>9, <2>3
    <3>2. Unread'[i] = wire[i - Len(buffer')]
        BY <1>1, <1>2, <2>3, <3>1 DEF Unread
    <3>3. Unread[l + i] = wire[(l + i) - Len(buffer)]
        BY <1>2, <2>1, <3>1 DEF Unread
    <3> QED
        BY <2>1, <3>1, <3>2, <3>3
  <2> QED
      BY <1>2, <2>2, <2>3
<1>6. /\ pos + Len(Unread) <= Len(g)
      /\ \A j \in 1..Len(Unread) : Unread[j] = g[pos + j]
      /\ open => pos + Len(Unread) = Len(g)
    BY DEF Window
<1>7. ASSUME NEW i \in 1..Len(Unread') PROVE Unread'[i] = g[m + i]
  <2>1. pos + (l + i) = m + i
      BY <1>3
  <2>2. Unread[l + i] = g[pos + (l + i)]
      BY <1>5, <1>6
  <2> QED
      BY <1>5, <2>1, <2>2
<1>8. m + Len(Unread') <= Len(g) /\ (open' => m + Len(Unread') = Len(g))
    BY <1>4, <1>6
<1> QED
    BY <1>1, <1>7, <1>8 DEF Window, m

LEMMA ParseLineKeeps == StreamInv /\ ParseLine => StreamInv'
<1>1. SUFFICES ASSUME StreamInv, ParseLine PROVE StreamInv'
    OBVIOUS
<1>2. /\ client = "reading" /\ TypeInv /\ EventsInOrder /\ TextInv /\ open = ~cut
      /\ buffer' = SubSeq(buffer, Len(FirstLine) + 2, Len(buffer))
      /\ UNCHANGED <<script, style, cut, serverVars, wire>>
      /\ open' = (open /\ client' = "reading")
    BY <1>1 DEF StreamInv, Reading, ParseLine
<1>3. /\ buffer \in Seq(Sym) /\ wire \in Seq(Sym) /\ received \in Seq(Nat)
      /\ open \in BOOLEAN /\ cut \in BOOLEAN /\ pulled \in Nat /\ pulled' = pulled
    BY <1>2, ScriptTypes DEF TypeInv, serverVars
<1>4. PICK g, L, S, p : Told(g, L, S, p)
    BY <1>2 DEF TextInv
<1>16. PICK l \in Nat \ {0} : l = Len(FirstLine) + 1
  <2>1. Len(FirstLine) \in Nat
      BY <1>1, <1>2, <1>4, ParseIs
  <2> QED
      BY <2>1
<1> DEFINE ln == L[p + 1]
<1> DEFINE pos == S[p]
<1>5. /\ p < Len(L) /\ p + 1 \in 1..Len(L) /\ LineOk(ln) /\ p \in Nat
      /\ S[p + 1] = pos + l /\ l <= Len(buffer) /\ Len(FirstLine) \in Nat
      /\ Effect(ln)
  <2>1. /\ p < Len(L) /\ p + 1 \in 1..Len(L) /\ LineOk(ln)
        /\ S[p + 1] = S[p] + Len(FirstLine) + 1 /\ Len(FirstLine) \in Nat
        /\ Len(FirstLine) + 1 <= Len(buffer)
        /\ Effect(ln)
      BY <1>1, <1>2, <1>4, ParseIs
  <2>2. p \in Nat /\ S[p] \in Nat
      BY <1>2, <1>4, BufferIs
  <2>3. S[p] + Len(FirstLine) + 1 = S[p] + l
      BY <1>16, <2>1, <2>2
  <2> QED
      BY <1>16, <2>1, <2>2, <2>3
<1>6. buffer' = SubSeq(buffer, l + 1, Len(buffer))
  <2>1. Len(FirstLine) + 2 = l + 1
      BY <1>5, <1>16
  <2> QED
      BY <1>2, <2>1
<1>7. Len(g) \in Nat /\ pos \in Nat /\ Window(g, pos)
    BY <1>2, <1>4, BufferIs DEF Told
<1> HIDE DEF pos
<1>8. Window(g, pos + l)' /\ buffer' \in Seq(Sym)
  <2>1. wire' = wire /\ (open' => open) /\ l <= Len(buffer)
      BY <1>2, <1>5
  <2> QED
      BY <1>3, <1>6, <1>7, <2>1, WindowMoves
<1>9. /\ ln.kind \in Kind /\ ln.ev \in Nat /\ ln.base \in Nat /\ ln.len \in Nat
      /\ ln.ev \in {0, ln.no} /\ ln.no \in Nat /\ Len(received) + 1 = ln.no
    BY <1>4, <1>5 DEF LineOk, Line, Told, Placed
<1>10. eventData' \in Seq(Sym)
  <2>1. CASE ln.kind = "data"
    <3>1. eventData' = Pieces(ln.ev, 0, ln.base + ln.len)
        BY <1>5, <2>1 DEF Effect
    <3> DEFINE o == 0
    <3> DEFINE m == ln.base + ln.len
    <3> DEFINE e == ln.ev
    <3>2. o \in Nat /\ m \in Nat /\ e \in Nat
        BY <1>9
    <3> HIDE DEF o, m, e
    <3>3. Pieces(e, o, m) \in Seq(Sym)
        BY <3>2, PiecesType
    <3> QED
        BY <3>1, <3>3 DEF e, o, m
  <2>2. CASE ln.kind # "data"
    <3>1. eventData' \in {eventData, <<>>}
        BY <1>5, <1>9, <2>2 DEF Effect, Kind
    <3>2. eventData \in Seq(Sym) /\ <<>> \in Seq(Sym)
        BY <1>2 DEF TypeInv
    <3> QED
        BY <3>1, <3>2
  <2> QED
      BY <2>1, <2>2
<1>11. EventsInOrder' /\ received' \in Seq(Nat)
  <2>1. CASE received' = received
      BY <1>2, <1>3, <2>1 DEF EventsInOrder
  <2>2. CASE received' = Append(received, ln.ev) /\ ln.ev \in 1..pulled
    <3>1. ln.ev = Len(received) + 1
        BY <1>9, <2>2
    <3> QED
        BY <1>2, <1>3, <2>2, <3>1, OneMore
  <2>3. received' = received \/ (received' = Append(received, ln.ev) /\ ln.ev \in 1..pulled)
    <3>1. ASSUME ln.kind = "blank", ln.ev # 0
          PROVE  received' = Append(received, ln.ev) /\ ln.ev \in 1..pulled
        BY <1>5, <3>1 DEF Effect
    <3>2. ASSUME ~(ln.kind = "blank" /\ ln.ev # 0) PROVE received' = received
      <4>1. CASE ln.kind = "blank"
          BY <1>5, <3>2, <4>1 DEF Effect
      <4>2. CASE ln.kind \in {"comment", "error", "data"}
          BY <1>5, <4>2 DEF Effect
      <4> QED
          BY <1>9, <4>1, <4>2 DEF Kind
    <3> QED
        BY <3>1, <3>2
  <2> QED
      BY <2>1, <2>2, <2>3
<1>12. client' \in {"reading", "threw", "toolarge"}
    BY <1>2, <1>5, <1>9 DEF Effect, Kind
<1>13. TypeInv' /\ ServerInv'
  <2>1. open' \in BOOLEAN
      BY <1>2
  <2>2. wire' \in Seq(Sym) /\ cut' \in BOOLEAN
      BY <1>2, <1>3
  <2>3. script' \in Scripts /\ pulled' \in 0..Len(script'.events)
      BY <1>2 DEF TypeInv, serverVars
  <2>4. ServerInv'
      BY <1>1, <1>2 DEF StreamInv, ServerInv, serverVars
  <2> QED
      BY <1>8, <1>10, <1>11, <2>1, <2>2, <2>3, <2>4 DEF TypeInv
<1>14. ASSUME client' = "reading" PROVE TextInv'
  <2>1. Text(L)' /\ Layout(g, L, S)'
      BY <1>2, <1>4, TextFixed DEF Told
  <2>2. Yielded(L)'
      BY <1>3, <1>4 DEF Told, Yielded
  <2>3. Placed(L, p + 1)'
      BY <1>3, <1>4, <1>5, <1>14, PlacedNext DEF Told
  <2>4. Window(g, S[p + 1])'
      BY <1>5, <1>8
  <2>5. open' => Written(L)'
      BY <1>2, <1>4 DEF Told, Written, serverVars
  <2>6. p + 1 \in 0..Len(L)
      BY <1>5
  <2>7. Told(g, L, S, p + 1)'
      BY <2>1, <2>2, <2>3, <2>4, <2>5, <2>6 DEF Told
  <2> QED
      BY <2>7 DEF TextInv
<1>15. Reading'
  <2>1. client' # "waiting"
      BY <1>12
  <2>2. client' = "reading" => open' = ~cut' /\ answer' = "sse"
      BY <1>1, <1>2, <1>3 DEF StreamInv, Reading, serverVars
  <2> QED
      BY <1>14, <2>1, <2>2 DEF Reading
<1> QED
    BY <1>11, <1>13, <1>15 DEF StreamInv
\* an event whose blank line has not come
LEMMA MidEvent ==
    ASSUME TypeInv, NEW g, NEW L, NEW S, NEW p, Told(g, L, S, p), eventData # <<>>
    PROVE  /\ p < Len(L)
           /\ eventType = "message" => Len(received) + 1 \in 1..pulled
                                       /\ eventData[1].v[1] = Len(received) + 1
<1>1. p \in 0..Len(L) /\ Len(L) \in Nat /\ pulled \in Nat
    BY BufferIs, ScriptTypes DEF TypeInv
<1>2. p # Len(L)
    BY DEF Told, Placed
<1>3. p < Len(L) /\ p + 1 \in 1..Len(L)
    BY <1>1, <1>2
<1> DEFINE ln == L[p + 1]
<1>4. LineOk(ln) /\ ln.ev <= pulled
    BY <1>3 DEF Told, Text, Chain, Yielded
<1>5. /\ Len(received) + 1 = ln.no
      /\ eventData = Pieces(ln.ev, 0, ln.base)
      /\ eventType = IF ln.ev = 0 /\ ln.kind # "error" THEN "error" ELSE "message"
    BY <1>3 DEF Told, Placed
<1> HIDE DEF ln
<1>6. ln.ev \in Nat /\ ln.base \in Nat /\ ln.ev \in {0, ln.no} /\ (ln.kind = "error" => ln.base = 0)
    BY <1>4 DEF LineOk, Line
<1>7. ln.base # 0
    BY <1>5, <1>6, NoPieces
<1>8. eventData[1].v[1] = ln.ev
  <2>1. ln.base \in Nat \ {0}
      BY <1>6, <1>7
  <2> QED
      BY <1>5, <1>6, <2>1, FirstPiece
<1>9. ASSUME eventType = "message" PROVE ln.ev = Len(received) + 1 /\ ln.ev \in 1..pulled
  <2>1. ln.ev # 0
      BY <1>5, <1>6, <1>7, <1>9
  <2> QED
      BY <1>1, <1>4, <1>5, <1>6, <2>1
<1> QED
    BY <1>3, <1>8, <1>9

LEMMA EndOfStreamKeeps == StreamInv /\ EndOfStream => StreamInv'
<1>1. SUFFICES ASSUME StreamInv, EndOfStream PROVE StreamInv'
    OBVIOUS
<1>2. /\ client = "reading" /\ TypeInv /\ EventsInOrder /\ TextInv /\ client' \in {"threw", "ended"}
      /\ UNCHANGED <<script, style, cut, serverVars, wire, open, buffer, eventType, eventData>>
    BY <1>1 DEF StreamInv, EndOfStream, Reading
<1>3. received \in Seq(Nat) /\ pulled \in Nat /\ pulled' = pulled
    BY <1>2, ScriptTypes DEF TypeInv, serverVars
<1>4. EventsInOrder' /\ received' \in Seq(Nat)
  <2>1. CASE UNCHANGED received
      BY <1>2, <1>3, <2>1 DEF EventsInOrder
  <2>2. CASE eventData # <<>> /\ eventType # "error" /\ received' = Append(received, eventData[1].v[1])
    <3>1. PICK g, L, S, p : Told(g, L, S, p)
        BY <1>2 DEF TextInv
    <3>2. eventType = "message"
      <4>1. p < Len(L)
          BY <1>2, <2>2, <3>1, MidEvent
      <4> QED
          BY <2>2, <3>1, <4>1 DEF Told, Placed
    <3>3. Len(received) + 1 \in 1..pulled /\ eventData[1].v[1] = Len(received) + 1
        BY <1>2, <2>2, <3>1, <3>2, MidEvent
    <3> QED
        BY <1>2, <1>3, <2>2, <3>3, OneMore
  <2> QED
      BY <1>1, <2>1, <2>2 DEF EndOfStream
<1>5. TypeInv' /\ ServerInv'
    BY <1>1, <1>2, <1>4 DEF StreamInv, TypeInv, ServerInv, serverVars
<1>6. Reading'
    BY <1>2 DEF Reading
<1> QED
    BY <1>4, <1>5, <1>6 DEF StreamInv

LEMMA NextKeeps == StreamInv /\ [Next]_vars => StreamInv'
<1>1. SUFFICES ASSUME StreamInv, [Next]_vars PROVE StreamInv'
    OBVIOUS
<1>2. CASE ServerStep
    BY <1>1, <1>2, PeekKeeps, WriteFirstKeeps, PullNextKeeps, PullLastKeeps, WriteErrorKeeps DEF ServerStep
<1>3. CASE ClientStep
    BY <1>1, <1>3, ConnectKeeps, RefuseKeeps, ParseLineKeeps, EndOfStreamKeeps, ReadChunkKeeps DEF ClientStep
<1>4. CASE Cut \/ Leave
    BY <1>1, <1>4, CutKeeps, RefuseKeeps
<1>5. CASE UNCHANGED vars
  <2>1. /\ UNCHANGED <<script, style, cut, wire, open, client, buffer, received, serverVars>>
        /\ UNCHANGED <<eventType, eventData>>
      BY <1>5 DEF vars, serverVars
  <2>2. TypeInv' /\ EventsInOrder' /\ ServerInv'
      BY <1>1, <2>1 DEF StreamInv, TypeInv, ServerInv, EventsInOrder, serverVars
  <2>3. TextInv => TextInv'
    <3>1. pulled \in Nat /\ pulled' = pulled /\ pulled <= pulled
        BY <1>1, <2>1, ScriptTypes DEF StreamInv, TypeInv, serverVars
    <3>2. \A L : Text(L) /\ open' /\ Written(L) => Written(L)'
        BY <2>1 DEF Written, serverVars
    <3> QED
        BY <1>1, <2>1, <3>1, <3>2, TextStays DEF StreamInv, Unread
  <2> QED
      BY <1>1, <2>1, <2>2, <2>3 DEF StreamInv, Reading, serverVars
<1> QED
    BY <1>1, <1>2, <1>3, <1>4, <1>5 DEF Next

(* EventsInOrder: wherever the network cuts the text into chunks or cuts it *)
(* off, and however the server writes its frames, parseSseStream gives the  *)
(* application the events that the handler's generator yielded, whole, in   *)
(* order and without a gap. For all scripts, sizes and limits.              *)
THEOREM OrderIsKept == Spec => []EventsInOrder
<1>1. Init => StreamInv
    BY InitStream
<1>2. StreamInv /\ [Next]_vars => StreamInv'
    BY NextKeeps
<1>3. StreamInv => EventsInOrder
    BY DEF StreamInv
<1> QED
    BY <1>1, <1>2, <1>3, PTL DEF Spec
-----------------------------------------------------------------------------
(* How the stream ended. The limit must leave room for a frame with an      *)
(* error of one piece: data, a piece, and the end of the line.              *)

ErrorsFit == MaxEventSize >= 3

Refused == {i \in 1..pulled : script.events[i].fit /\ TooLarge(script.events[i].size)}

EndsInv ==
    /\ client = "toolarge" => Len(received) + 1 \in Refused
    /\ client = "ended" /\ ~cut => server = "ended" /\ generator = "returned" /\ Len(received) = pulled
    /\ client = "threw" /\ ~cut => server = "ended" /\ generator # "returned"

LEMMA EndsAre == EndsInv => EndsAgree
BY DEF EndsInv, EndsAgree, Refused

\* a line, or the data up to its end, is too large only if its event is
LEMMA LongLine ==
    ASSUME ErrorsFit, TypeInv, NEW g, NEW L, NEW S, NEW p, Told(g, L, S, p), p < Len(L),
           \/ Len(Txt(L[p + 1])) > MaxEventSize
           \/ L[p + 1].kind = "data" /\ L[p + 1].base + L[p + 1].len > MaxEventSize
    PROVE  Len(received) + 1 \in Refused
<1> DEFINE ln == L[p + 1]
<1> DEFINE ret == IF style = "crlf" THEN 1 ELSE 0
<1>1. p + 1 \in 1..Len(L) /\ Len(L) \in Nat /\ pulled \in Nat
    BY BufferIs, ScriptTypes DEF TypeInv
<1>2. LineOk(ln) /\ ln.ev <= pulled /\ Len(received) + 1 = ln.no
    BY <1>1 DEF Told, Text, Chain, Yielded, Placed
<1>3. \/ Len(Txt(ln)) > MaxEventSize
      \/ ln.kind = "data" /\ ln.base + ln.len > MaxEventSize
    OBVIOUS
<1> HIDE DEF ln
<1>4. /\ ln.kind \in Kind /\ ln.ev \in Nat /\ ln.base \in Nat /\ ln.len \in Nat /\ ln.no \in Nat
      /\ ln.ev \in {0, ln.no}
      /\ ln.ev # 0 => ln.ev <= Len(script.events) /\ script.events[ln.ev].fit
      /\ ln.kind = "data" => ln.len = Share(ln.ev) /\ ln.base + ln.len <= Total(ln.ev)
    BY <1>2 DEF LineOk, Line
<1>5. MaxEventSize \in Nat /\ MaxEventSize >= 3 /\ ret \in {0, 1}
    BY StreamAssumption DEF ErrorsFit
<1>6. Len(Txt(ln)) = Len(Body(ln)) + ret
  <2>1. Len(Return) = ret
      BY ReturnIs
  <2> QED
      BY <1>2, <2>1, TxtIs
<1>7. ln.kind # "data" => Len(Body(ln)) \in {0, 1}
  <2>1. ln.kind \in {"comment", "error"} => Len(Body(ln)) = 1
      BY <1>2, BodyIs
  <2>2. ln.kind = "blank" => Body(ln) = <<>>
      BY <1>2, BodyIs
  <2> QED
      BY <1>4, <2>1, <2>2 DEF Kind
<1>8. ln.kind = "data"
  <2>1. ASSUME NEW n \in {0, 1}, NEW r \in {0, 1}, NEW m \in Nat, m >= 3 PROVE ~(n + r > m)
      BY <2>1
  <2> HIDE DEF ret
  <2>2. ln.kind # "data" => ~(Len(Body(ln)) + ret > MaxEventSize)
      BY <1>5, <1>7, <2>1
  <2> QED
      BY <1>3, <1>6, <2>2
<1>9. Len(Body(ln)) = 1 + ln.len
    BY <1>2, <1>8, BodyIs
<1>10. ln.ev # 0
  <2>1. ln.ev = 0 => Total(ln.ev) = 1 /\ Share(ln.ev) = 1
      BY DEF Total, Share
  <2> QED
      BY <1>3, <1>4, <1>5, <1>6, <1>8, <1>9, <2>1
<1> DEFINE size == script.events[ln.ev].size
<1>11. Total(ln.ev) = size /\ size \in Nat /\ ln.ev \in 1..pulled
  <2>1. ln.ev \in 1..Len(script.events)
      BY <1>4, <1>10, ScriptTypes DEF TypeInv
  <2>2. size \in Nat
      BY <2>1, ScriptTypes DEF TypeInv
  <2> QED
      BY <1>1, <1>2, <1>4, <1>10, <2>2 DEF Total
<1>12. Share(ln.ev) = IF style = "pretty" THEN 1 ELSE size
    BY <1>11 DEF Share
<1> HIDE DEF size
<1>13. (IF style = "pretty" THEN 2 ELSE size + 1) + ret > MaxEventSize \/ size > MaxEventSize
  <2>1. CASE ln.base + ln.len > MaxEventSize
      BY <1>4, <1>5, <1>8, <1>11, <2>1
  <2>2. CASE Len(Txt(ln)) > MaxEventSize
      BY <1>4, <1>5, <1>6, <1>8, <1>9, <1>11, <1>12, <2>2
  <2> QED
      BY <1>3, <2>1, <2>2
<1>14. TooLarge(size)
    BY <1>13 DEF TooLarge
<1> QED
    BY <1>2, <1>4, <1>10, <1>11, <1>14 DEF Refused, size

LEMMA EndsServer ==
    ASSUME StreamInv, EndsInv, ServerStep
    PROVE  EndsInv'
<1>1. UNCHANGED <<script, style, cut, client, received>>
    BY DEF ServerStep, Peek, WriteFirst, PullNext, PullLast, WriteError, clientVars
<1>2. server # "ended" /\ pulled \in Nat
    BY ScriptTypes DEF ServerStep, Peek, WriteFirst, PullNext, PullLast, WriteError, StreamInv, TypeInv
<1>3. pulled' \in {pulled, pulled + 1}
  <2>1. CASE Peek
      BY <2>1 DEF Peek, StreamInv, ServerInv
  <2> QED
      BY <2>1 DEF ServerStep, WriteFirst, PullNext, PullLast, WriteError
<1>4. Refused \subseteq Refused'
  <2>1. 1..pulled \subseteq 1..pulled'
      BY <1>2, <1>3
  <2> QED
      BY <1>1, <2>1 DEF Refused, TooLarge
<1> QED
    BY <1>1, <1>2, <1>4 DEF EndsInv

LEMMA EndsQuiet ==
    ASSUME EndsInv, UNCHANGED <<script, style, serverVars, received>>,
           client' = client \/ client' \notin {"ended", "threw", "toolarge"},
           cut \in BOOLEAN, cut' \in {cut, TRUE}
    PROVE  EndsInv'
<1>1. Refused' = Refused
    BY DEF Refused, TooLarge, serverVars
<1> QED
    BY <1>1 DEF EndsInv, serverVars
LEMMA EndsConnect ==
    ASSUME StreamInv, Connect
    PROVE  EndsInv'
<1>1. /\ UNCHANGED <<cut, serverVars>>
      /\ client' = IF answer = "sse" THEN "reading" ELSE "threw"
      /\ answer # "none"
    BY DEF Connect
<1>2. client' = "threw" => server = "ended" /\ generator = "threw"
    BY <1>1 DEF StreamInv, ServerInv
<1> QED
    BY <1>1, <1>2 DEF EndsInv, serverVars

LEMMA EndsRefused ==
    ASSUME ErrorsFit, StreamInv, RefuseBuffer \/ RefuseLine
    PROVE  EndsInv'
<1>1. /\ UNCHANGED <<script, style, serverVars, received>>
      /\ client = "reading" /\ client' = "toolarge" /\ TypeInv /\ TextInv
    BY DEF RefuseBuffer, RefuseLine, StreamInv, Reading
<1>2. PICK g, L, S, p : Told(g, L, S, p)
    BY <1>1 DEF TextInv
<1>3. p \in 0..Len(L) /\ Len(L) \in Nat /\ Len(buffer) \in Nat /\ MaxEventSize \in Nat
    BY <1>1, <1>2, BufferIs, StreamAssumption
<1>4. p # Len(L)
  <2>1. CASE RefuseBuffer
    <3>1. buffer # <<>>
        BY <1>3, <2>1 DEF RefuseBuffer
    <3> QED
        BY <1>1, <1>2, <3>1, AtEnd
  <2>2. CASE RefuseLine
      BY <1>1, <1>2, <2>2, AtEnd DEF RefuseLine
  <2> QED
      BY <2>1, <2>2
<1>5. p < Len(L)
    BY <1>3, <1>4
<1> DEFINE n == Len(Txt(L[p + 1]))
<1>6. n \in Nat /\ (LineEnds = {} => Len(buffer) <= n) /\ (LineEnds # {} => Len(FirstLine) = n)
    BY <1>1, <1>2, <1>5, LineAhead
<1>7. n > MaxEventSize
  <2> HIDE DEF n
  <2> QED
      BY <1>3, <1>6 DEF RefuseBuffer, RefuseLine
<1>8. Len(received) + 1 \in Refused
    BY <1>1, <1>2, <1>5, <1>7, LongLine
<1>9. Refused' = Refused
    BY <1>1 DEF Refused, TooLarge, serverVars
<1> QED
    BY <1>1, <1>8, <1>9 DEF EndsInv

\* only an error's frame makes the loop throw, and it is the last
LEMMA EndsParse ==
    ASSUME ErrorsFit, StreamInv, ParseLine
    PROVE  EndsInv'
<1>1. /\ UNCHANGED <<script, style, cut, serverVars>>
      /\ client = "reading" /\ TypeInv /\ TextInv /\ open = ~cut
    BY DEF ParseLine, StreamInv, Reading
<1>2. PICK g, L, S, p : Told(g, L, S, p)
    BY <1>1 DEF TextInv
<1> DEFINE ln == L[p + 1]
<1>3. p < Len(L) /\ p + 1 \in 1..Len(L) /\ LineOk(ln) /\ Effect(ln)
    BY <1>1, <1>2, ParseIs
<1>4. p \in 0..Len(L) /\ Len(L) \in Nat
    BY <1>1, <1>2, BufferIs
<1>5. ln.kind \in Kind
    BY <1>3 DEF LineOk, Line
<1>6. Refused' = Refused
    BY <1>1 DEF Refused, TooLarge, serverVars
<1>7. \/ client' = "reading"
      \/ client' = "toolarge" /\ UNCHANGED received /\ ln.kind = "data" /\ ln.base + ln.len > MaxEventSize
      \/ client' = "threw" /\ ln.kind = "blank" /\ ln.ev = 0
    BY <1>1, <1>3, <1>5 DEF Effect, Kind
<1>8. ASSUME client' = "toolarge" PROVE Len(received') + 1 \in Refused'
    BY <1>1, <1>2, <1>3, <1>6, <1>7, <1>8, LongLine
<1>9. ASSUME client' = "threw", ~cut PROVE server = "ended" /\ generator # "returned"
  <2>1. ln.kind = "blank" /\ ln.ev = 0
      BY <1>7, <1>9
  <2>2. ~(p + 1 < Len(L))
    <3>1. p + 1 < Len(L) => Follows(ln, L[(p + 1) + 1])
        BY <1>2, <1>3 DEF Told, Text, Chain
    <3> QED
        BY <2>1, <3>1 DEF Follows
  <2>3. p + 1 = Len(L)
      BY <1>3, <1>4, <2>2
  <2>4. Failed(L)
    <3>1. L # <<>>
        BY <1>3
    <3> QED
        BY <2>1, <2>3, <3>1 DEF Failed
  <2> QED
      BY <1>1, <1>2, <1>9, <2>4 DEF Told, Written
<1> QED
    BY <1>1, <1>7, <1>8, <1>9 DEF EndsInv, serverVars

\* at the end all lines are parsed, but for a cut
LEMMA EndsStream ==
    ASSUME StreamInv, EndOfStream
    PROVE  EndsInv'
<1>1. /\ UNCHANGED <<cut, serverVars>>
      /\ client = "reading" /\ TypeInv /\ TextInv /\ open = ~cut /\ answer = "sse"
      /\ LineEnds = {} /\ wire = <<>> /\ (~open \/ server = "ended")
      /\ client' \in {"threw", "ended"}
    BY DEF EndOfStream, StreamInv, Reading
<1>2. PICK g, L, S, p : Told(g, L, S, p)
    BY <1>1 DEF TextInv
<1>3. p \in 0..Len(L) /\ Len(L) \in Nat
    BY <1>1, <1>2, BufferIs
<1>4. ASSUME ~cut
      PROVE  server = "ended" /\ generator = "returned" /\ client' = "ended" /\ Len(received') = pulled
  <2>1. p = Len(L)
    <3>1. ~(p < Len(L))
        BY <1>1, <1>2, <1>4, LineAhead
    <3> QED
        BY <1>3, <3>1
  <2>2. Len(received) = Frames(L) /\ ~Failed(L) /\ eventData = <<>>
      BY <1>2, <2>1 DEF Told, Placed
  <2>3. client' = "ended" /\ received' = received
      BY <2>2 DEF EndOfStream
  <2>4. generator = "returned" /\ Frames(L) = pulled /\ server = "ended"
      BY <1>1, <1>2, <1>4, <2>2 DEF Told, Written
  <2> QED
      BY <2>2, <2>3, <2>4
<1> QED
    BY <1>1, <1>4 DEF EndsInv, serverVars

LEMMA EndsKept ==
    ASSUME ErrorsFit, StreamInv, EndsInv, [Next]_vars
    PROVE  EndsInv'
<1>1. cut \in BOOLEAN
    BY DEF StreamInv, TypeInv
<1>2. CASE Cut \/ Leave \/ UNCHANGED vars \/ \E m \in 1..MaxChunk : ReadChunk(m)
  <2>1. /\ UNCHANGED <<script, style, serverVars, received>>
        /\ client' = client \/ client' \notin {"ended", "threw", "toolarge"}
        /\ cut' \in {cut, TRUE}
      BY <1>2 DEF Cut, Leave, ReadChunk, vars, serverVars, clientVars
  <2> QED
      BY <1>1, <2>1, EndsQuiet
<1> QED
    BY <1>2, EndsServer, EndsConnect, EndsRefused, EndsParse, EndsStream DEF Next, ClientStep

\* neither the data so far nor an event of the application is too large
SizeInv ==
    /\ client \in {"waiting", "reading"} /\ eventData # <<>> => ~TooLarge(Len(eventData))
    /\ WithinLimit

\* an event that the application is given
LEMMA GivenEvent ==
    ASSUME StreamInv, SizeInv, client = "reading", eventData # <<>>, Whole(eventData),
           received' = Append(received, eventData[1].v[1]), UNCHANGED <<script, style>>
    PROVE  WithinLimit'
<1>1. PICK e \in 1..pulled : eventData = Payload(e, script.events[e].size)
    BY DEF Whole
<1> DEFINE size == script.events[e].size
<1>2. e \in Nat /\ size \in Nat \ {0}
  <2>1. e \in 1..Len(script.events) /\ e \in Nat
      BY ScriptTypes DEF StreamInv, TypeInv
  <2> QED
      BY <2>1, ScriptTypes DEF StreamInv, TypeInv
<1>3. eventData = Pieces(e, 0, size)
    BY <1>1, <1>2, PayloadIs
<1> HIDE DEF size
<1>4. eventData[1].v[1] = e
    BY <1>2, <1>3, FirstPiece
<1>5. Len(eventData) = size
  <2> DEFINE o == 0
  <2>1. o \in Nat /\ size \in Nat
      BY <1>2
  <2> HIDE DEF o
  <2>2. Len(Pieces(e, o, size)) = size
      BY <1>2, <2>1, PiecesType
  <2> QED
      BY <1>3, <2>2 DEF o
<1>6. ~TooLarge(size)
    BY <1>5 DEF SizeInv
<1>7. received' = Append(received, e) /\ received \in Seq(Nat)
    BY <1>4 DEF StreamInv, TypeInv
<1>8. ASSUME NEW i \in DOMAIN received'
      PROVE  received'[i] = e \/ (i \in DOMAIN received /\ received'[i] = received[i])
  <2>1. ASSUME NEW r \in Seq(Nat), NEW k \in DOMAIN Append(r, e)
        PROVE  Append(r, e)[k] = e \/ (k \in DOMAIN r /\ Append(r, e)[k] = r[k])
      BY <1>2
  <2> QED
      BY <1>7, <2>1
<1>9. ASSUME NEW i \in DOMAIN received' PROVE ~TooLarge(script.events[received'[i]].size)
    BY <1>6, <1>8, <1>9 DEF SizeInv, WithinLimit, size
<1> QED
    BY <1>9 DEF WithinLimit, TooLarge

LEMMA SizeKept ==
    ASSUME StreamInv, SizeInv, [Next]_vars
    PROVE  SizeInv'
<1>1. UNCHANGED <<script, style>>
    BY DEF Next, vars, ServerStep, ClientStep, Peek, WriteFirst, PullNext, PullLast, WriteError,
           Connect, RefuseBuffer, ParseLine, RefuseLine, EndOfStream, ReadChunk, Cut, Leave
<1>2. \A size : TooLarge(size)' = TooLarge(size)
    BY <1>1 DEF TooLarge
<1>3. UNCHANGED received => WithinLimit'
    BY <1>1, <1>2 DEF SizeInv, WithinLimit, TooLarge
<1>4. CASE ParseLine
  <2>1. client = "reading" /\ TypeInv /\ TextInv /\ Len(FirstLine) <= MaxEventSize /\ LineEnds # {}
      BY <1>4 DEF ParseLine, StreamInv, Reading
  <2>2. PICK g, L, S, p : Told(g, L, S, p)
      BY <2>1 DEF TextInv
  <2> DEFINE ln == L[p + 1]
  <2>3. p < Len(L) /\ LineOk(ln) /\ Effect(ln) /\ FirstLine = Txt(ln)
      BY <1>4, <2>1, <2>2, ParseIs, LineAhead
  <2> HIDE DEF ln
  <2>4. /\ ln.kind \in Kind /\ ln.ev \in Nat /\ ln.base \in Nat /\ ln.len \in Nat
        /\ ln.kind = "data" => ln.len = Share(ln.ev) /\ ln.base + ln.len <= Total(ln.ev)
      BY <2>3 DEF LineOk, Line
  <2>5. WithinLimit'
    <3>1. CASE UNCHANGED received
        BY <1>3, <3>1
    <3>2. CASE received' # received
      <4>1. eventData # <<>> /\ Consume(eventType, eventData)
          BY <1>4, <3>2 DEF ParseLine
      <4>2. Whole(eventData) /\ received' = Append(received, eventData[1].v[1])
          BY <3>2, <4>1 DEF Consume
      <4> QED
          BY <1>1, <2>1, <4>1, <4>2, GivenEvent
    <3> QED
        BY <3>1, <3>2
  <2>6. ASSUME client' \in {"waiting", "reading"}, eventData' # <<>>
        PROVE  ~TooLarge(Len(eventData'))
    <3>1. CASE ln.kind = "data"
      <4> DEFINE n == ln.base + ln.len
      <4> DEFINE o == 0
      <4> DEFINE ret == IF style = "crlf" THEN 1 ELSE 0
      <4>1. eventData' = Pieces(ln.ev, o, n) /\ n \in Nat /\ o \in Nat
          BY <2>3, <2>4, <3>1 DEF Effect
      <4>2. ~(n > MaxEventSize)
          BY <2>3, <2>6, <3>1 DEF Effect
      <4>3. Len(FirstLine) = 1 + ln.len + ret
        <5>1. Len(Txt(ln)) = Len(Body(ln)) + Len(Return) /\ Len(Return) = ret
            BY <2>3, TxtIs, ReturnIs
        <5>2. Len(Body(ln)) = 1 + ln.len
            BY <2>3, <3>1, BodyIs
        <5> QED
            BY <2>3, <5>1, <5>2
      <4>4. style # "pretty" => n = ln.len
        <5>1. style # "pretty" => ln.base + ln.len <= ln.len
            BY <2>4, <3>1 DEF Share
        <5> QED
            BY <2>4, <5>1
      <4>5. style = "pretty" => ln.len = 1
          BY <2>4, <3>1 DEF Share
      <4>6. MaxEventSize \in Nat /\ 1 + ln.len + ret <= MaxEventSize
          BY <2>1, <4>3, StreamAssumption
      <4> HIDE DEF o, n
      <4>7. Len(eventData') = n
          BY <2>4, <4>1, PiecesType
      <4>8. ~((IF style = "pretty" THEN 2 ELSE n + 1) + ret > MaxEventSize \/ n > MaxEventSize)
          BY <2>4, <4>1, <4>2, <4>4, <4>5, <4>6
      <4> QED
          BY <4>7, <4>8 DEF TooLarge
    <3>2. CASE ln.kind # "data"
      <4>1. eventData' = eventData
          BY <2>3, <2>4, <2>6, <3>2 DEF Effect, Kind
      <4> QED
          BY <2>1, <2>6, <4>1 DEF SizeInv
    <3> QED
        BY <3>1, <3>2
  <2> QED
      BY <1>2, <2>5, <2>6 DEF SizeInv
<1>5. CASE EndOfStream
  <2>1. client = "reading" /\ client' \in {"threw", "ended"}
      BY <1>5 DEF EndOfStream
  <2>2. WithinLimit'
    <3>1. CASE UNCHANGED received
        BY <1>3, <3>1
    <3>2. CASE received' # received
      <4>1. eventData # <<>> /\ Whole(eventData) /\ received' = Append(received, eventData[1].v[1])
          BY <1>5, <3>2 DEF EndOfStream
      <4> QED
          BY <1>1, <2>1, <4>1, GivenEvent
    <3> QED
        BY <3>1, <3>2
  <2> QED
      BY <2>1, <2>2 DEF SizeInv
<1>6. CASE ~ParseLine /\ ~EndOfStream
  <2>1. UNCHANGED <<received, eventData>>
      BY <1>6 DEF Next, vars, clientVars, ServerStep, ClientStep, Peek, WriteFirst, PullNext, PullLast,
                  WriteError, Connect, RefuseBuffer, RefuseLine, ReadChunk, Cut, Leave
  <2>2. client' \in {"waiting", "reading"} => client \in {"waiting", "reading"}
      BY <1>6 DEF Next, vars, clientVars, ServerStep, ClientStep, Peek, WriteFirst, PullNext, PullLast,
                  WriteError, Connect, RefuseBuffer, RefuseLine, ReadChunk, Cut, Leave
  <2> QED
      BY <1>2, <1>3, <2>1, <2>2 DEF SizeInv
<1> QED
    BY <1>4, <1>5, <1>6

(* OutcomeAgrees: where the network held, the application's loop ends only  *)
(* if the handler's generator returned, and with all its events, and throws *)
(* only if the generator threw or an event could not be written. Wherever   *)
(* the network cut, the loop is refused only for an event that exceeds      *)
(* maxEventSizeBytes, and it has none that does, however they came in       *)
(* chunks. A call that fails before its first event is answered by an       *)
(* error, never by a stream. For all scripts and sizes, and for a limit     *)
(* that an error fits in.                                                   *)
THEOREM OutcomeIsAgreed == ErrorsFit /\ Spec => []OutcomeAgrees
<1>1. SUFFICES ASSUME ErrorsFit PROVE Spec => []OutcomeAgrees
    OBVIOUS
<1>2. Init => StreamInv /\ EndsInv /\ SizeInv
    BY InitStream DEF Init, EndsInv, SizeInv, WithinLimit
<1>3. StreamInv /\ EndsInv /\ SizeInv /\ [Next]_vars => StreamInv' /\ EndsInv' /\ SizeInv'
    BY <1>1, NextKeeps, EndsKept, SizeKept
<1>4. StreamInv /\ EndsInv /\ SizeInv => OutcomeAgrees
    BY EndsAre DEF StreamInv, ServerInv, Reading, SizeInv, OutcomeAgrees, EarlyErrorIsPlain
<1> QED
    BY <1>2, <1>3, <1>4, PTL DEF Spec
-----------------------------------------------------------------------------
(* The generator. It is the only one to end the loop, or the loop's failure *)
(* closes it; what is outside of the loop is the first event, which         *)
(* JSON.stringify takes.                                                    *)

FirstIsWritten == \A s \in Scripts : s.events # <<>> => s.events[1].fit

ReleaseInv ==
    /\ script \in Scripts
    /\ server = "peek" => pulled = 0
    /\ server = "first" => script.events # <<>>
    /\ server \in {"failing", "ended"} => generator # "suspended"

LEMMA ReleaseKept ==
    ASSUME FirstIsWritten, ReleaseInv, [Next]_vars
    PROVE  ReleaseInv'
<1>1. script' = script
    BY DEF Next, vars, ServerStep, ClientStep, Peek, WriteFirst, PullNext, PullLast, WriteError,
           Connect, RefuseBuffer, ParseLine, RefuseLine, EndOfStream, ReadChunk, Cut, Leave
<1>2. CASE Peek
  <2>1. More => script.events # <<>>
      BY <1>2 DEF Peek, More, ReleaseInv
  <2> QED
      BY <1>1, <1>2, <2>1 DEF Peek, ReleaseInv
<1>3. CASE WriteFirst
    BY <1>1, <1>3 DEF WriteFirst, ReleaseInv, FirstIsWritten
<1>4. CASE PullNext
    BY <1>1, <1>4 DEF PullNext, ReleaseInv
<1>5. CASE PullLast
    BY <1>1, <1>5 DEF PullLast, ReleaseInv
<1>6. CASE WriteError
    BY <1>1, <1>6 DEF WriteError, ReleaseInv
<1>7. CASE ClientStep \/ Cut \/ Leave \/ UNCHANGED vars
  <2>1. UNCHANGED <<server, generator, pulled>>
      BY <1>7 DEF ClientStep, vars, serverVars, Connect, RefuseBuffer, ParseLine, RefuseLine,
                  EndOfStream, ReadChunk, Cut, Leave
  <2> QED
      BY <1>1, <2>1 DEF ReleaseInv
<1> QED
    BY <1>2, <1>3, <1>4, <1>5, <1>6, <1>7 DEF Next, ServerStep

(* GeneratorReleased: when the response is ended the handler's generator is *)
(* finished, so that its queue has left the bus (delegateAsyncIterator),    *)
(* whoever ended it: for scripts whose first event JSON.stringify takes.    *)
THEOREM GeneratorIsFinished == FirstIsWritten /\ Spec => []GeneratorReleased
<1>1. SUFFICES ASSUME FirstIsWritten PROVE Spec => []GeneratorReleased
    OBVIOUS
<1>2. Init => ReleaseInv
    BY DEF Init, ReleaseInv
<1>3. ReleaseInv /\ [Next]_vars => ReleaseInv'
    BY <1>1, ReleaseKept
<1>4. ReleaseInv => GeneratorReleased
    BY DEF ReleaseInv, GeneratorReleased
<1> QED
    BY <1>2, <1>3, <1>4, PTL DEF Spec
=============================================================================
