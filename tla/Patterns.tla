------------------------------ MODULE Patterns ------------------------------
(***************************************************************************)
(* Pattern matching of lstrlib.c: the backtracking matcher with its mutable *)
(* captures, and string.find, match, gmatch and gsub over it.               *)
(*                                                                         *)
(* A pattern is a sequence of items.  A single character class is the set   *)
(* of characters it stands for, with its suffix; how its text is read is    *)
(* abstracted.  Subjects are sequences of characters; positions count from  *)
(* 0 as the code's pointers do.                                             *)
(***************************************************************************)
EXTENDS Integers, Sequences, SequencesExt, FiniteSetsExt

CONSTANT MaxDepth    \* MAXCCALLS, the depth of calls of match

NoMatch == -1
TooComplex == -2     \* raised errors: the pattern nests too deep,
Malformed == -3      \* or closes a capture that is not open
CapUnfinished == -1
CapPosition == -2

(* A match state: captures opened so far (level), all capture slots, and    *)
(* the calls left.                                                          *)
FreshState == [level |-> 0, capture |-> <<>>, depth |-> MaxDepth]

Failed(ms) == [s |-> NoMatch, ms |-> ms]

SingleMatch(q, s, class) == s < Len(q.src) /\ q.src[s + 1] \in class

RECURSIVE Balance(_, _, _, _, _)
Balance(q, s, b, e, cont) ==
  IF s >= Len(q.src) THEN NoMatch
  ELSE LET c == q.src[s + 1]
       IN IF c = e THEN IF cont = 1 THEN s + 1 ELSE Balance(q, s + 1, b, e, cont - 1)
          ELSE Balance(q, s + 1, b, e, IF c = b THEN cont + 1 ELSE cont)

MatchBalance(q, s, b, e) ==
  IF ~SingleMatch(q, s, {b}) THEN NoMatch ELSE Balance(q, s + 1, b, e, 1)

(* Before the first and behind the last character there is a zero.          *)
CharAt(q, s) == IF s \in 1 .. Len(q.src) THEN q.src[s] ELSE 0
Frontier(q, s, class) == CharAt(q, s) \notin class /\ CharAt(q, s + 1) \in class

(* The last capture that is open, or 0. *)
CaptureToClose(ms) ==
  Max({0} \cup {l \in 1 .. ms.level : ms.capture[l].len = CapUnfinished})

(* The length of a position capture is a huge size_t, which never fits.     *)
MatchCapture(q, ms, s, l) ==
  LET c == ms.capture[l]
  IN IF /\ c.len >= 0
        /\ Len(q.src) - s >= c.len
        /\ SubSeq(q.src, c.init + 1, c.init + c.len) = SubSeq(q.src, s + 1, s + c.len)
     THEN s + c.len ELSE NoMatch

RECURSIVE Match(_, _, _, _), Items(_, _, _, _), MaxExpand(_, _, _, _), MinExpand(_, _, _, _)

StartCapture(q, ms, s, p, what) ==
  LET l == ms.level + 1
      opened == [ms EXCEPT !.level = l,
                           !.capture = SubSeq(@, 1, l - 1) \o <<[init |-> s, len |-> what]>>
                                       \o SubSeq(@, l + 1, Len(@))]
      r == Match(q, opened, s, p)
  IN IF r.s = NoMatch THEN [r EXCEPT !.ms.level = @ - 1] ELSE r

(* A bug: the capture stays closed when what follows does not match.        *)
EndCaptureForgetful(q, ms, s, p) ==
  LET l == CaptureToClose(ms)
  IN IF l = 0 THEN [s |-> Malformed, ms |-> ms]
     ELSE Match(q, [ms EXCEPT !.capture[l].len = s - ms.capture[l].init], s, p)

EndCapture(q, ms, s, p) ==
  LET l == CaptureToClose(ms)
      r == Match(q, [ms EXCEPT !.capture[l].len = s - ms.capture[l].init], s, p)
  IN IF l = 0 THEN [s |-> Malformed, ms |-> ms]
     ELSE IF r.s = NoMatch THEN [r EXCEPT !.ms.capture[l].len = CapUnfinished] ELSE r

(* The items from p at s, without a new call (the goto init of the code).   *)
Items(q, ms, s, p) ==
  IF p > Len(q.pat) THEN [s |-> s, ms |-> ms]
  ELSE LET item == q.pat[p]
           From(t) == IF t = NoMatch THEN Failed(ms) ELSE Items(q, ms, t, p + 1)
       IN CASE item.k = "open" -> StartCapture(q, ms, s, p + 1, CapUnfinished)
            [] item.k = "position" -> StartCapture(q, ms, s, p + 1, CapPosition)
            [] item.k = "close" -> EndCapture(q, ms, s, p + 1)
            [] item.k = "end" -> IF s = Len(q.src) THEN [s |-> s, ms |-> ms] ELSE Failed(ms)
            [] item.k = "balance" -> From(MatchBalance(q, s, item.b, item.e))
            [] item.k = "frontier" -> From(IF Frontier(q, s, item.class) THEN s ELSE NoMatch)
            [] item.k = "back" -> From(MatchCapture(q, ms, s, item.n))
            [] item.k = "one" ->
                 (IF ~SingleMatch(q, s, item.class)
                  THEN IF item.suffix \in {"*", "?", "-"} THEN Items(q, ms, s, p + 1) ELSE Failed(ms)
                  ELSE CASE item.suffix = "?" ->
                              (LET r == Match(q, ms, s + 1, p + 1)
                               IN IF r.s # NoMatch THEN r ELSE Items(q, r.ms, s, p + 1))
                         [] item.suffix = "+" -> MaxExpand(q, ms, s + 1, p)
                         [] item.suffix = "*" -> MaxExpand(q, ms, s, p)
                         [] item.suffix = "-" -> MinExpand(q, ms, s, p)
                         [] item.suffix = "" -> Items(q, ms, s + 1, p + 1))

(* match: one call deeper. *)
Match(q, ms, s, p) ==
  IF ms.depth = 0 THEN [s |-> TooComplex, ms |-> ms]
  ELSE LET r == Items(q, [ms EXCEPT !.depth = @ - 1], s, p)
       IN [r EXCEPT !.ms.depth = @ + 1]

(* As many repetitions as fit, then one less after each failure.            *)
MaxExpand(q, ms, s, p) ==
  LET more == MaxExpand(q, ms, s + 1, p)
  IN IF ~SingleMatch(q, s, q.pat[p].class) THEN Match(q, ms, s, p + 1)
     ELSE IF more.s # NoMatch THEN more
     ELSE Match(q, more.ms, s, p + 1)

MinExpand(q, ms, s, p) ==
  LET r == Match(q, ms, s, p + 1)
  IN IF r.s # NoMatch THEN r
     ELSE IF SingleMatch(q, s, q.pat[p].class) THEN MinExpand(q, r.ms, s + 1, p)
     ELSE Failed(r.ms)

-----------------------------------------------------------------------------
(* What a match gives: where it starts and ends and its captures.           *)
Found(s, r) == [from |-> s, to |-> r.s, captures |-> SubSeq(r.ms.capture, 1, r.ms.level)]
Nothing == [from |-> NoMatch, to |-> NoMatch, captures |-> <<>>]
Raised(e) == [from |-> e, to |-> e, captures |-> <<>>]

RECURSIVE FindFrom(_, _, _)
(* str_find_aux: the first position from s at which the pattern matches.    *)
FindFrom(q, ms, s) ==
  LET r == Match(q, [ms EXCEPT !.level = 0], s, 1)
  IN IF r.s < NoMatch THEN Raised(r.s)
     ELSE IF r.s # NoMatch THEN Found(s, r)
     ELSE IF s < Len(q.src) /\ ~q.anchor THEN FindFrom(q, r.ms, s + 1)
     ELSE Nothing

RECURSIVE GMatch(_, _)
(* The matches that the iterator yields, from position s on.                *)
GMatch(q, s) ==
  IF s > Len(q.src) THEN <<>>
  ELSE LET m == FindFrom(q, FreshState, s)
       IN IF m = Nothing THEN <<>>
          ELSE IF m.from < NoMatch THEN <<m>>
          ELSE <<m>> \o GMatch(q, IF m.to = m.from THEN m.to + 1 ELSE m.to)

(* add_s: a replacement is a sequence of characters and captures.           *)
CaptureText(q, m, n) ==
  IF n = 0 \/ (n = 1 /\ m.captures = <<>>) THEN SubSeq(q.src, m.from + 1, m.to)
  ELSE LET c == m.captures[n]
       IN IF c.len = CapPosition THEN <<c.init + 1>> ELSE SubSeq(q.src, c.init + 1, c.init + c.len)

AddS(q, m, repl) ==
  FoldLeft(LAMBDA out, x : out \o (IF x.k = "char" THEN <<x.c>> ELSE CaptureText(q, m, x.n)), <<>>, repl)

RECURSIVE GSub(_, _, _, _, _)
(* string.gsub from src = s with n substitutions made and out written.      *)
GSub(q, ms, s, n, out) ==
  LET r == Match(q, [ms EXCEPT !.level = 0], s, 1)
      rest == [text |-> out \o SubSeq(q.src, s + 1, Len(q.src)), n |-> n]
      done == IF r.s = NoMatch THEN out ELSE out \o AddS(q, Found(s, r), q.repl)
      count == IF r.s = NoMatch THEN n ELSE n + 1
      final == [text |-> done \o SubSeq(q.src, s + 1, Len(q.src)), n |-> count]
  IN IF n >= q.max THEN rest
     ELSE IF r.s < NoMatch THEN [text |-> <<r.s>>, n |-> n]
     ELSE IF r.s > s
     THEN IF q.anchor THEN [text |-> done \o SubSeq(q.src, r.s + 1, Len(q.src)), n |-> count]
          ELSE GSub(q, r.ms, r.s, count, done)
     ELSE IF s < Len(q.src)
     THEN IF q.anchor THEN final
          ELSE GSub(q, r.ms, s + 1, count, Append(done, q.src[s + 1]))
     ELSE final
=============================================================================
