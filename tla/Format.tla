------------------------------- MODULE Format -------------------------------
(***************************************************************************)
(* The string formatting of Format/main.cc. A character is a string of     *)
(* length one. A case is a call: the mode (Format or vFormat), the         *)
(* arguments, and the format string as a sequence of pieces, a character   *)
(* [c] or a replacement field [path, spec]; Template writes it down as the *)
(* string the code reads. Each step is one round of the loop of            *)
(* Formatter::operator(). printf's rendering of a double is external: the  *)
(* argument carries the text.                                              *)
(*                                                                         *)
(* base_prefix has no initial value: without "#" it is true or false, and  *)
(* "stray" says that it was true where the number's text depends on it.    *)
(***************************************************************************)
EXTENDS Integers, Sequences, FiniteSets, SequencesExt

CONSTANTS
  Cases,        \* [mode, args, pieces]
  MaxPadding    \* kMaxPaddingSize

VARIABLES
  obj,   \* s: what is left of str_; out; next: arg_index; the two has_..._index; st; stray
  ref    \* the case

vars == <<obj, ref>>

DigitChars == <<"0", "1", "2", "3", "4", "5", "6", "7", "8", "9", "a", "b", "c", "d", "e", "f">>
UpperDigits == <<"0", "1", "2", "3", "4", "5", "6", "7", "8", "9", "A", "B", "C", "D", "E", "F">>
IsDigit(c) == \E i \in 1 .. 10 : DigitChars[i] = c
DigitOf(c) == (CHOOSE i \in 1 .. 10 : DigitChars[i] = c) - 1
ToInt(s) == FoldLeft(LAMBDA n, c : 10 * n + DigitOf(c), 0, s)
At(s, p) == IF p \in DOMAIN s THEN s[p] ELSE ""
From(s, p) == SubSeq(s, p, Len(s))
\* strnchr: where c is in s, or 0.
Find(s, c) == IF \E i \in DOMAIN s : s[i] = c THEN CHOOSE i \in DOMAIN s : s[i] = c /\ \A j \in 1 .. i - 1 : s[j] # c
              ELSE 0
RECURSIVE DigitRun(_, _)
DigitRun(s, p) == IF IsDigit(At(s, p)) THEN 1 + DigitRun(s, p + 1) ELSE 0

-----------------------------------------------------------------------------
\* FormatArg

IsAlign(c) == c \in {"<", ">", "=", "^"}
IsSign(c) == c \in {"+", "-", " "}

\* InitSlow behind the ":", part by part from place p; an early return at the end of s is a
\* part that is not there.
InitSlow(s) ==
  LET Align(x) == CASE IsAlign(At(s, 2)) -> [x EXCEPT !.fill = s[1], !.align = s[2], !.p = 3]
                    [] IsAlign(At(s, 1)) -> [x EXCEPT !.align = s[1], !.p = 2]
                    [] OTHER             -> x
      Sign(x) == IF IsSign(At(s, x.p)) THEN [x EXCEPT !.sign = s[x.p], !.p = @ + 1] ELSE x
      Hash(x) == IF At(s, x.p) = "#" THEN [x EXCEPT !.hash = TRUE, !.p = @ + 1] ELSE x
      Zero(x) == IF At(s, x.p) = "0"
                 THEN [x EXCEPT !.bad = x.align # "", !.fill = "0", !.align = "=", !.p = @ + 1] ELSE x
      Width(x) == LET n == DigitRun(s, x.p)
                  IN IF n = 0 THEN x ELSE [x EXCEPT !.width = ToInt(SubSeq(s, x.p, x.p + n - 1)), !.p = @ + n]
      Comma(x) == IF At(s, x.p) = "," THEN [x EXCEPT !.comma = TRUE, !.p = @ + 1] ELSE x
      Prec(x) == LET n == DigitRun(s, x.p + 1)
                     e == x.p + 1 + n
                 IN CASE At(s, x.p) # "." -> x
                      [] n = 0            -> [x EXCEPT !.p = e]
                      [] OTHER            -> [x EXCEPT !.prec = ToInt(SubSeq(s, x.p + 1, e - 1)),
                                                       !.p = IF At(s, e) = "." THEN e + 1 ELSE e]
      Pres(x) == [x EXCEPT !.pres = At(s, x.p), !.bad = @ \/ x.p < Len(s)]
      none == [p |-> 1, bad |-> FALSE, fill |-> "", align |-> "", sign |-> "", hash |-> FALSE,
               width |-> -1, comma |-> FALSE, prec |-> -1, pres |-> ""]
  IN Pres(Prec(Comma(Width(Zero(Hash(Sign(Align(none))))))))

\* The key, in front of the ":", is split by SplitKey one piece at a time.
KeyOf(s) == IF Find(s, ":") = 0 THEN s ELSE SubSeq(s, 1, Find(s, ":") - 1)
SpecOf(s) == IF Find(s, ":") = 0 THEN <<>> ELSE From(s, Find(s, ":") + 1)

SplitKey(key) ==
  LET bracket == key # <<>> /\ Last(key) = "]"
      e == IF bracket THEN Front(key) ELSE key
      p == Find(e, IF bracket THEN "[" ELSE ".")
  IN [bad   |-> bracket /\ p = 0,
      piece |-> IF p = 0 THEN e ELSE SubSeq(e, 1, p - 1),
      rest  |-> IF p = 0 THEN <<>> ELSE From(e, p + 1)]

-----------------------------------------------------------------------------
\* Rendering of the values

\* UIntToDec: the digits from the last, a comma after every third that is not the first.
RECURSIVE DecFrom(_, _, _)
DecFrom(v, idx, comma) ==
  LET left == v \div 10
      sep == IF left # 0 /\ comma /\ idx % 3 = 0 THEN <<",">> ELSE <<>>
  IN IF v = 0 THEN <<>> ELSE DecFrom(left, idx + 1, comma) \o sep \o <<DigitChars[(v % 10) + 1]>>

\* UIntToHex, UIntToOct, UIntToBin
RECURSIVE BaseFrom(_, _, _)
BaseFrom(v, base, repr) ==
  IF v = 0 THEN <<>> ELSE BaseFrom(v \div base, base, repr) \o <<repr[(v % base) + 1]>>

Prefixed == {"x", "X", "o", "O", "b", "B"}

\* The text of an integer and how much of it is sign and base prefix.
IntText(v, f, prefix) ==
  LET n == IF v >= 0 THEN v ELSE -v
      digits == CASE v = 0                     -> <<"0">>
                  [] f.pres = "x"              -> BaseFrom(n, 16, DigitChars)
                  [] f.pres = "X"              -> BaseFrom(n, 16, UpperDigits)
                  [] f.pres \in {"o", "O"}     -> BaseFrom(n, 8, DigitChars)
                  [] f.pres \in {"b", "B"}     -> BaseFrom(n, 2, DigitChars)
                  [] OTHER                     -> DecFrom(n, 1, f.comma)
      base == CASE ~prefix \/ f.pres \notin Prefixed -> <<>>
                [] f.pres \in {"x", "X"}             -> <<"0", "x">>
                [] f.pres \in {"o", "O"}             -> <<"0">>
                [] OTHER                             -> <<"0", f.pres>>
      sign == CASE v < 0            -> <<"-">>
                [] f.sign = "+"     -> <<"+">>
                [] f.sign = " "     -> <<" ">>
                [] OTHER            -> <<>>
  IN [s |-> sign \o base \o digits, prefix |-> Len(sign) + Len(base)]

Fill(f, n) ==
  [i \in 1 .. (IF n < 0 THEN 0 ELSE IF n > MaxPadding THEN MaxPadding ELSE n) |-> IF f.fill = "" THEN " " ELSE f.fill]

\* FormatString; an odd padding of a centred string is longer behind it.
FormatString(f, s) ==
  LET n == f.width - Len(s)
      half == IF n < 0 THEN 0 ELSE n \div 2
  IN CASE f.align \in {"", "<"} -> s \o Fill(f, n)
       [] f.align \in {">", "="} -> Fill(f, n) \o s
       [] OTHER -> Fill(f, half) \o s \o Fill(f, n - half)

\* Mutant: the width still counts the prefix already put out.
FormatNumberWide(f, t) ==
  LET right == [f EXCEPT !.align = ">"]
  IN CASE f.align = "" -> FormatString(right, t.s)
       [] f.align = "=" /\ t.prefix > 0 ->
            SubSeq(t.s, 1, t.prefix) \o FormatString(f, From(t.s, t.prefix + 1))
       [] OTHER -> FormatString(f, t.s)

FormatNumber(f, t) ==
  LET right == [f EXCEPT !.align = ">"]
      left == f.width - t.prefix
  IN CASE f.align = "" -> FormatString(right, t.s)
       [] f.align = "=" /\ t.prefix > 0 ->
            SubSeq(t.s, 1, t.prefix)
              \o FormatString([f EXCEPT !.width = IF left < 0 THEN 0 ELSE left], From(t.s, t.prefix + 1))
       [] OTHER -> FormatString(f, t.s)

Numeral(n) == IF n = 0 THEN <<"0">> ELSE DecFrom(n, 1, FALSE)
Ok(s) == [bad |-> FALSE, s |-> s]
Bad == [bad |-> TRUE, s |-> <<>>]

\* DoubleToString: the prefix is the sign.
DoubleText(v) == [s |-> v.s, prefix |-> IF v.s[1] = "-" THEN 1 ELSE 0]

FormatStringValue(v, f) ==
  FormatString(f, IF f.prec = -1 \/ f.prec >= Len(v.s) THEN v.s ELSE SubSeq(v.s, 1, f.prec))

\* at() of a vector, deque, array or map, which throws for a key that is not there. A
\* container is a set of [key, val], its integer keys written as numerals.
Lookup(v, piece) == {e.val : e \in {x \in v.elems : x.key = piece}}

\* FormatValue<T>::Format by the type of the value; k is the next key, split off. The assert
\* on the presentation counts as a throw; presentation "c" is left out.
RECURSIVE FormatValue(_, _, _, _)
FormatValue(v, f, k, prefix) ==
  CASE v.t = "str" -> Ok(FormatStringValue(v, f))
    [] v.t = "int" \/ (v.t = "bool" /\ f.pres # "") ->
         IF f.pres \in Prefixed \cup {"", "d", "n"} THEN Ok(FormatNumber(f, IntText(v.v, f, prefix))) ELSE Bad
    [] v.t = "bool" /\ f.pres = "" ->
         Ok(FormatString(f, IF v.v = 1 THEN <<"t", "r", "u", "e">> ELSE <<"f", "a", "l", "s", "e">>))
    [] v.t = "double" -> Ok(FormatNumber(f, DoubleText(v)))
    [] v.t = "null" -> Ok(<<"(", "n", "u", "l", "l", ")">>)
    [] v.t = "seq" ->
         IF k.bad \/ Lookup(v, k.piece) = {} THEN Bad
         ELSE FormatValue(CHOOSE e \in Lookup(v, k.piece) : TRUE, f, SplitKey(k.rest), prefix)

\* The function all text goes through: "}}" becomes "}", a single one throws.
RECURSIVE Output(_)
Output(s) ==
  LET p == Find(s, "}")
      rest == Output(From(s, p + 2))
  IN CASE p = 0 -> Ok(s)
       [] At(s, p + 1) # "}" -> [bad |-> TRUE, s |-> SubSeq(s, 1, p - 1)]
       [] OTHER -> [bad |-> rest.bad, s |-> SubSeq(s, 1, p) \o rest.s]

-----------------------------------------------------------------------------
\* What a case means: the text Python's str.format gives, which the formatter imitates.

\* A field as it is written: path is a sequence of keys, spec a record of the parts.
WriteSpec(f) ==
  (IF f.align = "" THEN <<>> ELSE IF f.fill = "" THEN <<f.align>> ELSE <<f.fill, f.align>>)
    \o (IF f.sign = "" THEN <<>> ELSE <<f.sign>>) \o (IF f.hash THEN <<"#">> ELSE <<>>)
    \o (IF f.zero THEN <<"0">> ELSE <<>>) \o (IF f.width = -1 THEN <<>> ELSE Numeral(f.width))
    \o (IF f.comma THEN <<",">> ELSE <<>>) \o (IF f.prec = -1 THEN <<>> ELSE <<".">> \o Numeral(f.prec))
    \o (IF f.pres = "" THEN <<>> ELSE <<f.pres>>)
WritePath(path) ==
  CASE path = <<>> -> <<>>
    [] Len(path) = 2 -> path[1] \o <<"[">> \o path[2] \o <<"]">>
    [] OTHER -> path[1] \o FlattenSeq([i \in 1 .. Len(path) - 1 |-> <<".">> \o path[i + 1]])
Write(piece) ==
  CASE "c" \notin DOMAIN piece -> <<"{">> \o WritePath(piece.path) \o <<":">> \o WriteSpec(piece.spec) \o <<"}">>
    [] piece.c \in {"{", "}"} -> <<piece.c, piece.c>>
    [] OTHER -> <<piece.c>>
Template(case) == FlattenSeq([i \in DOMAIN case.pieces |-> Write(case.pieces[i])])

Fields(case) == SelectSeq(case.pieces, LAMBDA p : "c" \notin DOMAIN p)
Keys(case, n) == IF Fields(case)[n].path = <<>> THEN <<Numeral(n - 1)>> ELSE Fields(case)[n].path
RECURSIVE Reach(_, _)
Reach(v, path) ==
  IF path = <<>> THEN {v}
  ELSE IF v.t # "seq" THEN {v}
  ELSE UNION {Reach(e, Tail(path)) : e \in Lookup(v, path[1])}
\* Format takes its arguments as vFormat takes a container of them.
Container(case) ==
  IF case.mode = "vFormat" THEN case.args[1]
  ELSE [t |-> "seq", elems |-> {[key |-> Numeral(i - 1), val |-> case.args[i]] : i \in DOMAIN case.args}]
Value(case, n) == Reach(Container(case), Keys(case, n))
IsScalar(S) == \E v \in S : v.t # "seq"

\* A number by its place values, its decimal digits grouped by three.
RefNumber(v, f) ==
  LET n == IF v < 0 THEN -v ELSE v
      base == CASE f.pres \in {"x", "X"} -> 16 [] f.pres \in {"o", "O"} -> 8 [] f.pres \in {"b", "B"} -> 2 [] OTHER -> 10
      len == CHOOSE l \in 1 .. 32 : base ^ l > n /\ (l = 1 \/ base ^ (l - 1) <= n)
      digit(i) == (IF f.pres = "X" THEN UpperDigits ELSE DigitChars)[((n \div base ^ (len - i)) % base) + 1]
      comma(i) == IF f.comma /\ base = 10 /\ i < len /\ (len - i) % 3 = 0 THEN <<",">> ELSE <<>>
      sign == IF v < 0 THEN <<"-">> ELSE IF f.sign \in {"+", " "} THEN <<f.sign>> ELSE <<>>
      mark == CASE ~f.hash \/ base = 10 -> <<>> [] base = 8 -> <<"0">> [] base = 16 -> <<"0", "x">> [] OTHER -> <<"0", f.pres>>
  IN [s |-> sign \o mark \o FlattenSeq([i \in 1 .. len |-> <<digit(i)>> \o comma(i)]), prefix |-> Len(sign) + Len(mark)]

\* The padding between the sign and the digits, or around the text.
RefText(v, f) ==
  LET number == v.t \in {"int", "double"} \/ (v.t = "bool" /\ f.pres # "")
      t == CASE v.t = "double" -> DoubleText(v)
             [] OTHER -> RefNumber(v.v, f)
      body == CASE v.t = "str" -> IF f.prec \in 0 .. Len(v.s) THEN SubSeq(v.s, 1, f.prec) ELSE v.s
                [] v.t = "bool" /\ v.v = 1 -> <<"t", "r", "u", "e">>
                [] v.t = "bool" -> <<"f", "a", "l", "s", "e">>
      align == CASE f.zero -> "=" [] f.align # "" -> f.align [] number -> ">" [] OTHER -> "<"
      head == IF number /\ align = "=" THEN SubSeq(t.s, 1, t.prefix) ELSE <<>>
      tail == CASE ~number -> body [] align = "=" -> From(t.s, t.prefix + 1) [] OTHER -> t.s
      pad == IF f.width > Len(head) + Len(tail) THEN f.width - Len(head) - Len(tail) ELSE 0
      before == CASE align = "<" -> 0 [] align = "^" -> pad \div 2 [] OTHER -> pad
      char == IF f.zero THEN "0" ELSE IF f.fill = "" THEN " " ELSE f.fill
  IN IF v.t = "null" THEN <<"(", "n", "u", "l", "l", ")">>
     ELSE head \o [i \in 1 .. before |-> char] \o tail \o [i \in 1 .. pad - before |-> char]

\* A call is in order if all or none of the fields have an index, and all denote something.
InOrder(case) ==
  LET n == 1 .. Len(Fields(case)) IN
  /\ \/ \A i \in n : Fields(case)[i].path = <<>>
     \/ \A i \in n : Fields(case)[i].path # <<>>
  /\ \A i \in n : IsScalar(Value(case, i)) /\ ~(Fields(case)[i].spec.zero /\ Fields(case)[i].spec.align # "")

Expected(case) ==
  LET nth(i) == Cardinality({j \in 1 .. i : "c" \notin DOMAIN case.pieces[j]})
      text(i) == IF "c" \in DOMAIN case.pieces[i] THEN <<case.pieces[i].c>>
                 ELSE RefText(CHOOSE v \in Value(case, nth(i)) : TRUE, case.pieces[i].spec)
  IN FlattenSeq([i \in DOMAIN case.pieces |-> text(i)])

\* An argument that the formatter takes for a piece of the format string.
HoldsBrace(case) == \E i \in 1 .. Len(Fields(case)) : \E v \in Value(case, i) :
                      v.t = "str" /\ Find(IF Fields(case)[i].spec.prec = -1 THEN v.s ELSE SubSeq(v.s, 1, Fields(case)[i].spec.prec), "}") # 0
\* Padding that pad() cuts short.
Wide(case) == \E i \in 1 .. Len(Fields(case)) : Fields(case)[i].spec.width > MaxPadding

-----------------------------------------------------------------------------
Start(case) ==
  [s |-> Template(case), out |-> <<>>, next |-> 0, implicit |-> FALSE, explicit |-> FALSE, st |-> "run", stray |-> FALSE]

Init == \E c \in Cases : ref = c /\ obj = Start(c)

Throw(o, s) == [o EXCEPT !.out = @ \o s, !.st = "thrown"]

\* DoFormatFrom: the argument the index names; BadFormatException behind the last.
DoFormatFrom(args, piece, f, k, prefix) ==
  LET index == {i \in DOMAIN args : Numeral(i - 1) = piece}
  IN IF index = {} THEN Bad ELSE FormatValue(args[CHOOSE i \in index : TRUE], f, k, prefix)

\* The replacement field at the head of o.s, which ends at q.
FormatField(o, case, prefix) ==
  LET q == Find(o.s, "}")
      body == SubSeq(o.s, 2, q - 1)
      Shown(f, k, piece) ==
        IF case.mode = "vFormat" THEN FormatValue(case.args[1], f, [k EXCEPT !.piece = piece], prefix \/ f.hash)
        ELSE DoFormatFrom(case.args, piece, f, SplitKey(k.rest), prefix \/ f.hash)
      Moved(implicit) ==
        [o EXCEPT !.next = IF implicit THEN @ + 1 ELSE @, !.implicit = @ \/ implicit, !.explicit = @ \/ ~implicit]
      Put(m, f, bad, t) ==
        IF q = 0 \/ f.bad \/ bad \/ (m.implicit /\ m.explicit) \/ t.bad THEN Throw(m, t.s)
        ELSE [m EXCEPT !.out = @ \o t.s, !.s = From(@, q + 1),
                       !.stray = @ \/ (prefix /\ ~f.hash /\ f.pres \in Prefixed)]
      Through(m, f, bad, r) == Put(m, f, bad \/ r.bad, Output(r.s))
      Field(f, k) ==
        LET implicit == k.piece = <<>>
        IN Through(Moved(implicit), f, k.bad, Shown(f, k, IF implicit THEN Numeral(o.next) ELSE k.piece))
  IN Field(InitSlow(SpecOf(body)), SplitKey(KeyOf(body)))

\* One round of the loop of Formatter::operator().
Round(o, case, prefix) ==
  LET p == Find(o.s, "{")
      text == Output(IF p = 0 THEN o.s ELSE SubSeq(o.s, 1, p - 1))
      after == [o EXCEPT !.out = @ \o text.s, !.s = From(@, p)]
  IN CASE o.s = <<>> -> [o EXCEPT !.st = "done"]
       [] text.bad -> Throw(o, text.s)
       [] p = 0 -> [o EXCEPT !.out = @ \o text.s, !.st = "done"]
       [] At(o.s, p + 1) = "{" -> [after EXCEPT !.out = @ \o <<"{">>, !.s = From(@, 3)]
       [] OTHER -> FormatField(after, case, prefix)

Next ==
  /\ obj.st = "run"
  /\ \E prefix \in BOOLEAN : obj' = Round(obj, ref, prefix)
  /\ UNCHANGED ref

Spec == Init /\ [][Next]_vars

\* The formatter throws exactly at a call that is not in order, and otherwise gives the text
\* str.format gives, except: an argument that holds "}" is taken for format text, and a
\* number in another base shows its base prefix when the uninitialised flag happens to be set.
Agrees ==
  /\ obj.st = "thrown" => ~InOrder(ref) \/ HoldsBrace(ref)
  /\ obj.st = "done" => /\ InOrder(ref)
                        /\ Wide(ref) \/ ((obj.out = Expected(ref)) <=> ~(obj.stray \/ HoldsBrace(ref)))
=============================================================================
