------------------------------- MODULE Format -------------------------------
(***************************************************************************)
(* Formatted output of ListaOS: vprintf, which prints one character after  *)
(* the other, sprintf, which writes to memory and calls itself for every   *)
(* converted argument, and the conversions both use.                       *)
(*                                                                         *)
(* A character is an element of Chars.  Integers are scaled: an int or     *)
(* a long has IntDigits hexadecimal digits (8 in the code), a long long    *)
(* LongDigits (16).  A double is a whole number of units of its last       *)
(* decimal, of FloatDigits; rounding errors are left out.                  *)
(***************************************************************************)
EXTENDS Integers, Sequences, SequencesExt

CONSTANTS
    IntDigits, LongDigits, FloatDigits,
    Chars,      \* the characters, without NUL
    Items,      \* what calls are made of (see LegalItem)
    MaxItems    \* bound: items in a call

\* An item of a call is a literal character or a directive with its argument:
\* [conv |-> what is meant, spelled |-> the characters of the format,
\*  args |-> at most one argument].
Spelled(call)   == FlattenSeq([i \in DOMAIN call |-> call[i].spelled])
Arguments(call) == FlattenSeq([i \in DOMAIN call |-> call[i].args])

VARIABLES
    call,     \* the call under way, with one list of arguments for both functions
    mode,     \* "vprintf", then "sprintf", then "done"
    frames,   \* the calls of vprintf or sprintf under way: what is left of the
              \* format and the arguments, and where the text of sprintf begins
    len,      \* of vprintf, what it will return
    printed,  \* the characters given to putc
    mem,      \* the memory sprintf has written, up to the last write
    current,  \* characters written: the next one goes behind them
    returned  \* what the outermost sprintf returned

vars == <<call, mode, frames, len, printed, mem, current, returned>>

-----------------------------------------------------------------------------
(* Conversions *)

Pow(b, n) == LET power[k \in Nat] == IF k = 0 THEN 1 ELSE b * power[k - 1] IN power[n]

IntMod    == Pow(16, IntDigits)
LongMod   == Pow(16, LongDigits)
Signed(v) == IF 2 * v >= LongMod THEN v - LongMod ELSE v
Wrap(v)   == Signed(v % LongMod)

\* (char)(d + '0'), below '0' too: % keeps the sign of what it divides.
Digit(d) ==
    <<"'", "(", ")", "*", "+", ",", "-", ".", "/",
      "0", "1", "2", "3", "4", "5", "6", "7", "8", "9">>[d + 10]

HexDigit(d, uppercase) ==
    IF d < 10 THEN Digit(d)
    ELSE (IF uppercase THEN <<"A", "B", "C", "D", "E", "F">>
                       ELSE <<"a", "b", "c", "d", "e", "f">>)[d - 9]

\* The division of C truncates, and its remainder has the sign of n.
Tenth(n)     == IF n >= 0 THEN n \div 10 ELSE -((-n) \div 10)
LastDigit(n) == n - 10 * Tenth(n)

\* while (num != 0) takes the last digit off; the loop after it turns them round.
Decimal[n \in Int] ==
    IF n = 0 THEN <<>> ELSE Append(Decimal[Tenth(n)], Digit(LastDigit(n)))

utoa(num) == IF num = 0 THEN <<"0">> ELSE Decimal[num]

\* The sign is taken off by a negation that wraps.
itoa(num) ==
    IF num = 0 THEN <<"0">>
    ELSE IF num < 0 THEN <<"-">> \o Decimal[Wrap(-num)]
    ELSE Decimal[num]

\* The last n hexadecimal digits, the highest first.
Nibbles(num, n, uppercase) ==
    [i \in 1..n |-> HexDigit((num \div Pow(16, n - i)) % 16, uppercase)]

\* Mutant: every zero is taken off.
StrippedBare(s) == SelectSeq(s, LAMBDA d : d # "0")

\* Leading zeros are taken off, but for the last digit.
Stripped(s) ==
    LET keep == {i \in 1..Len(s) : s[i] # "0"} \cup {Len(s)}
    IN  SubSeq(s, Min(keep), Len(s))

itoh(num, uppercase) == Stripped(Nibbles(num, LongDigits, uppercase))
ptoa(num)            == <<"0", "x">> \o Nibbles(num, IntDigits, FALSE)

\* A number above the largest unsigned long long is divided by ten until it is
\* at most that, and from then on until it is at most ten.
Unit == Pow(10, FloatDigits)

Shrunk[num \in Nat] ==
    IF num <= 10 * Unit THEN <<num, 0>>
    ELSE LET less == Shrunk[num \div 10] IN <<less[1], less[2] + 1>>

\* The fraction is printed as a number and the exponent without a mark.
ftoa(num) ==
    LET abs == IF num < 0 THEN -num ELSE num
        exp == IF abs <= (LongMod - 1) * Unit THEN <<abs, 0>> ELSE Shrunk[abs]
    IN  (IF num < 0 THEN <<"-">> ELSE <<>>)
           \o utoa(exp[1] \div Unit) \o <<".">> \o utoa(exp[1] % Unit)
           \o (IF exp[2] > 0 THEN itoa(exp[2]) ELSE <<>>)

\* The text of an argument in vprintf.
Text(conv, v) ==
    CASE conv \in {"d", "ld", "lld"} -> itoa(v)
      [] conv \in {"u", "lu", "llu"} -> utoa(v)
      [] conv \in {"x", "lx", "llx"} -> itoh(v, FALSE)
      [] conv \in {"X", "lX", "llX"} -> itoh(v, TRUE)
      [] conv = "p" -> ptoa(v)
      [] conv = "f" -> ftoa(v)
      [] conv = "s" -> v

\* sprintf gives %u and %llu to _itoa.
TextInMemory(conv, v) ==
    IF conv \in {"u", "llu"} THEN itoa(Signed(v)) ELSE Text(conv, v)

-----------------------------------------------------------------------------
(* What both functions do with the format *)

\* What a format begins with: the conversion, "none" where the switch knows
\* none, and how many characters are passed over.  After %l the next character
\* but one is looked at, whatever the next one was.
Short == [c |-> "c", d |-> "d", f |-> "f", p |-> "p", s |-> "s", u |-> "u",
          X |-> "X", x |-> "x"]
Long  == [d |-> "ld", u |-> "lu", X |-> "lX", x |-> "lx"]
Wide  == [d |-> "lld", u |-> "llu", X |-> "llX", x |-> "llx"]

Known(table, c) == IF c \in DOMAIN table THEN table[c] ELSE "none"

Directive(f) ==
    CASE f[2] = "%"                         -> [conv |-> "%", used |-> 2]
      [] f[2] = "l" /\ f[3] \in DOMAIN Long -> [conv |-> Long[f[3]], used |-> 3]
      [] f[2] = "l" /\ f[3] \notin DOMAIN Long -> [conv |-> Known(Wide, f[4]), used |-> 4]
      [] OTHER                              -> [conv |-> Known(Short, f[2]), used |-> 2]

TakesArgument(conv) == conv \notin {"%", "none"}

\* A format that begins with a directive goes on up to its end.
Complete(f) == Len(f) >= 2 /\ (f[2] = "l" => Len(f) >= 3 /\ (f[3] \in DOMAIN Long \/ Len(f) >= 4))

\* A text that sprintf can take for a format without arguments: where it reads
\* on, there is a character or a whole directive that takes none.
Harmless(s) ==
    \E places \in SUBSET (1..(Len(s) + 1)) :
        /\ 1 \in places
        /\ \A i \in places \ {Len(s) + 1} :
              LET f == SubSeq(s, i, Len(s))
              IN  IF s[i] # "%" THEN i + 1 \in places
                  ELSE /\ Complete(f) /\ ~TakesArgument(Directive(f).conv)
                       /\ i + Directive(f).used \in places

\* What a call passes for a directive: numbers within their type, and strings
\* that do not make sprintf read arguments there are none of.
Values(conv) ==
    CASE conv \in {"d", "ld"}             -> {v \in Int : 2 * v >= -IntMod /\ 2 * v < IntMod}
      [] conv = "lld"                     -> {v \in Int : 2 * v >= -LongMod /\ 2 * v < LongMod}
      [] conv \in {"u", "x", "X", "lu", "lx", "lX", "p"} -> 0..(IntMod - 1)
      [] conv \in {"llu", "llx", "llX"}   -> 0..(LongMod - 1)
      [] conv = "f"                       -> Int
      [] conv = "c"                       -> Chars
      [] conv = "s"                       -> {s \in Seq(Chars) : Harmless(s)}

Spellings(conv) ==
    {<<"%", c>> : c \in {x \in DOMAIN Short : Short[x] = conv}}
      \cup {<<"%", "l", c>> : c \in {x \in DOMAIN Long : Long[x] = conv}}
      \cup {<<"%", "l", "l", c>> : c \in {x \in DOMAIN Wide : Wide[x] = conv}}

\* Formats that end inside a directive and arguments that do not fit are
\* undefined behaviour of the caller.
LegalItem(item) ==
    \/ item.conv = "lit" /\ item.args = <<>> /\ \E c \in Chars \ {"%"} : item.spelled = <<c>>
    \/ item.conv = "%" /\ item.args = <<>> /\ item.spelled = <<"%", "%">>
    \/ /\ item.conv = "none" /\ item.args = <<>>
       /\ \/ \E c \in Chars \ (DOMAIN Short \cup {"%", "l"}) : item.spelled = <<"%", c>>
          \/ \E c \in Chars \ DOMAIN Long, d \in Chars \ DOMAIN Wide : item.spelled = <<"%", "l", c, d>>
    \/ /\ item.spelled \in Spellings(item.conv)
       /\ item.args = <<item.args[1]>> /\ item.args[1] \in Values(item.conv)

ASSUME FormatAssumption ==
    /\ IntDigits \in Nat \ {0} /\ LongDigits \in Nat /\ IntDigits < LongDigits
    /\ FloatDigits \in Nat \ {0}
    /\ MaxItems \in Nat
    /\ "NUL" \notin Chars /\ {"%", "-", ".", "l", "x"} \subseteq Chars
    /\ DOMAIN Short \cup DOMAIN Long \cup DOMAIN Wide \subseteq Chars
    /\ {Digit(d) : d \in -9..9} \cup {HexDigit(d, u) : d \in 0..15, u \in BOOLEAN} \subseteq Chars
    /\ \A item \in Items : LegalItem(item)

Top     == Last(frames)
Literal == Top.format # <<>> /\ Head(Top.format) # "%"
AtSign  == Top.format # <<>> /\ Head(Top.format) = "%"
Conv    == Directive(Top.format).conv
Arg     == Head(Top.args)

\* The frame behind a literal character, and behind a directive.
Behind(frame) == [frame EXCEPT !.format = Tail(@)]
BehindDirective(frame) ==
    LET d == Directive(frame.format)
    IN  [frame EXCEPT !.format = SubSeq(@, d.used + 1, Len(@)),
                      !.args = IF TakesArgument(d.conv) THEN Tail(@) ELSE @]

OnTop(frame)  == Append(Front(frames), frame)
Frame(f, a)   == [format |-> f, args |-> a, from |-> current]

-----------------------------------------------------------------------------
(* vprintf *)

\* Mutant: a text counts as one character.
puts_once(text) ==
    /\ printed' = printed \o text
    /\ len' = len + 1

\* puts: one putc for every character.
puts(text) ==
    /\ printed' = printed \o text
    /\ len' = len + Len(text)

vprintf_char ==
    /\ mode = "vprintf" /\ Literal
    /\ puts(<<Head(Top.format)>>)
    /\ frames' = OnTop(Behind(Top))
    /\ UNCHANGED <<call, mode, mem, current, returned>>

vprintf_directive ==
    /\ mode = "vprintf" /\ AtSign
    /\ puts(CASE Conv = "%"    -> <<"%">>
              [] Conv = "none" -> <<>>
              [] Conv = "c"    -> <<Arg>>
              [] OTHER         -> Text(Conv, Arg))
    /\ frames' = OnTop(BehindDirective(Top))
    /\ UNCHANGED <<call, mode, mem, current, returned>>

\* The same call again, of sprintf.
vprintf_return ==
    /\ mode = "vprintf" /\ Top.format = <<>>
    /\ mode' = "sprintf"
    /\ frames' = <<Frame(Spelled(call), Arguments(call))>>
    /\ UNCHANGED <<call, len, printed, mem, current, returned>>

-----------------------------------------------------------------------------
(* sprintf *)

\* *current = c; what was behind it is not looked at again.
Write(c) == mem' = Append(SubSeq(mem, 1, current), c)

sprintf_put(c) ==
    /\ Write(c)
    /\ current' = current + 1

sprintf_char ==
    /\ mode = "sprintf" /\ Literal
    /\ sprintf_put(Head(Top.format))
    /\ frames' = OnTop(Behind(Top))
    /\ UNCHANGED <<call, mode, len, printed, returned>>

\* A converted argument is the format of another sprintf.
sprintf_directive ==
    /\ mode = "sprintf" /\ AtSign
    /\ \/ /\ Conv \in {"%", "c"}
          /\ sprintf_put(IF Conv = "%" THEN "%" ELSE Arg)
          /\ frames' = OnTop(BehindDirective(Top))
       \/ /\ Conv \notin {"%", "c", "none"}
          /\ frames' = Append(OnTop(BehindDirective(Top)), Frame(TextInMemory(Conv, Arg), <<>>))
          /\ UNCHANGED <<mem, current>>
       \/ /\ Conv = "none"
          /\ frames' = OnTop(BehindDirective(Top))
          /\ UNCHANGED <<mem, current>>
    /\ UNCHANGED <<call, mode, len, printed, returned>>

\* Mutant: the caller goes on behind the NUL.
sprintf_return_behind ==
    /\ mode = "sprintf" /\ Top.format = <<>>
    /\ Write("NUL")
    /\ IF Len(frames) = 1
       THEN mode' = "done" /\ returned' = current - Top.from /\ UNCHANGED current
       ELSE current' = current + 1 /\ UNCHANGED <<mode, returned>>
    /\ frames' = Front(frames)
    /\ UNCHANGED <<call, len, printed>>

\* The text ends with a NUL; the caller goes on where the length it is
\* told brings it, at that NUL.
sprintf_return ==
    /\ mode = "sprintf" /\ Top.format = <<>>
    /\ Write("NUL")
    /\ IF Len(frames) = 1
       THEN mode' = "done" /\ returned' = current - Top.from
       ELSE UNCHANGED <<mode, returned>>
    /\ frames' = Front(frames)
    /\ UNCHANGED <<call, len, printed, current>>

-----------------------------------------------------------------------------
Init ==
    /\ \E n \in 0..MaxItems : call \in [1..n -> Items]
    /\ mode = "vprintf"
    /\ frames = <<[format |-> Spelled(call), args |-> Arguments(call), from |-> 0]>>
    /\ len = 0
    /\ printed = <<>>
    /\ mem = <<>>
    /\ current = 0
    /\ returned = -1

vprintf == vprintf_char \/ vprintf_directive \/ vprintf_return
sprintf == sprintf_char \/ sprintf_directive \/ sprintf_return
Next    == vprintf \/ sprintf

Spec == Init /\ [][Next]_vars

-----------------------------------------------------------------------------
(* Properties *)

\* Reference: a digit stands for its place, and there are as many as needed.
Places(n, b)  == CHOOSE k \in 1..(2 * LongDigits) : n < Pow(b, k) /\ (k = 1 \/ n >= Pow(b, k - 1))
Positional(n, b, k, uppercase) ==
    [i \in 1..k |-> HexDigit((n \div Pow(b, k - i)) % b, uppercase)]
Number(n, b, uppercase) == Positional(n, b, Places(n, b), uppercase)
Sign(n)       == IF n < 0 THEN <<"-">> ELSE <<>>
Magnitude(n)  == IF n < 0 THEN -n ELSE n

Reference(item) ==
    LET v == item.args[1]
    IN  CASE item.conv = "lit" -> item.spelled
          [] item.conv = "%"   -> <<"%">>
          [] item.conv = "none" -> <<>>
          [] item.conv = "c"   -> <<v>>
          [] item.conv = "s"   -> v
          [] item.conv \in {"d", "ld", "lld", "u", "lu", "llu"} ->
                Sign(v) \o Number(Magnitude(v), 10, FALSE)
          [] item.conv \in {"x", "lx", "llx"} -> Number(v, 16, FALSE)
          [] item.conv \in {"X", "lX", "llX"} -> Number(v, 16, TRUE)
          [] item.conv = "p"   -> <<"0", "x">> \o Positional(v, 16, IntDigits, FALSE)
          [] item.conv = "f"   ->
                Sign(v) \o Number(Magnitude(v) \div Unit, 10, FALSE) \o <<".">>
                   \o Positional(Magnitude(v) % Unit, 10, FloatDigits, FALSE)

\* What vprintf does not print right: the smallest long long, whose negation
\* wraps; a fraction that begins with a zero; a number that needs an exponent.
Printable(item) ==
    /\ item.conv = "lld" => 2 * item.args[1] > -LongMod
    /\ item.conv = "f" => /\ Magnitude(item.args[1]) <= (LongMod - 1) * Unit
                         /\ 10 * (Magnitude(item.args[1]) % Unit) >= Unit

\* What sprintf does not write as vprintf prints it: an unsigned long long with
\* the highest bit, which it takes for a negative number, and a string with a
\* percent sign, which it takes for a format.
Writable(item) ==
    /\ item.conv = "llu" => 2 * item.args[1] < LongMod
    /\ item.conv = "s" => ~Contains(item.args[1], "%")

\* Whatever is printed before and after it, every argument that is printable is
\* taken for its own directive and printed as the C standard says.
PrintsReference ==
    mode # "vprintf" /\ (\A i \in DOMAIN call : Printable(call[i]))
        => printed = FlattenSeq([i \in DOMAIN call |-> Reference(call[i])])

\* sprintf, which is a function of its own that calls itself with what it has
\* converted, leaves in memory what vprintf has printed for the same call.
SprintfAgrees ==
    mode = "done" /\ (\A i \in DOMAIN call : Writable(call[i]))
        => SubSeq(mem, 1, current) = printed

\* Both return the length of their text, and the one NUL sprintf leaves is
\* behind it, however many it has written on the way.
LengthReturned ==
    /\ len = Len(printed)
    /\ mode = "done" => /\ returned = current
                        /\ Len(mem) = current + 1
                        /\ \A i \in DOMAIN mem : mem[i] = "NUL" <=> i = current + 1

TypeOK ==
    /\ mode \in {"vprintf", "sprintf", "done"}
    /\ Len(frames) <= 2
    /\ current \in 0..Len(mem)
    /\ \A i \in DOMAIN frames : frames[i].from <= current
    /\ returned \in Int

\* The type invariant, with the lengths.
FormatInv == TypeOK /\ LengthReturned

=============================================================================
