------------------------------ MODULE MCFormat ------------------------------
(* Instances of Format for TLC. *)
EXTENDS Format

MCChars ==
    {"'", "(", ")", "*", "+", ",", "-", ".", "/", "%",
     "0", "1", "2", "3", "4", "5", "6", "7", "8", "9",
     "a", "b", "c", "d", "e", "f", "A", "B", "C", "D", "E", "F",
     "l", "p", "q", "s", "u", "x", "X", "z"}

Lit(c)               == [conv |-> "lit", spelled |-> <<c>>, args |-> <<>>]
Item(conv, spelling, values) ==
    {[conv |-> conv, spelled |-> spelling, args |-> <<v>>] : v \in values}

\* Integers of two, or of four, hexadecimal digits, at the edges of their range,
\* with zeros inside and at the end; doubles with two decimals.
Ints      == {-128, -10, 0, 7, 105, 127}
Unsigneds == {0, 9, 100, 160, 175, 255}
Longs     == {-32768, -32767, 0, 1005, 32767}
ULongs    == {0, 4096, 43981, 32767, 32768, 65535}
Doubles   == {-314, 10, 150, 205, 6553599, 98765432}

MCItems ==
    {Lit("a"), Lit("5")}
      \cup {[conv |-> "%", spelled |-> <<"%", "%">>, args |-> <<>>]}
      \cup {[conv |-> "none", spelled |-> s, args |-> <<>>] :
               s \in {<<"%", "q">>, <<"%", "l", "q", "z">>}}
      \cup Item("d", <<"%", "d">>, Ints) \cup Item("ld", <<"%", "l", "d">>, Ints)
      \cup Item("lld", <<"%", "l", "l", "d">>, Longs)
      \cup Item("u", <<"%", "u">>, Unsigneds) \cup Item("lu", <<"%", "l", "u">>, {100, 255})
      \cup Item("llu", <<"%", "l", "l", "u">>, ULongs)
      \cup Item("x", <<"%", "x">>, Unsigneds) \cup Item("X", <<"%", "X">>, {0, 175})
      \cup Item("lx", <<"%", "l", "x">>, {160}) \cup Item("lX", <<"%", "l", "X">>, {175})
      \cup Item("llx", <<"%", "l", "l", "x">>, ULongs) \cup Item("llX", <<"%", "l", "l", "X">>, {43981})
      \cup Item("p", <<"%", "p">>, Unsigneds) \cup Item("f", <<"%", "f">>, Doubles)
      \cup Item("c", <<"%", "c">>, {"a"})
      \cup Item("s", <<"%", "s">>, {<<>>, <<"a", "b">>, <<"5", "%", "%">>})

=============================================================================
