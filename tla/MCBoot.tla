------------------------------- MODULE MCBoot -------------------------------
(* Instances of Boot for TLC. *)
EXTENDS Boot

Info(a, d, b, x, y) == [attributes |-> a, direct |-> d, bpp |-> b, x |-> x, y |-> y]

\* Two pictures that fit, one that is too large by a line, one without a linear
\* frame buffer.
MCInfos ==
    { Info(TRUE, TRUE, 24, 8, 4), Info(TRUE, TRUE, 32, 8, 4), Info(TRUE, TRUE, 32, 8, 5),
      Info(FALSE, TRUE, 32, 8, 4) }

MCModeLists == {<<1>>, <<1, 2>>}

\* Two sectors of two entries: the kernel in the first one, in the second one
\* (twice), or nowhere.
MCDirectories == {<<2, 0, 0, 0>>, <<0, 0, 4, 2>>, <<0, 0>>}

=============================================================================
