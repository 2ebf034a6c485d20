---------------------------- MODULE MCExcimerLogReports ----------------------------
EXTENDS ExcimerLogReports

Pos(f, l, c, n, d, u) ==
  [file |-> f, lineno |-> l, class |-> c, function |-> n, closure_line |-> d, user |-> u]

\* Two files whose names differ in a space, a method, a recursive function at two of
\* its lines, a closure and an internal function.
spaced == Pos("a b", 1, "", "", 0, TRUE)
joined == Pos("a_b", 1, "", "", 0, TRUE)
method == Pos("a_b", 3, "C", "foo", 0, TRUE)
foo == Pos("a_b", 5, "", "foo", 0, TRUE)
foo2 == Pos("a_b", 6, "", "foo", 0, TRUE)
closure == Pos("a_b", 8, "", "{closure}", 7, TRUE)
internal == Pos("", 0, "", "usleep", 0, FALSE)

MCPositions == {spaced, joined, method, foo, foo2, closure, internal}
MCStacks == {<<>>, <<spaced>>, <<joined>>, <<foo, joined>>, <<foo2, joined>>, <<foo, spaced>>,
             <<method, joined>>, <<foo, internal, foo2, joined>>, <<internal, closure, method, joined>>}
MCNoSpaces(string) == IF string = "a b" THEN "a_b" ELSE string
===================================================================================
