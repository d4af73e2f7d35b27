---------------------------- MODULE MCSerialTool ----------------------------
(* Instance of SerialTool for TLC: each mode once, interactive where it may *)
(* be, and what the camera says in two or three bytes.                      *)
EXTENDS SerialTool

Plain == [args |-> FALSE, readonly |-> FALSE, hexin |-> FALSE, duncan |-> FALSE, basler |-> FALSE,
          wait |-> FALSE, foi |-> FALSE, waitchar |-> FALSE]
SomeOptions ==
  {Plain, [Plain EXCEPT !.waitchar = TRUE], [Plain EXCEPT !.waitchar = TRUE, !.foi = TRUE],
   [Plain EXCEPT !.hexin = TRUE, !.waitchar = TRUE], [Plain EXCEPT !.basler = TRUE],
   [Plain EXCEPT !.duncan = TRUE], [Plain EXCEPT !.readonly = TRUE],
   [Plain EXCEPT !.args = TRUE, !.wait = TRUE]}
SomeLines == {[n |-> 2, bad |-> 0], [n |-> 3, bad |-> 2]}
SomeJunk == {<<>>, <<"char", "char", "nul", "char", "wait">>}
SomeMessages == {<<>>, <<"char", "cr", "wait">>, <<"nul", "lf">>}
=============================================================================
