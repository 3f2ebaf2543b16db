------------------------------ MODULE MCShell ------------------------------
(***************************************************************************)
(* A screen of three short lines, so that a line of the longest length     *)
(* goes over the end of a screen line and, from the last one, of the       *)
(* screen.  One line clears, one reports nothing, one or two lines, lines  *)
(* that begin with b are echoed.                                           *)
(***************************************************************************)
EXTENDS Shell, TLC

MCGlyph == {"a", "b", ">", "?"}
MCBanner == <<"b", NEWLINE>>
MCPrompt == <<">">>
MCClearCommand == {<<"a">>}
MCReport ==
  <<"a", "a">> :> {<<>>, <<"a", NEWLINE>>, <<"a", "b", "a", "b", NEWLINE>>}
MCEchoPrefix == <<"b">>
MCUnknownText == <<"?">>
=============================================================================
