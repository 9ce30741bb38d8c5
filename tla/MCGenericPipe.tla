---------------------------- MODULE MCGenericPipe ----------------------------
EXTENDS GenericPipe

(* (check-sat) and (get-value (x)), and replies of the four shapes: a word, *)
(* a list, a list over several lines, a list that opens as it closes        *)
MCCommands == {<<"(", "c", ")">>, <<"(", "c", "(", "c", ")", ")">>}
MCReplies ==
  {<<"c", "c", "\n">>, <<"(", "c", ")", "\n">>,
   <<"(", "(", "c", "\n", "c", ")", ")", "\n">>, <<"(", ")", "\n">>}
=============================================================================
