----------------------------- MODULE MCPreflight ----------------------------
(***************************************************************************)
(* Preflight with contents of the credential file around every limit:      *)
(* empty, only a line ending, the longest password with and without a line *)
(* ending, one byte too long for a field, beyond the limit of the file,    *)
(* and one that is not UTF-8.                                              *)
(***************************************************************************)
EXTENDS Preflight

MCTexts ==
  {<<>>, <<"\n">>, <<"c">>, <<"c", "\r", "\n">>, <<"c", "c", "c">>, <<"c", "c", "c", "\n">>,
   <<"c", "c", "c", "c">>, <<"c", "c", "c", "c", "c">>, <<"invalid">>}
=============================================================================
