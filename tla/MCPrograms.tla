----------------------------- MODULE MCPrograms -----------------------------
(***************************************************************************)
(* The instance of Programs that TLC checks.                               *)
(***************************************************************************)
EXTENDS Programs

\* Line ends; query strings; attributes; first lines; URLs and playlists.
MCAlphabets ==
  {{CR, LF, 97}, {Amp, Equals, PercentSign, Plus, 97, 50}, {Semicolon, Equals, Quote, SP, PercentSign},
   {SP, Question, Slash, CR, 97}, {Slash, 46, 97, 98, Sharp}}

\* A playlist lists an item twice, one of the index's own name, or one
\* whose directory is another's name.
MCPlaylists == {<<<<"a", "i">>, <<"a", "i">>>>, <<<<"index">>, <<"b", "i">>>>, <<<<"b">>, <<"b", "i">>>>}

MCSubLists == {<<"s">>, <<"s", "i">>}

=============================================================================
