------------------------------ MODULE MCEditor ------------------------------
(* One typed character and a text of at most MAX_CHARS bytes, two in     *)
(* MCEditor.cfg and three in the other configurations: enough for two      *)
(* lines, a join, a split, an empty last line, and an undo history at its  *)
(* limit of two.  A window two lines by two columns and a page of one line *)
(* keep page_up/down and scrolling in play.                                *)
EXTENDS Editor

MC_Chars == {"x"}
MC_InitFiles == {<<"x">>}
\* A file holding one two-byte UTF-8 character.
MC_InitFilesUtf8 == {<<LEAD, CONT>>}
=============================================================================
